----------------------------- MODULE BlockCache -----------------------------
(***************************************************************************)
(* The cache of blocks (stat/base-cache.c): every bucket has c_link        *)
(* entries, each on the used list, doubly linked and ordered by the time   *)
(* of the last encache, or on the free list.  An operation is a function   *)
(* from a bucket's header to its header; one thread, tapdisk's, calls      *)
(* them.                                                                   *)
(***************************************************************************)
EXTENDS Integers, Sequences, FiniteSets

CONSTANTS Blocks,     \* numbers of blocks
          Contents,   \* contents of blocks
          c_ncache,   \* buckets
          c_link      \* entries of a bucket

ASSUME BlockCacheAssumption ==
    /\ Blocks \subseteq Nat /\ Contents # {}
    /\ c_ncache \in Nat \ {0} /\ c_link \in Nat \ {0, 1}

Entries == 1..c_link
NoEntry == 0
Headers == 0..c_ncache - 1
HeaderOf(x) == x % c_ncache

VARIABLE cache   \* c_ch: per bucket, the lists and the entries' fields

CacheInit ==
    cache = [h \in Headers |->
               [used |-> NoEntry, tail |-> NoEntry, free |-> 1,
                idx  |-> [e \in Entries |-> 0],
                data |-> [e \in Entries |-> CHOOSE c \in Contents : TRUE],
                next |-> [e \in Entries |-> IF e = c_link THEN NoEntry ELSE e + 1],
                prev |-> [e \in Entries |-> e - 1]]]
-----------------------------------------------------------------------------
\* The list that starts at e and follows the pointers of link; a list that
\* runs in a circle shows as longer than the entries are many.
ListFrom(e, link) ==
    LET walk[n \in 1..c_link + 1] ==
            IF n = 1 THEN e
            ELSE IF walk[n - 1] = NoEntry THEN NoEntry ELSE link[walk[n - 1]]
    IN [n \in 1..Cardinality({k \in 1..c_link + 1 : walk[k] # NoEntry})
            |-> walk[n]]

Used(ch) == ListFrom(ch.used, ch.next)

\* lookup_cache: the first used entry with the block's number, or none.
Lookup(ch, x) ==
    LET u == Used(ch)
        found == {k \in DOMAIN u : ch.idx[u[k]] = x}
    IN IF found = {} THEN NoEntry
       ELSE u[CHOOSE k \in found : \A j \in found : k <= j]

\* Assignment through a pointer that may be NULL.
Set(field, e, v) == IF e = NoEntry THEN field ELSE [field EXCEPT ![e] = v]

\* Mutant: ch_tail is not set when the last entry goes.
RemovedTailKept(ch, e) ==
    LET p == ch.prev[e]
        n == ch.next[e]
    IN [ch EXCEPT
          !.used = IF p = NoEntry THEN n ELSE @,
          !.next = [Set(@, p, n) EXCEPT ![e] = ch.free],
          !.prev = [Set(Set(@, n, p), ch.free, e) EXCEPT ![e] = NoEntry],
          !.free = e]

\* _remove_cache_entry.
Removed(ch, e) ==
    LET p == ch.prev[e]
        n == ch.next[e]
    IN [ch EXCEPT
          !.used = IF p = NoEntry THEN n ELSE @,
          !.tail = IF n = NoEntry THEN p ELSE @,
          !.next = [Set(@, p, n) EXCEPT ![e] = ch.free],
          !.prev = [Set(Set(@, n, p), ch.free, e) EXCEPT ![e] = NoEntry],
          !.free = e]

\* _insert_cache_entry of block x: the first free entry becomes the first used.
Inserted(ch, x) ==
    LET e == ch.free
        rest == ch.next[e]
    IN [ch EXCEPT
          !.free = rest,
          !.next = [@ EXCEPT ![e] = ch.used],
          !.prev = Set(Set(@, rest, NoEntry), ch.used, e),
          !.tail = IF ch.used = NoEntry THEN e ELSE @,
          !.used = e,
          !.idx = [@ EXCEPT ![e] = x]]

\* encache finds the block: its entry becomes the first used.
Refreshed(ch, e) ==
    LET p == ch.prev[e]
        n == ch.next[e]
    IN IF p = NoEntry THEN ch
       ELSE [ch EXCEPT
               !.tail = IF n = NoEntry THEN p ELSE @,
               !.next = [Set(@, p, n) EXCEPT ![e] = ch.used],
               !.prev = [Set(Set(@, n, p), ch.used, e) EXCEPT ![e] = NoEntry],
               !.used = e]

\* Mutant: a full bucket gives up the entry used last.
EncachedNewestOut(ch, x, c) ==
    LET e == Lookup(ch, x)
        room == IF ch.free = NoEntry THEN Removed(ch, ch.used) ELSE ch
        new == IF e = NoEntry THEN Inserted(room, x) ELSE Refreshed(ch, e)
    IN [new EXCEPT !.data[new.used] = c]

\* encache: a full bucket gives up the entry that was used longest ago.
Encached(ch, x, c) ==
    LET e == Lookup(ch, x)
        room == IF ch.free = NoEntry THEN Removed(ch, ch.tail) ELSE ch
        new == IF e = NoEntry THEN Inserted(room, x) ELSE Refreshed(ch, e)
    IN [new EXCEPT !.data[new.used] = c]

\* decache.
Decached(ch, x) ==
    IF Lookup(ch, x) = NoEntry THEN ch ELSE Removed(ch, Lookup(ch, x))

Encache(x, c) == cache' = [cache EXCEPT ![HeaderOf(x)] = Encached(@, x, c)]
Decache(x) == cache' = [cache EXCEPT ![HeaderOf(x)] = Decached(@, x)]

CacheNext == \E x \in Blocks : Decache(x) \/ \E c \in Contents : Encache(x, c)

CacheSpec == CacheInit /\ [][CacheNext]_cache
-----------------------------------------------------------------------------
(* Properties.                                                             *)

\* After any sequence of encache and decache every entry of a bucket is on the
\* used or on the free list, once; the used list read backwards from ch_tail
\* is the list read forwards; and the block numbers on it differ.
CacheLists ==
    \A h \in Headers :
        LET ch == cache[h]
            u == Used(ch)
            f == ListFrom(ch.free, ch.next)
            back == ListFrom(ch.tail, ch.prev)
        IN /\ Len(u) + Len(f) = c_link
           /\ {u[k] : k \in DOMAIN u} \cup {f[k] : k \in DOMAIN f} = Entries
           /\ back = [k \in DOMAIN u |-> u[Len(u) + 1 - k]]
           /\ \A j, k \in DOMAIN u : ch.idx[u[j]] = ch.idx[u[k]] => j = k

\* A bucket holds the blocks stored last, each with the content stored last.
TheLru == INSTANCE LruCache WITH
            Buckets <- Headers, Room <- c_link, BucketOf <- HeaderOf,
            recent <- [h \in Headers |->
                         LET u == Used(cache[h])
                         IN [k \in DOMAIN u |->
                               [block |-> cache[h].idx[u[k]],
                                content |-> cache[h].data[u[k]]]]]
ImplementsLru == TheLru!LruSpec
=============================================================================
