--------------------------- MODULE SsvdDriverProofs ---------------------------
(***************************************************************************)
(* Proofs about the disk driver and the structures it is built from, for   *)
(* any sizes: the cache of blocks is linked as the code walks it and       *)
(* implements LruCache; the queue between the driver's thread and the      *)
(* scanner implements Fifo, for any number of putters and getters; and     *)
(* with the driver's threads around them no slot is lost and the scanner   *)
(* finds the copies it was queued for.                                     *)
(*                                                                         *)
(* The first part is about the cache.  Its state is pointers; the          *)
(* invariant CacheInv says which two sequences of entries, used and free,  *)
(* the pointers of each bucket spell out, and each operation on the        *)
(* pointers is shown to be one on the sequences: an entry is taken out     *)
(* (Out) or put in front (Front).  The second part is about the queue, the *)
(* third about the driver: the items' numbers rise from the scanned ones   *)
(* through the queue to the one that is being put in.                      *)
(***************************************************************************)
EXTENDS SsvdDriver, SequenceTheorems, FiniteSetTheorems,
        WellFoundedInduction, TLAPS

Once(s) == \A j, k \in 1..Len(s) : s[j] = s[k] => j = k
NotIn(x, s) == \A k \in 1..Len(s) : s[k] # x
Apart(s, t) == \A j \in 1..Len(s), k \in 1..Len(t) : s[j] # t[k]

-----------------------------------------------------------------------------
(* The cache: its lists as sequences of entries.                           *)

\* The sizes of the cache, and that no entry is NULL.
LEMMA CacheConsts ==
    /\ c_link \in Nat /\ c_link > 1 /\ c_ncache \in Nat /\ c_ncache > 0
    /\ NoEntry \notin Entries
BY BlockCacheAssumption DEF NoEntry, Entries

\* The entry at place k, and what a pointer past either end of the list holds.
Place(s, k) == IF k \in 1..Len(s) THEN s[k] ELSE NoEntry

\* A list that starts at head and follows link holds the entries of s.
Chain(s, head, link) ==
    /\ head = Place(s, 1)
    /\ \A k \in 1..Len(s) : link[s[k]] = Place(s, k + 1)

\* A list that ends at tail, read backwards by link.
BackChain(s, tail, link) ==
    /\ tail = Place(s, Len(s))
    /\ \A k \in 1..Len(s) : link[s[k]] = Place(s, k - 1)

Pointers == [Entries -> Entries \cup {NoEntry}]

HeaderTypes ==
    [used : Entries \cup {NoEntry}, tail : Entries \cup {NoEntry},
     free : Entries \cup {NoEntry}, idx : [Entries -> Nat],
     data : [Entries -> Contents], next : Pointers, prev : Pointers]

\* Every entry is in one of the lists, once.
Shared(u, f) ==
    /\ u \in Seq(Entries) /\ f \in Seq(Entries)
    /\ Len(u) + Len(f) = c_link
    /\ Once(u) /\ Once(f)
    /\ \A e \in Entries : NotIn(e, u) <=> ~NotIn(e, f)

\* The entries of a list are about different blocks.
Distinct(idx, u) ==
    \A d, e \in Entries :
        ~NotIn(d, u) /\ ~NotIn(e, u) /\ idx[d] = idx[e] => d = e

\* The used list of the bucket is u and its free list f.
Ordered(ch, u, f) ==
    /\ Shared(u, f)
    /\ Chain(u, ch.used, ch.next) /\ Chain(f, ch.free, ch.next)
    /\ BackChain(u, ch.tail, ch.prev)
    /\ Distinct(ch.idx, u)
    /\ ch.free # NoEntry => ch.prev[ch.free] = NoEntry

CacheInv ==
    /\ cache \in [Headers -> HeaderTypes]
    /\ \A h \in Headers : \E u, f : Ordered(cache[h], u, f)

\* Lists with an entry taken out, put in front, or without the first.
Out(s, i) == [k \in 1..Len(s) - 1 |-> IF k < i THEN s[k] ELSE s[k + 1]]
Front(e, s) == [k \in 1..Len(s) + 1 |-> IF k = 1 THEN e ELSE s[k - 1]]

\* Taking out place i leaves a sequence, shorter by one.
LEMMA OutIs ==
    ASSUME NEW S, NEW s \in Seq(S), NEW i \in 1..Len(s)
    PROVE  /\ Out(s, i) \in Seq(S) /\ Len(Out(s, i)) = Len(s) - 1
           /\ \A k \in 1..Len(s) - 1 :
                 Out(s, i)[k] = IF k < i THEN s[k] ELSE s[k + 1]
<1>1. Len(s) \in Nat /\ Len(s) - 1 \in Nat
    OBVIOUS
<1>2. \A k \in 1..Len(s) - 1 : k \in 1..Len(s) /\ k + 1 \in 1..Len(s)
    BY <1>1
<1>3. \A k \in 1..Len(s) : s[k] \in S
    OBVIOUS
<1>4. \A k \in 1..Len(s) - 1 : (IF k < i THEN s[k] ELSE s[k + 1]) \in S
    BY <1>2, <1>3
<1> QED BY <1>1, <1>4 DEF Out

\* Putting an entry in front moves the others by one.
LEMMA FrontIs ==
    ASSUME NEW e, NEW s, Len(s) \in Nat
    PROVE  /\ Len(Front(e, s)) = Len(s) + 1
           /\ Front(e, s)[1] = e
           /\ \A k \in 2..Len(s) + 1 : Front(e, s)[k] = s[k - 1]
           /\ \A S : s \in Seq(S) /\ e \in S => Front(e, s) \in Seq(S)
<1>1. Len(Front(e, s)) = Len(s) + 1
    BY DEF Front
<1>2. Front(e, s)[1] = e /\ \A k \in 2..Len(s) + 1 : Front(e, s)[k] = s[k - 1]
    BY DEF Front
<1>3. ASSUME NEW S, s \in Seq(S), e \in S
      PROVE  Front(e, s) \in Seq(S)
  <2>1. \A k \in 1..Len(s) + 1 : k = 1 \/ k - 1 \in 1..Len(s)
    OBVIOUS
  <2>2. \A k \in 1..Len(s) : s[k] \in S
    BY <1>3
  <2>3. \A k \in 1..Len(s) + 1 : (IF k = 1 THEN e ELSE s[k - 1]) \in S
    BY <1>3, <2>1, <2>2
  <2>4. Len(s) + 1 \in Nat
    OBVIOUS
  <2> QED BY <2>3, <2>4 DEF Front
<1> QED BY <1>1, <1>2, <1>3

-----------------------------------------------------------------------------
(* What the code walks is what the sequences say.                          *)

\* A set of numbers that is not empty has a least one.
LEMMA LeastOf ==
    ASSUME NEW T, T \subseteq Nat, T # {}
    PROVE  \E x \in T : \A y \in T : ~(y < x)
<1> DEFINE R == OpToRel(<, Nat)
<1>1. IsWellFoundedOn(R, Nat)
    BY NatLessThanWellFounded, Zenon
<1>2. \E x \in T : \A y \in T : <<y, x>> \notin R
  <2> HIDE DEF R
  <2> QED BY <1>1, WFMin
<1>3. \A x, y \in Nat : y < x => <<y, x>> \in R
    BY SMT DEF OpToRel
<1> QED BY <1>2, <1>3

\* walk, of ListFrom.
WalkOf(e, link) ==
    CHOOSE w : w = [n \in 1..c_link + 1 |->
        IF n = 1 THEN e
        ELSE IF w[n - 1] = NoEntry THEN NoEntry ELSE link[w[n - 1]]]

\* Following the pointers of a list, ListFrom reads the places of its
\* sequence and then NULL.
LEMMA WalkIs ==
    ASSUME NEW e, NEW link, NEW s \in Seq(Entries), Len(s) <= c_link,
           Chain(s, e, link)
    PROVE  WalkOf(e, link) = [n \in 1..c_link + 1 |-> Place(s, n)]
<1> DEFINE g == [n \in 1..c_link + 1 |-> Place(s, n)]
           w == WalkOf(e, link)
<1>1. c_link \in Nat /\ Len(s) \in Nat
    BY CacheConsts
<1>2. \A n \in 1..c_link + 1 :
         Place(s, n) = IF n = 1 THEN e
                       ELSE IF g[n - 1] = NoEntry THEN NoEntry
                            ELSE link[g[n - 1]]
  <2> SUFFICES ASSUME NEW n \in 1..c_link + 1, n # 1
               PROVE  Place(s, n) = IF g[n - 1] = NoEntry THEN NoEntry
                                    ELSE link[g[n - 1]]
    BY DEF Chain
  <2>1. n - 1 \in 1..c_link + 1 /\ g[n - 1] = Place(s, n - 1)
    BY <1>1
  <2>2. CASE n - 1 \in 1..Len(s)
    <3>1. Place(s, n - 1) = s[n - 1] /\ s[n - 1] \in Entries
      BY <2>2 DEF Place
    <3>2. link[s[n - 1]] = Place(s, (n - 1) + 1) /\ (n - 1) + 1 = n
      BY <2>2 DEF Chain
    <3> QED BY <2>1, <3>1, <3>2, CacheConsts
  <2>3. CASE n - 1 \notin 1..Len(s)
    <3>1. Place(s, n - 1) = NoEntry /\ n \notin 1..Len(s)
      BY <1>1, <2>1, <2>3 DEF Place
    <3> QED BY <2>1, <3>1 DEF Place
  <2> QED BY <2>2, <2>3
<1>3. g = [n \in 1..c_link + 1 |->
              IF n = 1 THEN e
              ELSE IF g[n - 1] = NoEntry THEN NoEntry ELSE link[g[n - 1]]]
    BY <1>2
<1>4. w = [n \in 1..c_link + 1 |->
              IF n = 1 THEN e
              ELSE IF w[n - 1] = NoEntry THEN NoEntry ELSE link[w[n - 1]]]
  <2> HIDE DEF g
  <2> QED BY <1>3, Zenon DEF WalkOf
<1> HIDE DEF w
<1>5. \A n \in 1..c_link + 1 :
         w[n] = IF n = 1 THEN e
                ELSE IF w[n - 1] = NoEntry THEN NoEntry ELSE link[w[n - 1]]
    BY <1>4
<1> DEFINE Bad == {n \in 1..c_link + 1 : w[n] # g[n]}
<1>6. Bad = {}
  <2> SUFFICES ASSUME Bad # {} PROVE FALSE
    OBVIOUS
  <2>1. Bad \subseteq Nat
    BY <1>1
  <2>2. PICK n \in Bad : \A m \in Bad : ~(m < n)
    <3> HIDE DEF Bad
    <3> QED BY <2>1, LeastOf
  <2>3. n \in 1..c_link + 1 /\ w[n] # g[n] /\ g[n] = Place(s, n)
    BY <2>2
  <2>4. n # 1
    BY <1>2, <1>5, <2>3
  <2>5. n - 1 \in 1..c_link + 1 /\ n - 1 < n
    BY <1>1, <2>3, <2>4
  <2>6. w[n - 1] = g[n - 1]
    BY <2>2, <2>5
  <2> HIDE DEF g, Bad
  <2> QED BY <1>2, <1>5, <2>3, <2>4, <2>6
<1>7. \A n \in 1..c_link + 1 : w[n] = g[n]
    BY <1>6
<1>8. w = [n \in 1..c_link + 1 |-> w[n]]
    BY <1>4
<1>9. w = g
    BY <1>7, <1>8
<1> QED BY <1>9 DEF w

\* What ListFrom returns is the sequence the pointers spell out.
LEMMA ListIs ==
    ASSUME NEW e, NEW link, NEW s \in Seq(Entries), Len(s) <= c_link,
           Chain(s, e, link)
    PROVE  ListFrom(e, link) = s
<1>1. c_link \in Nat /\ Len(s) \in Nat
    BY CacheConsts
<1> DEFINE g == [n \in 1..c_link + 1 |-> Place(s, n)]
<1>2. ListFrom(e, link) =
        [n \in 1..Cardinality({k \in 1..c_link + 1 : g[k] # NoEntry}) |-> g[n]]
  <2>1. WalkOf(e, link) = g
    BY WalkIs
  <2>2. ListFrom(e, link) =
          [n \in 1..Cardinality({k \in 1..c_link + 1 :
                                    WalkOf(e, link)[k] # NoEntry})
              |-> WalkOf(e, link)[n]]
    BY DEF ListFrom, WalkOf
  <2> HIDE DEF g
  <2> QED BY <2>1, <2>2
<1>3. {k \in 1..c_link + 1 : g[k] # NoEntry} = 1..Len(s)
  <2>1. \A k \in 1..Len(s) : s[k] # NoEntry
    BY CacheConsts
  <2> QED BY <1>1, <2>1 DEF Place
<1>4. Cardinality(1..Len(s)) = Len(s)
  <2>1. \A n \in Nat : Cardinality(1..n) = IF 1 > n THEN 0 ELSE n - 1 + 1
    BY FS_Interval
  <2>2. \A n \in Nat : Cardinality(1..n) = n
    BY <2>1
  <2> QED BY <1>1, <2>2
<1>5. \A n \in 1..Len(s) : g[n] = s[n]
    BY <1>1 DEF Place
<1>6. ListFrom(e, link) = [n \in 1..Len(s) |-> g[n]]
    BY <1>2, <1>3, <1>4
<1>7. s = [n \in 1..Len(s) |-> s[n]]
    OBVIOUS
<1> HIDE DEF g
<1> QED BY <1>5, <1>6, <1>7

\* A place holds an entry, or NULL beyond either end.
LEMMA PlaceType ==
    ASSUME NEW s \in Seq(Entries), NEW k \in Int
    PROVE  /\ Place(s, k) \in Entries \cup {NoEntry}
           /\ Place(s, k) = NoEntry <=> k \notin 1..Len(s)
BY CacheConsts DEF Place

\* The places of a list after an entry was taken out.
LEMMA PlaceOut ==
    ASSUME NEW S, NEW s \in Seq(S), NEW i \in 1..Len(s), NEW k \in Int
    PROVE  Place(Out(s, i), k) = IF k < i THEN Place(s, k) ELSE Place(s, k + 1)
<1>1. Len(s) \in Nat
    OBVIOUS
<1>2. /\ Len(Out(s, i)) = Len(s) - 1
      /\ \A j \in 1..Len(s) - 1 : Out(s, i)[j] = IF j < i THEN s[j] ELSE s[j + 1]
    BY OutIs
<1>3. CASE k < i
  <2>1. k \in 1..Len(s) <=> k \in 1..Len(s) - 1
    BY <1>1, <1>3
  <2> QED BY <1>2, <1>3, <2>1 DEF Place
<1>4. CASE ~(k < i)
  <2>1. k + 1 \in 1..Len(s) <=> k \in 1..Len(s) - 1
    BY <1>1, <1>4
  <2> QED BY <1>2, <1>4, <2>1 DEF Place
<1> QED BY <1>3, <1>4

\* The places of a list after an entry was put in front.
LEMMA PlaceFront ==
    ASSUME NEW S, NEW s \in Seq(S), NEW e \in S, NEW k \in Int
    PROVE  Place(Front(e, s), k) = IF k = 1 THEN e ELSE Place(s, k - 1)
<1>1. Len(s) \in Nat
    OBVIOUS
<1>2. /\ Len(Front(e, s)) = Len(s) + 1 /\ Front(e, s)[1] = e
      /\ \A j \in 2..Len(s) + 1 : Front(e, s)[j] = s[j - 1]
    BY <1>1, FrontIs
<1>3. CASE k = 1
    BY <1>1, <1>2, <1>3 DEF Place
<1>4. CASE k # 1
  <2>1. k - 1 \in 1..Len(s) <=> k \in 1..Len(s) + 1
    BY <1>1, <1>4
  <2>2. k \in 1..Len(s) + 1 => k \in 2..Len(s) + 1
    BY <1>1, <1>4
  <2> QED BY <1>2, <1>4, <2>1, <2>2 DEF Place
<1> QED BY <1>3, <1>4

\* Taking place i out takes one entry out, and none comes twice.
LEMMA NotInOut ==
    ASSUME NEW S, NEW s \in Seq(S), NEW i \in 1..Len(s), Once(s)
    PROVE  /\ \A x : NotIn(x, Out(s, i)) <=> NotIn(x, s) \/ x = s[i]
           /\ Once(Out(s, i))
<1>1. Len(s) \in Nat
    OBVIOUS
<1>2. /\ Len(Out(s, i)) = Len(s) - 1
      /\ \A j \in 1..Len(s) - 1 : Out(s, i)[j] = IF j < i THEN s[j] ELSE s[j + 1]
    BY OutIs
<1>3. ASSUME NEW x, NEW j \in 1..Len(s) - 1, Out(s, i)[j] = x
      PROVE  ~NotIn(x, s) /\ x # s[i]
  <2>1. PICK k \in 1..Len(s) : k # i /\ s[k] = x
    <3>1. j \in 1..Len(s) /\ j + 1 \in 1..Len(s)
      BY <1>1
    <3>2. CASE j < i
      BY <1>2, <1>3, <3>1, <3>2
    <3>3. CASE ~(j < i)
      BY <1>2, <1>3, <3>1, <3>3
    <3> QED BY <3>2, <3>3
  <2> QED BY <2>1 DEF NotIn, Once
<1>4. ASSUME NEW x, NEW k \in 1..Len(s), s[k] = x, x # s[i]
      PROVE  \E j \in 1..Len(s) - 1 : Out(s, i)[j] = x
  <2>1. CASE k < i
    <3>1. k \in 1..Len(s) - 1
      BY <1>1, <2>1
    <3> QED BY <1>2, <1>4, <2>1, <3>1
  <2>2. CASE k > i
    <3>1. k - 1 \in 1..Len(s) - 1 /\ ~(k - 1 < i) /\ (k - 1) + 1 = k
      BY <1>1, <2>2
    <3> QED BY <1>2, <1>4, <3>1
  <2>3. k # i
    BY <1>4
  <2> QED BY <2>1, <2>2, <2>3
<1>5. \A x : NotIn(x, Out(s, i)) <=> NotIn(x, s) \/ x = s[i]
    BY <1>2, <1>3, <1>4 DEF NotIn
<1>6. Once(Out(s, i))
  <2> SUFFICES ASSUME NEW j \in 1..Len(s) - 1, NEW k \in 1..Len(s) - 1,
                      Out(s, i)[j] = Out(s, i)[k]
               PROVE  j = k
    BY <1>2 DEF Once
  <2>1. /\ j \in 1..Len(s) /\ j + 1 \in 1..Len(s)
        /\ k \in 1..Len(s) /\ k + 1 \in 1..Len(s)
    BY <1>1
  <2>2. (IF j < i THEN j ELSE j + 1) = IF k < i THEN k ELSE k + 1
    BY <1>2, <2>1 DEF Once
  <2> QED BY <2>2
<1> QED BY <1>5, <1>6

\* Putting a new entry in front adds one entry, and none comes twice.
LEMMA NotInFront ==
    ASSUME NEW S, NEW s \in Seq(S), NEW e \in S, Once(s), NotIn(e, s)
    PROVE  /\ \A x : NotIn(x, Front(e, s)) <=> NotIn(x, s) /\ x # e
           /\ Once(Front(e, s))
<1>1. Len(s) \in Nat
    OBVIOUS
<1>2. /\ Len(Front(e, s)) = Len(s) + 1 /\ Front(e, s)[1] = e
      /\ \A j \in 2..Len(s) + 1 : Front(e, s)[j] = s[j - 1]
    BY <1>1, FrontIs
<1>3. \A j \in 1..Len(s) + 1 :
         \/ j = 1
         \/ j - 1 \in 1..Len(s) /\ Front(e, s)[j] = s[j - 1]
    BY <1>1, <1>2
<1>4. \A k \in 1..Len(s) : k + 1 \in 1..Len(s) + 1 /\ Front(e, s)[k + 1] = s[k]
    BY <1>1, <1>2
<1>5. 1 \in 1..Len(s) + 1
    BY <1>1
<1>6. \A x : NotIn(x, Front(e, s)) <=> NotIn(x, s) /\ x # e
    BY <1>2, <1>3, <1>4, <1>5 DEF NotIn
<1>7. Once(Front(e, s))
  <2> SUFFICES ASSUME NEW j \in 1..Len(s) + 1, NEW k \in 1..Len(s) + 1,
                      Front(e, s)[j] = Front(e, s)[k]
               PROVE  j = k
    BY <1>2 DEF Once
  <2>1. CASE j = 1 /\ k = 1
    BY <2>1
  <2>2. CASE j # 1 /\ k # 1
    BY <1>3, <2>2 DEF Once
  <2>3. CASE j = 1 /\ k # 1
    BY <1>2, <1>3, <2>3 DEF NotIn
  <2>4. CASE j # 1 /\ k = 1
    BY <1>2, <1>3, <2>4 DEF NotIn
  <2> QED BY <2>1, <2>2, <2>3, <2>4
<1> QED BY <1>6, <1>7

\* Used and free list share the entries; which is which does not matter.
LEMMA SharedSym ==
    ASSUME NEW u, NEW f, Shared(u, f) PROVE Shared(f, u)
<1>1. Len(u) \in Nat /\ Len(f) \in Nat /\ Len(f) + Len(u) = c_link
    BY DEF Shared
<1> QED BY <1>1 DEF Shared

\* An entry goes from one list to the front of the other.
LEMMA MoveShared ==
    ASSUME NEW u, NEW f, Shared(u, f), NEW i \in 1..Len(u)
    PROVE  Shared(Out(u, i), Front(u[i], f))
<1>1. /\ u \in Seq(Entries) /\ f \in Seq(Entries) /\ u[i] \in Entries
      /\ Len(u) \in Nat /\ Len(f) \in Nat /\ Len(u) + Len(f) = c_link
      /\ Once(u) /\ Once(f)
    BY DEF Shared
<1>2. ~NotIn(u[i], u)
    BY DEF NotIn
<1>3. NotIn(u[i], f)
    BY <1>1, <1>2 DEF Shared
<1>4. /\ \A x : NotIn(x, Out(u, i)) <=> NotIn(x, u) \/ x = u[i]
      /\ Once(Out(u, i))
    BY <1>1, NotInOut
<1>5. /\ \A x : NotIn(x, Front(u[i], f)) <=> NotIn(x, f) /\ x # u[i]
      /\ Once(Front(u[i], f))
    BY <1>1, <1>3, NotInFront
<1>6. Out(u, i) \in Seq(Entries) /\ Len(Out(u, i)) = Len(u) - 1
    BY <1>1, OutIs
<1>7. Front(u[i], f) \in Seq(Entries) /\ Len(Front(u[i], f)) = Len(f) + 1
    BY <1>1, FrontIs
<1>8. Len(Out(u, i)) + Len(Front(u[i], f)) = c_link
    BY <1>1, <1>6, <1>7
<1>9. \A e \in Entries : NotIn(e, Out(u, i)) <=> ~NotIn(e, Front(u[i], f))
    BY <1>4, <1>5 DEF Shared
<1> QED BY <1>4, <1>5, <1>6, <1>7, <1>8, <1>9 DEF Shared

\* An entry goes to the front of its own list.
LEMMA TopShared ==
    ASSUME NEW u, NEW f, Shared(u, f), NEW i \in 1..Len(u)
    PROVE  Shared(Front(u[i], Out(u, i)), f)
<1>1. /\ u \in Seq(Entries) /\ f \in Seq(Entries) /\ u[i] \in Entries
      /\ Len(u) \in Nat /\ Len(f) \in Nat /\ Len(u) + Len(f) = c_link
      /\ Once(u) /\ Once(f)
    BY DEF Shared
<1>2. ~NotIn(u[i], u)
    BY DEF NotIn
<1>4. /\ \A x : NotIn(x, Out(u, i)) <=> NotIn(x, u) \/ x = u[i]
      /\ Once(Out(u, i))
    BY <1>1, NotInOut
<1>6. Out(u, i) \in Seq(Entries) /\ Len(Out(u, i)) = Len(u) - 1
    BY <1>1, OutIs
<1> DEFINE v == Out(u, i)
<1>5. /\ \A x : NotIn(x, Front(u[i], v)) <=> NotIn(x, v) /\ x # u[i]
      /\ Once(Front(u[i], v))
  <2>1. NotIn(u[i], v)
    BY <1>4
  <2> HIDE DEF v
  <2> QED BY <1>1, <1>4, <1>6, <2>1, NotInFront DEF v
<1>7. Front(u[i], v) \in Seq(Entries) /\ Len(Front(u[i], v)) = Len(v) + 1
  <2> HIDE DEF v
  <2> QED BY <1>1, <1>6, FrontIs DEF v
<1>8. Len(Front(u[i], v)) + Len(f) = c_link
    BY <1>1, <1>6, <1>7
<1>9. \A e \in Entries : NotIn(e, Front(u[i], v)) <=> ~NotIn(e, f)
    BY <1>2, <1>4, <1>5 DEF Shared
<1> QED BY <1>1, <1>5, <1>7, <1>8, <1>9 DEF Shared

\* The facts about Front that the lists of entries need, in one place.
LEMMA EntryFront ==
    \A s \in Seq(Entries), e \in Entries :
        /\ Len(s) \in Nat /\ Len(Front(e, s)) = Len(s) + 1 /\ Front(e, s)[1] = e
        /\ \A k \in 2..Len(s) + 1 : Front(e, s)[k] = s[k - 1]
        /\ \A k \in Int : Place(Front(e, s), k) = IF k = 1 THEN e
                                                 ELSE Place(s, k - 1)
<1> TAKE s \in Seq(Entries), e \in Entries
<1>1. /\ Len(Front(e, s)) = Len(s) + 1 /\ Front(e, s)[1] = e
      /\ \A k \in 2..Len(s) + 1 : Front(e, s)[k] = s[k - 1]
    BY FrontIs
<1>2. \A k \in Int : Place(Front(e, s), k) = IF k = 1 THEN e
                                             ELSE Place(s, k - 1)
    BY PlaceFront
<1> QED BY <1>1, <1>2

\* The links of a list before and after an entry is taken out of it or put in
\* front, forwards and backwards.
LinksOut(s, i, link, link1) ==
    \A k \in 1..Len(s) : k # i =>
        link1[s[k]] = IF k = i - 1 THEN Place(s, i + 1) ELSE link[s[k]]
LinksKept(s, link, link1) == \A k \in 1..Len(s) : link1[s[k]] = link[s[k]]
BackLinksOut(s, i, link, link1) ==
    \A k \in 1..Len(s) : k # i =>
        link1[s[k]] = IF k = i + 1 THEN Place(s, i - 1) ELSE link[s[k]]
BackLinksFront(s, e, link, link1) ==
    \A k \in 1..Len(s) : link1[s[k]] = IF k = 1 THEN e ELSE link[s[k]]

\* What taking an entry out and putting one in front does to a chain.
LEMMA ChainOut ==
    ASSUME NEW s \in Seq(Entries), NEW i \in 1..Len(s),
           NEW head, NEW link, Chain(s, head, link),
           NEW head1, head1 = IF i = 1 THEN Place(s, 2) ELSE head,
           NEW link1, LinksOut(s, i, link, link1)
    PROVE  Chain(Out(s, i), head1, link1)
<1>1. /\ Len(s) \in Nat /\ Len(Out(s, i)) = Len(s) - 1
      /\ \A k \in 1..Len(s) - 1 : Out(s, i)[k] = IF k < i THEN s[k] ELSE s[k + 1]
    BY OutIs
<1>2. \A k \in Int : Place(Out(s, i), k) = IF k < i THEN Place(s, k)
                                           ELSE Place(s, k + 1)
    BY PlaceOut
<1>3. head1 = Place(Out(s, i), 1)
    BY <1>2 DEF Chain
<1>4. ASSUME NEW k \in 1..Len(s) - 1
      PROVE  link1[Out(s, i)[k]] = Place(Out(s, i), k + 1)
  <2>1. /\ k \in 1..Len(s) /\ k + 1 \in 1..Len(s) /\ k + 1 \in Int
        /\ (k + 1) + 1 = k + 2 /\ (i - 1) + 1 = i /\ (k + 1) - 1 = k
    BY <1>1
  <2>2. CASE k < i - 1
    <3>1. k < i /\ k + 1 < i /\ k # i /\ k # i - 1
      BY <2>2
    <3> QED BY <1>1, <1>2, <2>1, <3>1 DEF Chain, LinksOut
  <2>3. CASE k = i - 1
    <3>1. k < i /\ ~(k + 1 < i) /\ k # i /\ k + 1 = i
      BY <2>3
    <3> QED BY <1>1, <1>2, <2>1, <2>3, <3>1 DEF Chain, LinksOut
  <2>4. CASE ~(k < i)
    <3>1. ~(k + 1 < i) /\ k + 1 # i /\ k + 1 # i - 1
      BY <2>4
    <3> QED BY <1>1, <1>2, <2>1, <2>4, <3>1 DEF Chain, LinksOut
  <2>5. k < i - 1 \/ k = i - 1 \/ ~(k < i)
    OBVIOUS
  <2> QED BY <2>2, <2>3, <2>4, <2>5
<1> QED BY <1>1, <1>3, <1>4 DEF Chain

\* An entry put in front, linked to the old head, makes a longer list.
LEMMA ChainFront ==
    ASSUME NEW s \in Seq(Entries), NEW e \in Entries,
           NEW head, NEW link, Chain(s, head, link),
           NEW link1, link1[e] = head, LinksKept(s, link, link1)
    PROVE  Chain(Front(e, s), e, link1)
<1>1. /\ Len(s) \in Nat /\ Len(Front(e, s)) = Len(s) + 1 /\ Front(e, s)[1] = e
      /\ \A k \in 2..Len(s) + 1 : Front(e, s)[k] = s[k - 1]
    BY EntryFront, Zenon
<1>2. \A k \in Int : Place(Front(e, s), k) = IF k = 1 THEN e
                                             ELSE Place(s, k - 1)
    BY EntryFront, Zenon
<1>3. ASSUME NEW k \in 1..Len(s) + 1
      PROVE  link1[Front(e, s)[k]] = Place(Front(e, s), k + 1)
  <2>1. k + 1 \in Int /\ k + 1 # 1 /\ (k + 1) - 1 = k /\ (k - 1) + 1 = k
    OBVIOUS
  <2>2. CASE k = 1
    BY <1>1, <1>2, <2>1, <2>2 DEF Chain, LinksKept
  <2>3. CASE k # 1
    <3>1. k \in 2..Len(s) + 1 /\ k - 1 \in 1..Len(s)
      BY <1>1, <2>3
    <3>2. Front(e, s)[k] = s[k - 1] /\ Place(Front(e, s), k + 1) = Place(s, k)
      BY <1>1, <1>2, <2>1, <3>1
    <3>3. link1[s[k - 1]] = link[s[k - 1]]
      BY <3>1 DEF LinksKept
    <3>4. link[s[k - 1]] = Place(s, k)
      BY <2>1, <3>1 DEF Chain
    <3> QED BY <3>2, <3>3, <3>4
  <2> QED BY <2>2, <2>3
<1> QED BY <1>1, <1>2, <1>3 DEF Chain

\* The list read backwards, after an entry was taken out.
LEMMA BackOut ==
    ASSUME NEW s \in Seq(Entries), NEW i \in 1..Len(s),
           NEW tail, NEW link, BackChain(s, tail, link),
           NEW tail1, tail1 = IF i = Len(s) THEN Place(s, i - 1) ELSE tail,
           NEW link1, BackLinksOut(s, i, link, link1)
    PROVE  BackChain(Out(s, i), tail1, link1)
<1>1. /\ Len(s) \in Nat /\ Len(Out(s, i)) = Len(s) - 1
      /\ \A k \in 1..Len(s) - 1 : Out(s, i)[k] = IF k < i THEN s[k] ELSE s[k + 1]
    BY OutIs
<1>2. \A k \in Int : Place(Out(s, i), k) = IF k < i THEN Place(s, k)
                                           ELSE Place(s, k + 1)
    BY PlaceOut
<1>3. tail1 = Place(Out(s, i), Len(s) - 1)
  <2>1. Len(s) - 1 \in Int /\ (Len(s) - 1) + 1 = Len(s)
        /\ (Len(s) - 1 < i <=> i = Len(s))
    BY <1>1
  <2> QED BY <1>2, <2>1 DEF BackChain
<1>4. ASSUME NEW k \in 1..Len(s) - 1
      PROVE  link1[Out(s, i)[k]] = Place(Out(s, i), k - 1)
  <2>1. /\ k \in 1..Len(s) /\ k + 1 \in 1..Len(s) /\ k - 1 \in Int
        /\ (k - 1) + 1 = k /\ (k + 1) - 1 = k
    BY <1>1
  <2>2. CASE k < i
    <3>1. k - 1 < i /\ k # i /\ k # i + 1
      BY <2>2
    <3> QED BY <1>1, <1>2, <2>1, <2>2, <3>1 DEF BackChain, BackLinksOut
  <2>3. CASE k = i
    <3>1. k - 1 < i /\ ~(k < i) /\ k + 1 = i + 1 /\ k + 1 # i /\ k - 1 = i - 1
      BY <2>3
    <3> QED BY <1>1, <1>2, <2>1, <3>1 DEF BackChain, BackLinksOut
  <2>4. CASE k > i
    <3>1. ~(k - 1 < i) /\ ~(k < i) /\ k + 1 # i + 1 /\ k + 1 # i
      BY <2>4
    <3>2. link1[s[k + 1]] = link[s[k + 1]]
      BY <2>1, <3>1 DEF BackLinksOut
    <3>3. link[s[k + 1]] = Place(s, k)
      BY <2>1 DEF BackChain
    <3>4. Place(Out(s, i), k - 1) = Place(s, k) /\ Out(s, i)[k] = s[k + 1]
      BY <1>1, <1>2, <2>1, <3>1
    <3> QED BY <3>2, <3>3, <3>4
  <2>5. k < i \/ k = i \/ k > i
    OBVIOUS
  <2> QED BY <2>2, <2>3, <2>4, <2>5
<1> QED BY <1>1, <1>3, <1>4 DEF BackChain

\* The list read backwards, after an entry was put in front.
LEMMA BackFront ==
    ASSUME NEW s \in Seq(Entries), NEW e \in Entries,
           NEW tail, NEW link, BackChain(s, tail, link),
           NEW tail1, tail1 = IF s = <<>> THEN e ELSE tail,
           NEW link1, link1[e] = NoEntry, BackLinksFront(s, e, link, link1)
    PROVE  BackChain(Front(e, s), tail1, link1)
<1>1. /\ Len(s) \in Nat /\ Len(Front(e, s)) = Len(s) + 1 /\ Front(e, s)[1] = e
      /\ \A k \in 2..Len(s) + 1 : Front(e, s)[k] = s[k - 1]
    BY EntryFront, Zenon
<1>2. \A k \in Int : Place(Front(e, s), k) = IF k = 1 THEN e
                                             ELSE Place(s, k - 1)
    BY EntryFront, Zenon
<1>3. tail1 = Place(Front(e, s), Len(s) + 1)
  <2>1. Len(s) + 1 \in Int /\ (Len(s) + 1) - 1 = Len(s)
        /\ (Len(s) + 1 = 1 <=> s = <<>>)
    BY <1>1
  <2> QED BY <1>2, <2>1 DEF BackChain
<1>4. ASSUME NEW k \in 1..Len(s) + 1
      PROVE  link1[Front(e, s)[k]] = Place(Front(e, s), k - 1)
  <2>1. k - 1 \in Int
    OBVIOUS
  <2>2. CASE k = 1
    <3>1. k - 1 # 1 /\ (k - 1) - 1 \notin 1..Len(s)
      BY <2>2
    <3> QED BY <1>1, <1>2, <2>1, <2>2, <3>1 DEF Place
  <2>3. CASE k = 2
    <3>1. k \in 2..Len(s) + 1 /\ k - 1 \in 1..Len(s) /\ k - 1 = 1
      BY <1>1, <2>3
    <3> QED BY <1>1, <1>2, <2>1, <3>1 DEF BackLinksFront
  <2>4. CASE k > 2
    <3>1. k \in 2..Len(s) + 1 /\ k - 1 \in 1..Len(s) /\ k - 1 # 1
      BY <1>1, <2>4
    <3>2. Front(e, s)[k] = s[k - 1] /\ Place(Front(e, s), k - 1)
            = Place(s, (k - 1) - 1)
      BY <1>1, <1>2, <2>1, <3>1
    <3>3. link1[s[k - 1]] = link[s[k - 1]]
      BY <3>1 DEF BackLinksFront
    <3>4. link[s[k - 1]] = Place(s, (k - 1) - 1)
      BY <3>1 DEF BackChain
    <3> QED BY <3>2, <3>3, <3>4
  <2>5. k = 1 \/ k = 2 \/ k > 2
    OBVIOUS
  <2> QED BY <2>2, <2>3, <2>4, <2>5
<1> QED BY <1>1, <1>3, <1>4 DEF BackChain

-----------------------------------------------------------------------------
(* The operations on a bucket.                                             *)

\* What _remove_cache_entry assigns, pointer by pointer.
LEMMA RemovedFields ==
    ASSUME NEW ch \in HeaderTypes, NEW e \in Entries,
           NEW p, ch.prev[e] = p, NEW n, ch.next[e] = n,
           NEW r, r = Removed(ch, e)
    PROVE  /\ r \in HeaderTypes
           /\ r.used = (IF p = NoEntry THEN n ELSE ch.used)
           /\ r.tail = (IF n = NoEntry THEN p ELSE ch.tail)
           /\ r.free = e /\ r.idx = ch.idx /\ r.data = ch.data
           /\ \A d \in Entries :
                 /\ r.next[d] = IF d = e THEN ch.free
                                ELSE IF d = p THEN n ELSE ch.next[d]
                 /\ r.prev[d] = IF d = e THEN NoEntry
                                ELSE IF d = ch.free THEN e
                                ELSE IF d = n THEN p ELSE ch.prev[d]
<1> DEFINE nx == [Set(ch.next, p, n) EXCEPT ![e] = ch.free]
           pv == [Set(Set(ch.prev, n, p), ch.free, e) EXCEPT ![e] = NoEntry]
<1>1. /\ ch.used \in Entries \cup {NoEntry} /\ ch.tail \in Entries \cup {NoEntry}
      /\ ch.free \in Entries \cup {NoEntry} /\ ch.idx \in [Entries -> Nat]
      /\ ch.data \in [Entries -> Contents] /\ ch.next \in Pointers
      /\ ch.prev \in Pointers
    BY DEF HeaderTypes
<1>2. p \in Entries \cup {NoEntry} /\ n \in Entries \cup {NoEntry}
    BY <1>1 DEF Pointers
<1>3. /\ r.used = (IF p = NoEntry THEN n ELSE ch.used)
      /\ r.tail = (IF n = NoEntry THEN p ELSE ch.tail)
      /\ r.free = e /\ r.idx = ch.idx /\ r.data = ch.data
      /\ r.next = nx /\ r.prev = pv
    BY DEF Removed, HeaderTypes
<1>4. nx \in Pointers /\ pv \in Pointers
    BY <1>1, <1>2, CacheConsts DEF Pointers, Set
<1>5. \A d \in Entries :
         /\ nx[d] = IF d = e THEN ch.free
                    ELSE IF d = p THEN n ELSE ch.next[d]
         /\ pv[d] = IF d = e THEN NoEntry
                    ELSE IF d = ch.free THEN e
                    ELSE IF d = n THEN p ELSE ch.prev[d]
    BY <1>1, <1>2, CacheConsts DEF Pointers, Set
<1>6. r \in HeaderTypes
  <2>1. ASSUME NEW a \in Entries \cup {NoEntry}, NEW b \in Entries \cup {NoEntry},
               NEW c \in Pointers, NEW d \in Pointers
        PROVE  [ch EXCEPT !.used = a, !.tail = b, !.next = c, !.prev = d,
                          !.free = e] \in HeaderTypes
    BY DEF HeaderTypes
  <2>2. r = [ch EXCEPT !.used = IF p = NoEntry THEN n ELSE ch.used,
                       !.tail = IF n = NoEntry THEN p ELSE ch.tail,
                       !.next = nx, !.prev = pv, !.free = e]
    BY DEF Removed
  <2> HIDE DEF nx, pv
  <2>3. PICK a, b : /\ a = (IF p = NoEntry THEN n ELSE ch.used)
                    /\ b = (IF n = NoEntry THEN p ELSE ch.tail)
    OBVIOUS
  <2>4. a \in Entries \cup {NoEntry} /\ b \in Entries \cup {NoEntry}
    BY <1>1, <1>2, <2>3
  <2>5. r = [ch EXCEPT !.used = a, !.tail = b, !.next = nx, !.prev = pv,
                       !.free = e]
    BY <2>2, <2>3
  <2>6. [ch EXCEPT !.used = a, !.tail = b, !.next = nx, !.prev = pv,
                   !.free = e] \in HeaderTypes
    BY <1>4, <2>1, <2>4, Zenon
  <2> QED BY <2>5, <2>6
<1> QED BY <1>3, <1>5, <1>6

\* The entries of a bucket's two lists differ from each other, and the heads
\* are the first places.
LEMMA ListFacts ==
    ASSUME NEW ch, NEW u, NEW f, Ordered(ch, u, f)
    PROVE  /\ u \in Seq(Entries) /\ f \in Seq(Entries)
           /\ Len(u) \in Nat /\ Len(f) \in Nat /\ Len(u) + Len(f) = c_link
           /\ \A k \in 1..Len(u) :
                 /\ u[k] \in Entries /\ u[k] # ch.free
                 /\ \A j \in Int : u[k] = Place(u, j) <=> k = j
                 /\ \A j \in Int : u[k] # Place(f, j)
           /\ \A k \in 1..Len(f) :
                 /\ f[k] \in Entries /\ f[k] # ch.used
                 /\ \A j \in Int : f[k] = Place(f, j) <=> k = j
                 /\ \A j \in Int : f[k] # Place(u, j)
           /\ ch.used = Place(u, 1) /\ ch.free = Place(f, 1)
<1>1. /\ u \in Seq(Entries) /\ f \in Seq(Entries)
      /\ Len(u) \in Nat /\ Len(f) \in Nat /\ Once(u) /\ Once(f)
      /\ Len(u) + Len(f) = c_link
      /\ ch.used = Place(u, 1) /\ ch.free = Place(f, 1)
    BY DEF Ordered, Shared, Chain
<1>2. ASSUME NEW s \in Seq(Entries), Once(s), NEW k \in 1..Len(s), NEW j \in Int
      PROVE  s[k] \in Entries /\ (s[k] = Place(s, j) <=> k = j)
  <2>1. s[k] \in Entries
    OBVIOUS
  <2>2. CASE j \in 1..Len(s)
    BY <1>2, <2>1, <2>2 DEF Once, Place
  <2>3. CASE j \notin 1..Len(s)
    BY <2>1, <2>3, CacheConsts DEF Place
  <2> QED BY <2>1, <2>2, <2>3
<1>3. \A k \in 1..Len(u) : u[k] \in Entries
                          /\ \A j \in Int : u[k] = Place(u, j) <=> k = j
    BY <1>1, <1>2
<1>4. \A k \in 1..Len(f) : f[k] \in Entries
                          /\ \A j \in Int : f[k] = Place(f, j) <=> k = j
    BY <1>1, <1>2
<1>5. \A k \in 1..Len(u), j \in 1..Len(f) : u[k] # f[j]
  <2> SUFFICES ASSUME NEW k \in 1..Len(u), NEW j \in 1..Len(f), u[k] = f[j]
               PROVE  FALSE
    OBVIOUS
  <2>1. ~NotIn(u[k], u) /\ ~NotIn(f[j], f)
    BY DEF NotIn
  <2> QED BY <1>3, <2>1 DEF Ordered, Shared
<1>6. \A k \in 1..Len(u), j \in Int : u[k] # Place(f, j)
    BY <1>3, <1>5, CacheConsts DEF Place
<1>7. \A k \in 1..Len(f), j \in Int : f[k] # Place(u, j)
    BY <1>4, <1>5, CacheConsts DEF Place
<1> QED BY <1>1, <1>3, <1>4, <1>6, <1>7

\* _remove_cache_entry moves an entry from the used list to the front of the
\* free list.
LEMMA RemovedOrdered ==
    ASSUME NEW ch \in HeaderTypes, NEW u, NEW f, Ordered(ch, u, f),
           NEW i \in 1..Len(u)
    PROVE  /\ Removed(ch, u[i]) \in HeaderTypes
           /\ Ordered(Removed(ch, u[i]), Out(u, i), Front(u[i], f))
           /\ Removed(ch, u[i]).free = u[i]
           /\ Removed(ch, u[i]).idx = ch.idx /\ Removed(ch, u[i]).data = ch.data
<1> DEFINE e == u[i]
           r == Removed(ch, e)
           p == Place(u, i - 1)
           n == Place(u, i + 1)
<1>1. /\ u \in Seq(Entries) /\ f \in Seq(Entries) /\ e \in Entries
      /\ Len(u) \in Nat /\ Len(f) \in Nat /\ Once(u) /\ Once(f)
      /\ Chain(u, ch.used, ch.next) /\ Chain(f, ch.free, ch.next)
      /\ BackChain(u, ch.tail, ch.prev)
    BY DEF Ordered, Shared
<1>2. ch.prev[e] = p /\ ch.next[e] = n
    BY <1>1 DEF Chain, BackChain
<1>3. /\ r \in HeaderTypes
      /\ r.used = (IF p = NoEntry THEN n ELSE ch.used)
      /\ r.tail = (IF n = NoEntry THEN p ELSE ch.tail)
      /\ r.free = e /\ r.idx = ch.idx /\ r.data = ch.data
      /\ \A d \in Entries :
            /\ r.next[d] = IF d = e THEN ch.free
                           ELSE IF d = p THEN n ELSE ch.next[d]
            /\ r.prev[d] = IF d = e THEN NoEntry
                           ELSE IF d = ch.free THEN e
                           ELSE IF d = n THEN p ELSE ch.prev[d]
  <2>1. r = Removed(ch, e)
    OBVIOUS
  <2> HIDE DEF p, n, e, r
  <2> QED BY <1>1, <1>2, <2>1, RemovedFields
<1> HIDE DEF r
<1>4. Shared(Out(u, i), Front(e, f))
    BY MoveShared DEF Ordered
<1>5. /\ (p = NoEntry <=> i = 1) /\ (n = NoEntry <=> i = Len(u))
      /\ (i = 1 => n = Place(u, 2))
  <2>1. i - 1 \in Int /\ i + 1 \in Int /\ (i - 1 \notin 1..Len(u) <=> i = 1)
        /\ (i + 1 \notin 1..Len(u) <=> i = Len(u))
    BY <1>1
  <2> QED BY <1>1, <2>1, PlaceType
<1>6. \A k \in 1..Len(u) :
         /\ u[k] \in Entries /\ (u[k] = e <=> k = i)
         /\ (u[k] = p <=> k = i - 1) /\ (u[k] = n <=> k = i + 1)
         /\ u[k] # ch.free
  <2>1. i - 1 \in Int /\ i + 1 \in Int /\ i \in Int
    OBVIOUS
  <2>2. e = Place(u, i)
    BY DEF Place
  <2> QED BY <2>1, <2>2, ListFacts
<1>7. \A k \in 1..Len(f) : f[k] \in Entries /\ f[k] # e /\ f[k] # p
  <2>1. i - 1 \in Int /\ i \in Int /\ e = Place(u, i)
    BY DEF Place
  <2> QED BY <2>1, ListFacts
<1> HIDE DEF e, p, n
<1>8. Chain(Out(u, i), r.used, r.next)
  <2>1. LinksOut(u, i, ch.next, r.next)
    BY <1>3, <1>6 DEF n, LinksOut
  <2>2. r.used = IF i = 1 THEN Place(u, 2) ELSE ch.used
    BY <1>3, <1>5
  <2> QED BY <1>1, <2>1, <2>2, ChainOut
<1>9. Chain(Front(e, f), r.free, r.next)
  <2>1. LinksKept(f, ch.next, r.next)
    BY <1>3, <1>7 DEF LinksKept
  <2>2. r.next[e] = ch.free
    BY <1>1, <1>3
  <2>3. Chain(Front(e, f), e, r.next)
    BY <1>1, <2>1, <2>2, ChainFront
  <2> QED BY <1>3, <2>3
<1>10. BackChain(Out(u, i), r.tail, r.prev)
  <2>1. BackLinksOut(u, i, ch.prev, r.prev)
    BY <1>3, <1>6 DEF p, BackLinksOut
  <2>2. r.tail = IF i = Len(u) THEN Place(u, i - 1) ELSE ch.tail
    BY <1>3, <1>5 DEF p
  <2> QED BY <1>1, <2>1, <2>2, BackOut
<1>11. Distinct(r.idx, Out(u, i))
  <2>1. \A x : NotIn(x, Out(u, i)) <=> NotIn(x, u) \/ x = u[i]
    BY <1>1, NotInOut
  <2> QED BY <1>3, <2>1 DEF Distinct, Ordered
<1>12. r.prev[r.free] = NoEntry
    BY <1>1, <1>3
<1>13. Ordered(r, Out(u, i), Front(e, f))
    BY <1>4, <1>8, <1>9, <1>10, <1>11, <1>12 DEF Ordered
<1> QED BY <1>3, <1>13 DEF e, r

\* What _insert_cache_entry assigns, pointer by pointer.
LEMMA InsertedFields ==
    ASSUME NEW ch \in HeaderTypes, NEW e \in Entries, ch.free = e,
           NEW rest, ch.next[e] = rest, NEW x \in Nat,
           NEW r, r = Inserted(ch, x)
    PROVE  /\ r \in HeaderTypes
           /\ r.used = e /\ r.free = rest /\ r.data = ch.data
           /\ r.tail = (IF ch.used = NoEntry THEN e ELSE ch.tail)
           /\ r.idx = [ch.idx EXCEPT ![e] = x]
           /\ \A d \in Entries :
                 /\ r.next[d] = IF d = e THEN ch.used ELSE ch.next[d]
                 /\ r.prev[d] = IF d = ch.used THEN e
                                ELSE IF d = rest THEN NoEntry ELSE ch.prev[d]
<1> DEFINE nx == [ch.next EXCEPT ![e] = ch.used]
           pv == Set(Set(ch.prev, rest, NoEntry), ch.used, e)
           ix == [ch.idx EXCEPT ![e] = x]
<1>1. /\ ch.used \in Entries \cup {NoEntry} /\ ch.tail \in Entries \cup {NoEntry}
      /\ ch.free \in Entries \cup {NoEntry} /\ ch.idx \in [Entries -> Nat]
      /\ ch.data \in [Entries -> Contents] /\ ch.next \in Pointers
      /\ ch.prev \in Pointers
    BY DEF HeaderTypes
<1>2. rest \in Entries \cup {NoEntry}
    BY <1>1 DEF Pointers
<1>3. /\ r.used = e /\ r.free = rest /\ r.data = ch.data
      /\ r.tail = (IF ch.used = NoEntry THEN e ELSE ch.tail)
      /\ r.next = nx /\ r.prev = pv /\ r.idx = ix
    BY DEF Inserted, HeaderTypes
<1>4. nx \in Pointers /\ pv \in Pointers /\ ix \in [Entries -> Nat]
    BY <1>1, <1>2, CacheConsts DEF Pointers, Set
<1>5. \A d \in Entries :
         /\ nx[d] = IF d = e THEN ch.used ELSE ch.next[d]
         /\ pv[d] = IF d = ch.used THEN e
                    ELSE IF d = rest THEN NoEntry ELSE ch.prev[d]
    BY <1>1, <1>2, CacheConsts DEF Pointers, Set
<1>6. r \in HeaderTypes
  <2>1. ASSUME NEW a \in Entries \cup {NoEntry}, NEW b \in Entries \cup {NoEntry},
               NEW c \in Pointers, NEW d \in Pointers, NEW i \in [Entries -> Nat]
        PROVE  [ch EXCEPT !.free = a, !.next = c, !.prev = d, !.tail = b,
                          !.used = e, !.idx = i] \in HeaderTypes
    BY DEF HeaderTypes
  <2>2. r = [ch EXCEPT !.free = rest, !.next = nx, !.prev = pv,
                       !.tail = IF ch.used = NoEntry THEN e ELSE ch.tail,
                       !.used = e, !.idx = ix]
    BY DEF Inserted
  <2> HIDE DEF nx, pv, ix
  <2>3. PICK b : b = (IF ch.used = NoEntry THEN e ELSE ch.tail)
    OBVIOUS
  <2>4. b \in Entries \cup {NoEntry}
    BY <1>1, <1>2, <2>3
  <2>5. r = [ch EXCEPT !.free = rest, !.next = nx, !.prev = pv, !.tail = b,
                       !.used = e, !.idx = ix]
    BY <2>2, <2>3
  <2>6. [ch EXCEPT !.free = rest, !.next = nx, !.prev = pv, !.tail = b,
                   !.used = e, !.idx = ix] \in HeaderTypes
    BY <1>2, <1>4, <2>1, <2>4, Zenon
  <2> QED BY <2>5, <2>6
<1> QED BY <1>3, <1>5, <1>6

\* No entry of the list is about block x.
Fresh(idx, u, x) == \A k \in 1..Len(u) : idx[u[k]] # x

\* _insert_cache_entry moves the first free entry to the front of the used
\* list.
LEMMA InsertedOrdered ==
    ASSUME NEW ch \in HeaderTypes, NEW u, NEW f, Ordered(ch, u, f),
           ch.free # NoEntry, NEW x \in Nat, Fresh(ch.idx, u, x)
    PROVE  /\ Inserted(ch, x) \in HeaderTypes
           /\ 1 \in 1..Len(f)
           /\ Ordered(Inserted(ch, x), Front(f[1], u), Out(f, 1))
           /\ Inserted(ch, x).used = f[1]
           /\ Inserted(ch, x).idx = [ch.idx EXCEPT ![f[1]] = x]
           /\ Inserted(ch, x).data = ch.data
<1> DEFINE e == f[1]
           r == Inserted(ch, x)
           rest == Place(f, 2)
<1>1. /\ u \in Seq(Entries) /\ f \in Seq(Entries)
      /\ Len(u) \in Nat /\ Len(f) \in Nat /\ Once(u) /\ Once(f)
      /\ Chain(u, ch.used, ch.next) /\ Chain(f, ch.free, ch.next)
      /\ BackChain(u, ch.tail, ch.prev) /\ Shared(u, f)
      /\ ch.used = Place(u, 1)
    BY DEF Ordered, Shared, Chain
<1>2. 1 \in 1..Len(f) /\ ch.free = e /\ e \in Entries /\ ch.prev[e] = NoEntry
  <2>1. ch.free = Place(f, 1)
    BY <1>1 DEF Chain
  <2>2. 1 \in 1..Len(f) /\ ch.free = e
    BY <2>1 DEF Place
  <2> QED BY <1>1, <2>2 DEF Ordered
<1>3. ch.next[e] = rest
    BY <1>1, <1>2 DEF Chain
<1>4. /\ r \in HeaderTypes
      /\ r.used = e /\ r.free = rest /\ r.data = ch.data
      /\ r.tail = (IF ch.used = NoEntry THEN e ELSE ch.tail)
      /\ r.idx = [ch.idx EXCEPT ![e] = x]
      /\ \A d \in Entries :
            /\ r.next[d] = IF d = e THEN ch.used ELSE ch.next[d]
            /\ r.prev[d] = IF d = ch.used THEN e
                           ELSE IF d = rest THEN NoEntry ELSE ch.prev[d]
  <2>1. r = Inserted(ch, x)
    OBVIOUS
  <2> HIDE DEF r, e, rest
  <2> QED BY <1>2, <1>3, <2>1, InsertedFields
<1>5. Shared(Front(e, u), Out(f, 1))
    BY <1>1, <1>2, SharedSym, MoveShared
<1>6. /\ \A k \in 1..Len(u) :
            /\ u[k] \in Entries /\ u[k] # e /\ u[k] # rest
            /\ (u[k] = ch.used <=> k = 1)
      /\ \A k \in 1..Len(f) :
            f[k] \in Entries /\ (f[k] = e <=> k = 1) /\ f[k] # ch.used
  <2>1. e = Place(f, 1) /\ 1 \in Int /\ 2 \in Int
    BY <1>2 DEF Place
  <2>2. /\ \A k \in 1..Len(u) :
              /\ u[k] \in Entries
              /\ \A j \in Int : u[k] = Place(u, j) <=> k = j
              /\ \A j \in Int : u[k] # Place(f, j)
        /\ \A k \in 1..Len(f) :
              /\ f[k] \in Entries /\ f[k] # ch.used
              /\ \A j \in Int : f[k] = Place(f, j) <=> k = j
    BY ListFacts
  <2> QED BY <1>1, <2>1, <2>2
<1>7. rest # NoEntry => rest \in Entries /\ rest # ch.used
  <2>1. CASE 2 \in 1..Len(f)
    BY <1>6, <2>1 DEF Place
  <2>2. CASE 2 \notin 1..Len(f)
    BY <2>2 DEF Place
  <2> QED BY <2>1, <2>2
<1>8. e # ch.used /\ e # rest /\ (ch.used = NoEntry <=> u = <<>>)
  <2>1. e # ch.used
    BY <1>2, <1>6
  <2>2. e # rest
    <3>1. e = Place(f, 2) <=> 1 = 2
      BY <1>2, ListFacts
    <3> QED BY <3>1
  <2>3. ch.used = NoEntry <=> 1 \notin 1..Len(u)
    BY <1>1, PlaceType
  <2> QED BY <1>1, <2>1, <2>2, <2>3
<1> HIDE DEF e, r, rest
<1>9. Chain(Front(e, u), r.used, r.next)
  <2>1. LinksKept(u, ch.next, r.next)
    BY <1>4, <1>6 DEF LinksKept
  <2>2. r.next[e] = ch.used
    BY <1>2, <1>4
  <2>3. Chain(Front(e, u), e, r.next)
    BY <1>1, <1>2, <2>1, <2>2, ChainFront
  <2> QED BY <1>4, <2>3
<1>10. Chain(Out(f, 1), r.free, r.next)
  <2>1. LinksOut(f, 1, ch.next, r.next)
    <3>1. \A k \in 1..Len(f) : k # 1 - 1
      OBVIOUS
    <3> QED BY <1>4, <1>6, <3>1 DEF LinksOut
  <2>2. r.free = IF 1 = 1 THEN Place(f, 2) ELSE ch.free
    BY <1>4 DEF rest
  <2> QED BY <1>1, <1>2, <2>1, <2>2, ChainOut
<1>11. BackChain(Front(e, u), r.tail, r.prev)
  <2>1. BackLinksFront(u, e, ch.prev, r.prev)
    BY <1>4, <1>6 DEF BackLinksFront
  <2>2. r.tail = IF u = <<>> THEN e ELSE ch.tail
    BY <1>4, <1>8
  <2>3. r.prev[e] = NoEntry
    BY <1>2, <1>4, <1>8
  <2> QED BY <1>1, <1>2, <2>1, <2>2, <2>3, BackFront
<1>12. Distinct(r.idx, Front(e, u))
  <2>1. NotIn(e, u)
    BY <1>6 DEF NotIn
  <2>2. \A d : NotIn(d, Front(e, u)) <=> NotIn(d, u) /\ d # e
    BY <1>1, <1>2, <2>1, NotInFront
  <2>3. \A d \in Entries : ~NotIn(d, u) => ch.idx[d] # x
    BY DEF NotIn, Fresh
  <2>4. \A d \in Entries : r.idx[d] = IF d = e THEN x ELSE ch.idx[d]
    BY <1>2, <1>4 DEF HeaderTypes
  <2> QED BY <2>2, <2>3, <2>4 DEF Distinct, Ordered
<1>13. r.free # NoEntry => r.prev[r.free] = NoEntry
    BY <1>4, <1>7
<1>14. Ordered(r, Front(e, u), Out(f, 1))
    BY <1>5, <1>9, <1>10, <1>11, <1>12, <1>13 DEF Ordered
<1> QED BY <1>2, <1>4, <1>14 DEF e, r

\* What encache assigns when it finds the block in an entry that is not the
\* first, pointer by pointer.
LEMMA RefreshedFields ==
    ASSUME NEW ch \in HeaderTypes, NEW e \in Entries,
           NEW p, ch.prev[e] = p, p # NoEntry, NEW n, ch.next[e] = n,
           NEW r, r = Refreshed(ch, e)
    PROVE  /\ r \in HeaderTypes
           /\ r.used = e /\ r.free = ch.free /\ r.idx = ch.idx
           /\ r.data = ch.data
           /\ r.tail = (IF n = NoEntry THEN p ELSE ch.tail)
           /\ \A d \in Entries :
                 /\ r.next[d] = IF d = e THEN ch.used
                                ELSE IF d = p THEN n ELSE ch.next[d]
                 /\ r.prev[d] = IF d = e THEN NoEntry
                                ELSE IF d = ch.used THEN e
                                ELSE IF d = n THEN p ELSE ch.prev[d]
<1> DEFINE nx == [Set(ch.next, p, n) EXCEPT ![e] = ch.used]
           pv == [Set(Set(ch.prev, n, p), ch.used, e) EXCEPT ![e] = NoEntry]
<1>1. /\ ch.used \in Entries \cup {NoEntry} /\ ch.tail \in Entries \cup {NoEntry}
      /\ ch.free \in Entries \cup {NoEntry} /\ ch.idx \in [Entries -> Nat]
      /\ ch.data \in [Entries -> Contents] /\ ch.next \in Pointers
      /\ ch.prev \in Pointers
    BY DEF HeaderTypes
<1>2. p \in Entries \cup {NoEntry} /\ n \in Entries \cup {NoEntry}
    BY <1>1 DEF Pointers
<1>3. r = [ch EXCEPT !.tail = IF n = NoEntry THEN p ELSE ch.tail,
                     !.next = nx, !.prev = pv, !.used = e]
    BY DEF Refreshed
<1>4. nx \in Pointers /\ pv \in Pointers
    BY <1>1, <1>2, CacheConsts DEF Pointers, Set
<1>5. \A d \in Entries :
         /\ nx[d] = IF d = e THEN ch.used
                    ELSE IF d = p THEN n ELSE ch.next[d]
         /\ pv[d] = IF d = e THEN NoEntry
                    ELSE IF d = ch.used THEN e
                    ELSE IF d = n THEN p ELSE ch.prev[d]
    BY <1>1, <1>2, CacheConsts DEF Pointers, Set
<1> HIDE DEF nx, pv
<1>6. /\ r.used = e /\ r.free = ch.free /\ r.idx = ch.idx /\ r.data = ch.data
      /\ r.tail = (IF n = NoEntry THEN p ELSE ch.tail)
      /\ r.next = nx /\ r.prev = pv
    BY <1>3 DEF HeaderTypes
<1>7. r \in HeaderTypes
  <2>1. ASSUME NEW b \in Entries \cup {NoEntry},
               NEW c \in Pointers, NEW d \in Pointers
        PROVE  [ch EXCEPT !.tail = b, !.next = c, !.prev = d,
                          !.used = e] \in HeaderTypes
    BY DEF HeaderTypes
  <2>3. PICK b : b = (IF n = NoEntry THEN p ELSE ch.tail)
    OBVIOUS
  <2>4. b \in Entries \cup {NoEntry}
    BY <1>1, <1>2, <2>3
  <2>5. r = [ch EXCEPT !.tail = b, !.next = nx, !.prev = pv, !.used = e]
    BY <1>3, <2>3
  <2>6. [ch EXCEPT !.tail = b, !.next = nx, !.prev = pv,
                   !.used = e] \in HeaderTypes
    BY <1>4, <2>1, <2>4, Zenon
  <2> QED BY <2>5, <2>6
<1> QED BY <1>5, <1>6, <1>7

\* Taking the first entry out and putting it back changes nothing.
LEMMA FrontOut ==
    ASSUME NEW S, NEW s \in Seq(S), 1 \in 1..Len(s)
    PROVE  Front(s[1], Out(s, 1)) = s
<1>1. Len(s) \in Nat /\ Len(s) >= 1 /\ s[1] \in S
    OBVIOUS
<1>2. /\ Out(s, 1) \in Seq(S) /\ Len(Out(s, 1)) = Len(s) - 1
      /\ \A k \in 1..Len(s) - 1 : Out(s, 1)[k] = IF k < 1 THEN s[k] ELSE s[k + 1]
    BY OutIs
<1> DEFINE v == Out(s, 1)
<1>7. v \in Seq(S)
    BY <1>2
<1> HIDE DEF v
<1>3. /\ Front(s[1], v) \in Seq(S) /\ Len(Front(s[1], v)) = Len(v) + 1
      /\ Front(s[1], v)[1] = s[1]
      /\ \A k \in 2..Len(v) + 1 : Front(s[1], v)[k] = v[k - 1]
    BY <1>1, <1>7, FrontIs
<1>4. Len(v) + 1 = Len(s)
    BY <1>1, <1>2 DEF v
<1>5. \A k \in 1..Len(s) : Front(s[1], v)[k] = s[k]
  <2> SUFFICES ASSUME NEW k \in 1..Len(s), k # 1
               PROVE  Front(s[1], v)[k] = s[k]
    BY <1>3
  <2>1. k \in 2..Len(s) /\ k - 1 \in 1..Len(s) - 1 /\ ~(k - 1 < 1)
        /\ (k - 1) + 1 = k
    BY <1>1
  <2> QED BY <1>2, <1>3, <1>4, <2>1 DEF v
<1>6. Front(s[1], v) = s
    BY <1>3, <1>4, <1>5, SeqEqual
<1> QED BY <1>6 DEF v

\* encache moves the entry it finds to the front of the used list.
LEMMA RefreshedOrdered ==
    ASSUME NEW ch \in HeaderTypes, NEW u, NEW f, Ordered(ch, u, f),
           NEW i \in 1..Len(u)
    PROVE  /\ Refreshed(ch, u[i]) \in HeaderTypes
           /\ Ordered(Refreshed(ch, u[i]), Front(u[i], Out(u, i)), f)
           /\ Refreshed(ch, u[i]).used = u[i]
           /\ Refreshed(ch, u[i]).idx = ch.idx
           /\ Refreshed(ch, u[i]).data = ch.data
<1> DEFINE e == u[i]
           r == Refreshed(ch, e)
           p == Place(u, i - 1)
           n == Place(u, i + 1)
           v == Out(u, i)
<1>1. /\ u \in Seq(Entries) /\ f \in Seq(Entries) /\ e \in Entries
      /\ Len(u) \in Nat /\ Len(f) \in Nat /\ Once(u) /\ Once(f)
      /\ Chain(u, ch.used, ch.next) /\ Chain(f, ch.free, ch.next)
      /\ BackChain(u, ch.tail, ch.prev) /\ Shared(u, f)
      /\ ch.used = Place(u, 1)
    BY DEF Ordered, Shared, Chain
<1>2. ch.prev[e] = p /\ ch.next[e] = n
    BY <1>1 DEF Chain, BackChain
<1>3. (p = NoEntry <=> i = 1) /\ (n = NoEntry <=> i = Len(u))
  <2>1. i - 1 \in Int /\ i + 1 \in Int /\ (i - 1 \notin 1..Len(u) <=> i = 1)
        /\ (i + 1 \notin 1..Len(u) <=> i = Len(u))
    BY <1>1
  <2> QED BY <1>1, <2>1, PlaceType
<1>4. CASE i = 1
  <2>1. r = ch
    BY <1>2, <1>3, <1>4 DEF Refreshed
  <2>2. Front(e, v) = u
    BY <1>1, <1>4, FrontOut
  <2>3. ch.used = e
    BY <1>1, <1>4 DEF Place
  <2> QED BY <2>1, <2>2, <2>3
<1>5. CASE i # 1
  <2>1. /\ r \in HeaderTypes
        /\ r.used = e /\ r.free = ch.free /\ r.idx = ch.idx
        /\ r.data = ch.data
        /\ r.tail = (IF n = NoEntry THEN p ELSE ch.tail)
        /\ \A d \in Entries :
              /\ r.next[d] = IF d = e THEN ch.used
                             ELSE IF d = p THEN n ELSE ch.next[d]
              /\ r.prev[d] = IF d = e THEN NoEntry
                             ELSE IF d = ch.used THEN e
                             ELSE IF d = n THEN p ELSE ch.prev[d]
    <3>1. r = Refreshed(ch, e) /\ p # NoEntry
      BY <1>3, <1>5
    <3> HIDE DEF r, e, p, n
    <3> QED BY <1>1, <1>2, <3>1, RefreshedFields
  <2>2. Shared(Front(e, v), f)
    BY <1>1, TopShared
  <2>3. /\ v \in Seq(Entries) /\ Len(v) = Len(u) - 1
        /\ \A k \in 1..Len(u) - 1 : v[k] = IF k < i THEN u[k] ELSE u[k + 1]
    BY <1>1, OutIs
  <2>4. /\ \A x : NotIn(x, v) <=> NotIn(x, u) \/ x = e
        /\ Once(v)
    BY <1>1, NotInOut
  <2>5. \A k \in 1..Len(u) :
           /\ u[k] \in Entries /\ (u[k] = e <=> k = i)
           /\ (u[k] = p <=> k = i - 1) /\ (u[k] = n <=> k = i + 1)
           /\ (u[k] = ch.used <=> k = 1) /\ u[k] # ch.free
    <3>1. i - 1 \in Int /\ i + 1 \in Int /\ i \in Int /\ 1 \in Int
      OBVIOUS
    <3>2. e = Place(u, i) /\ ch.used = Place(u, 1)
      BY <1>1 DEF Place
    <3> QED BY <3>1, <3>2, ListFacts
  <2>6. \A k \in 1..Len(f) : /\ f[k] \in Entries /\ f[k] # e /\ f[k] # p
    <3>1. i - 1 \in Int /\ i \in Int /\ e = Place(u, i)
      BY DEF Place
    <3> QED BY <3>1, ListFacts
  <2>7. /\ \A k \in 1..Len(u) - 1 : v[k] \in Entries /\ v[k] # e
        /\ \A k \in 1..Len(u) - 1 : v[k] = ch.used <=> k = 1
        /\ v # <<>>
    <3>1. \A k \in 1..Len(u) - 1 : k \in 1..Len(u) /\ k + 1 \in 1..Len(u)
      BY <1>1
    <3>2. ASSUME NEW k \in 1..Len(u) - 1
          PROVE  v[k] \in Entries /\ v[k] # e /\ (v[k] = ch.used <=> k = 1)
      <4>1. CASE k < i
        <5>1. v[k] = u[k] /\ k \in 1..Len(u) /\ k # i
          BY <1>5, <2>3, <3>1, <4>1
        <5> QED BY <2>5, <5>1
      <4>2. CASE ~(k < i)
        <5>1. v[k] = u[k + 1] /\ k + 1 \in 1..Len(u) /\ k + 1 # i /\ k + 1 # 1
              /\ k # 1
          BY <1>5, <2>3, <3>1, <4>2
        <5> QED BY <2>5, <5>1
      <4> QED BY <4>1, <4>2
    <3>3. Len(v) >= 1
      BY <1>1, <1>5, <2>3
    <3> QED BY <3>2, <3>3
  <2> DEFINE m == [d \in Entries |-> IF d = n THEN p ELSE ch.prev[d]]
  <2> HIDE DEF e, r, p, n, v
  <2>8. Chain(Front(e, v), r.used, r.next)
    <3>1. LinksOut(u, i, ch.next, r.next)
      BY <2>1, <2>5 DEF LinksOut, n
    <3>2. ch.used = IF i = 1 THEN Place(u, 2) ELSE ch.used
      BY <1>5
    <3>3. Chain(v, ch.used, r.next)
      BY <1>1, <3>1, <3>2, ChainOut DEF v
    <3>4. r.next[e] = ch.used
      BY <1>1, <2>1
    <3>5. LinksKept(v, r.next, r.next)
      BY DEF LinksKept
    <3>6. Chain(Front(e, v), e, r.next)
      BY <1>1, <2>3, <3>3, <3>4, <3>5, ChainFront
    <3> QED BY <2>1, <3>6
  <2>9. Chain(f, r.free, r.next)
    <3>1. \A k \in 1..Len(f) : r.next[f[k]] = ch.next[f[k]]
      BY <2>1, <2>6
    <3> QED BY <1>1, <2>1, <3>1 DEF Chain
  <2>10. BackChain(Front(e, v), r.tail, r.prev)
    <3>1. BackLinksOut(u, i, ch.prev, m)
      BY <2>5 DEF BackLinksOut, p
    <3>2. r.tail = IF i = Len(u) THEN Place(u, i - 1) ELSE ch.tail
      BY <1>3, <2>1 DEF p
    <3>3. BackChain(v, r.tail, m)
      <4> HIDE DEF m
      <4> QED BY <1>1, <3>1, <3>2, BackOut DEF v
    <3>4. BackLinksFront(v, e, m, r.prev)
      BY <2>1, <2>3, <2>7 DEF BackLinksFront
    <3>5. r.prev[e] = NoEntry /\ r.tail = IF v = <<>> THEN e ELSE r.tail
      BY <1>1, <2>1, <2>7
    <3> HIDE DEF m
    <3> QED BY <1>1, <2>3, <3>3, <3>4, <3>5, BackFront
  <2>11. Distinct(r.idx, Front(e, v))
    <3>1. NotIn(e, v)
      BY <2>4
    <3>2. \A d : NotIn(d, Front(e, v)) <=> NotIn(d, v) /\ d # e
      BY <1>1, <2>3, <2>4, <3>1, NotInFront
    <3>3. ~NotIn(e, u)
      BY DEF NotIn, e
    <3> QED BY <2>1, <2>4, <3>2, <3>3 DEF Distinct, Ordered
  <2>12. r.free # NoEntry => r.prev[r.free] = NoEntry
    <3>1. CASE 1 \in 1..Len(f)
      <4>1. r.free = f[1] /\ ch.prev[r.free] = NoEntry /\ f[1] # e /\ f[1] \in Entries
        BY <1>1, <2>1, <2>6, <3>1, CacheConsts DEF Chain, Place, Ordered
      <4>2. f[1] # ch.used /\ f[1] # n
        <5>1. i + 1 \in Int /\ 1 \in Int
          OBVIOUS
        <5> QED BY <1>1, <3>1, <5>1, ListFacts DEF n
      <4> QED BY <2>1, <4>1, <4>2
    <3>2. CASE 1 \notin 1..Len(f)
      BY <1>1, <2>1, <3>2 DEF Chain, Place
    <3> QED BY <3>1, <3>2
  <2>13. Ordered(r, Front(e, v), f)
    BY <2>2, <2>8, <2>9, <2>10, <2>11, <2>12 DEF Ordered
  <2> QED BY <2>1, <2>13 DEF e, r, v
<1> QED BY <1>4, <1>5

\* The lists the code walks are the sequences of the invariant.
LEMMA UsedIs ==
    ASSUME NEW ch, NEW u, NEW f, Ordered(ch, u, f)
    PROVE  /\ Used(ch) = u /\ ListFrom(ch.free, ch.next) = f
           /\ u \in Seq(Entries)
<1>1. /\ u \in Seq(Entries) /\ f \in Seq(Entries)
      /\ Len(u) \in Nat /\ Len(f) \in Nat /\ Len(u) + Len(f) = c_link
      /\ Chain(u, ch.used, ch.next) /\ Chain(f, ch.free, ch.next)
    BY DEF Ordered, Shared
<1>2. Len(u) <= c_link /\ Len(f) <= c_link
    BY <1>1
<1> QED BY <1>1, <1>2, ListIs DEF Used

\* lookup_cache finds the entry with the block's number if there is one.
LEMMA LookupIs ==
    ASSUME NEW ch, NEW u, NEW f, Ordered(ch, u, f), NEW x
    PROVE  \/ /\ Lookup(ch, x) = NoEntry
              /\ \A k \in 1..Len(u) : ch.idx[u[k]] # x
           \/ \E i \in 1..Len(u) : /\ ch.idx[u[i]] = x
                                   /\ Lookup(ch, x) = u[i]
<1> DEFINE found == {k \in 1..Len(u) : ch.idx[u[k]] = x}
<1>1. u \in Seq(Entries) /\ Len(u) \in Nat /\ Once(u)
    BY DEF Ordered, Shared
<1>2. Lookup(ch, x) = IF found = {} THEN NoEntry
                      ELSE u[CHOOSE k \in found : \A j \in found : k <= j]
  <2>1. Used(ch) = u /\ DOMAIN u = 1..Len(u)
    BY <1>1, UsedIs
  <2> QED BY <2>1 DEF Lookup
<1>3. CASE found = {}
    BY <1>2, <1>3
<1>4. ASSUME NEW i \in found
      PROVE  \E j \in 1..Len(u) : ch.idx[u[j]] = x /\ Lookup(ch, x) = u[j]
  <2>1. \A k \in found : k = i
    <3> SUFFICES ASSUME NEW k \in found PROVE k = i
      OBVIOUS
    <3>1. u[k] \in Entries /\ u[i] \in Entries /\ ch.idx[u[k]] = ch.idx[u[i]]
      BY <1>1
    <3>2. ~NotIn(u[k], u) /\ ~NotIn(u[i], u)
      BY DEF NotIn
    <3>3. u[k] = u[i]
      BY <3>1, <3>2 DEF Ordered, Distinct
    <3> QED BY <1>1, <3>3 DEF Once
  <2>2. i <= i
    BY <1>1
  <2> HIDE DEF found
  <2>3. (CHOOSE k \in found : \A j \in found : k <= j) = i
    BY <2>1, <2>2, <1>4
  <2>4. Lookup(ch, x) = u[i]
    BY <1>2, <1>4, <2>3
  <2> QED BY <2>4 DEF found
<1> QED BY <1>3, <1>4

\* What a bucket holds, the block stored last first.
View(ch, u) == [k \in 1..Len(u) |-> [block |-> ch.idx[u[k]],
                                     content |-> ch.data[u[k]]]]

\* What a bucket holds after an entry was taken out.
LEMMA ViewOut ==
    ASSUME NEW ch, NEW r, r.idx = ch.idx, r.data = ch.data,
           NEW u \in Seq(Entries), NEW i \in 1..Len(u)
    PROVE  View(r, Out(u, i)) = Out(View(ch, u), i)
<1>1. /\ Len(u) \in Nat /\ Len(Out(u, i)) = Len(u) - 1
      /\ \A k \in 1..Len(u) - 1 :
            Out(u, i)[k] = IF k < i THEN u[k] ELSE u[k + 1]
  <2>1. /\ Len(Out(u, i)) = Len(u) - 1
        /\ \A k \in 1..Len(u) - 1 :
              Out(u, i)[k] = IF k < i THEN u[k] ELSE u[k + 1]
    BY OutIs, Zenon
  <2>2. Len(u) \in Nat
    OBVIOUS
  <2> QED BY <2>1, <2>2
<1>2. Len(View(ch, u)) = Len(u)
    BY <1>1 DEF View
<1>3. \A k \in 1..Len(u) - 1 : k \in 1..Len(u) /\ k + 1 \in 1..Len(u)
    BY <1>1
<1>4. \A k \in 1..Len(u) - 1 :
         [block |-> r.idx[Out(u, i)[k]], content |-> r.data[Out(u, i)[k]]]
             = IF k < i THEN View(ch, u)[k] ELSE View(ch, u)[k + 1]
    BY <1>1, <1>3 DEF View
<1>5. View(r, Out(u, i)) =
         [k \in 1..Len(u) - 1 |-> [block |-> r.idx[Out(u, i)[k]],
                                   content |-> r.data[Out(u, i)[k]]]]
    BY <1>1 DEF View
<1>6. Out(View(ch, u), i) =
         [k \in 1..Len(u) - 1 |-> IF k < i THEN View(ch, u)[k]
                                  ELSE View(ch, u)[k + 1]]
    BY <1>2 DEF Out
<1> QED BY <1>4, <1>5, <1>6

\* The entries of u hold in r what they hold in ch.
SameOn(r, ch, u) == \A k \in 1..Len(u) : /\ r.idx[u[k]] = ch.idx[u[k]]
                                         /\ r.data[u[k]] = ch.data[u[k]]

\* What a bucket holds after an entry was put in front.
LEMMA ViewFront ==
    ASSUME NEW ch, NEW r, NEW u \in Seq(Entries), NEW e, NEW x, NEW c,
           r.idx[e] = x, r.data[e] = c, SameOn(r, ch, u)
    PROVE  View(r, Front(e, u)) = Front([block |-> x, content |-> c], View(ch, u))
<1>1. Len(u) \in Nat
    OBVIOUS
<1>2. /\ Len(Front(e, u)) = Len(u) + 1 /\ Front(e, u)[1] = e
      /\ \A k \in 2..Len(u) + 1 : Front(e, u)[k] = u[k - 1]
    BY <1>1, FrontIs
<1>3. Len(View(ch, u)) = Len(u)
    BY <1>1 DEF View
<1> DEFINE it == [block |-> x, content |-> c]
<1>4. \A k \in 1..Len(u) + 1 :
         [block |-> r.idx[Front(e, u)[k]], content |-> r.data[Front(e, u)[k]]]
             = IF k = 1 THEN it ELSE View(ch, u)[k - 1]
  <2> SUFFICES ASSUME NEW k \in 1..Len(u) + 1, k # 1
               PROVE  /\ r.idx[Front(e, u)[k]] = View(ch, u)[k - 1].block
                      /\ r.data[Front(e, u)[k]] = View(ch, u)[k - 1].content
                      /\ View(ch, u)[k - 1] =
                            [block |-> View(ch, u)[k - 1].block,
                             content |-> View(ch, u)[k - 1].content]
    BY <1>2
  <2>1. k \in 2..Len(u) + 1 /\ k - 1 \in 1..Len(u)
    BY <1>1
  <2> QED BY <1>2, <2>1 DEF View, SameOn
<1>5. View(r, Front(e, u)) =
         [k \in 1..Len(u) + 1 |-> [block |-> r.idx[Front(e, u)[k]],
                                   content |-> r.data[Front(e, u)[k]]]]
    BY <1>2 DEF View
<1>6. Front(it, View(ch, u)) =
         [k \in 1..Len(u) + 1 |-> IF k = 1 THEN it ELSE View(ch, u)[k - 1]]
    BY <1>3 DEF Front
<1> HIDE DEF it
<1>7. View(r, Front(e, u)) = Front(it, View(ch, u))
    BY <1>4, <1>5, <1>6
<1> QED BY <1>7 DEF it

\* The bucket with c in its entry e.
Stored(ch, e, c) == [ch EXCEPT !.data[e] = c]

\* What the entry used first holds is what was stored.
LEMMA StoredOrdered ==
    ASSUME NEW ch \in HeaderTypes, NEW u, NEW f, Ordered(ch, u, f),
           NEW e \in Entries, NEW c \in Contents
    PROVE  /\ Stored(ch, e, c) \in HeaderTypes
           /\ Ordered(Stored(ch, e, c), u, f)
           /\ Stored(ch, e, c).idx = ch.idx
           /\ Stored(ch, e, c).data = [ch.data EXCEPT ![e] = c]
<1> DEFINE r == Stored(ch, e, c)
<1>1. /\ r.used = ch.used /\ r.tail = ch.tail /\ r.free = ch.free
      /\ r.idx = ch.idx /\ r.next = ch.next /\ r.prev = ch.prev
      /\ r.data = [ch.data EXCEPT ![e] = c]
    BY DEF HeaderTypes, Stored
<1>2. r \in HeaderTypes
    BY DEF HeaderTypes, Stored
<1> HIDE DEF r
<1>3. Ordered(r, u, f)
    BY <1>1 DEF Ordered
<1> QED BY <1>1, <1>2, <1>3 DEF r

\* encache stores a block in front: of what the bucket holds but for the block
\* itself, or for the block stored longest ago if the bucket is full.
LEMMA EncachedIs ==
    ASSUME NEW ch \in HeaderTypes, NEW u, NEW f, Ordered(ch, u, f),
           NEW x \in Nat, NEW c \in Contents
    PROVE  LET r == Encached(ch, x, c)
               it == [block |-> x, content |-> c]
               v == View(ch, u)
           IN /\ r \in HeaderTypes
              /\ \E u1, f1 :
                    /\ Ordered(r, u1, f1)
                    /\ \/ \E i \in 1..Len(u) :
                             /\ ch.idx[u[i]] = x
                             /\ View(r, u1) = Front(it, Out(v, i))
                       \/ /\ \A k \in 1..Len(u) : ch.idx[u[k]] # x
                          /\ \/ Len(u) < c_link /\ View(r, u1) = Front(it, v)
                             \/ /\ Len(u) = c_link
                                /\ View(r, u1) = Front(it, Out(v, c_link))
<1> DEFINE r == Encached(ch, x, c)
           it == [block |-> x, content |-> c]
           v == View(ch, u)
<1>1. /\ u \in Seq(Entries) /\ f \in Seq(Entries)
      /\ Len(u) \in Nat /\ Len(f) \in Nat /\ Len(u) + Len(f) = c_link
      /\ \A k \in 1..Len(u) : u[k] \in Entries
      /\ ch.free = Place(f, 1)
    BY ListFacts
<1>2. ch.idx \in [Entries -> Nat] /\ ch.data \in [Entries -> Contents]
    BY DEF HeaderTypes
<1>3. CASE \E i \in 1..Len(u) : ch.idx[u[i]] = x /\ Lookup(ch, x) = u[i]
  <2>1. PICK i \in 1..Len(u) : ch.idx[u[i]] = x /\ Lookup(ch, x) = u[i]
    BY <1>3
  <2>2. PICK e \in Entries : e = u[i]
    BY <1>1
  <2>3. PICK new : new = Refreshed(ch, e)
    OBVIOUS
  <2>4. PICK u1 : u1 = Front(e, Out(u, i))
    OBVIOUS
  <2>5. /\ new \in HeaderTypes /\ Ordered(new, u1, f) /\ new.used = e
        /\ new.idx = ch.idx /\ new.data = ch.data
    BY <2>2, <2>3, <2>4, RefreshedOrdered
  <2>6. r = Stored(new, e, c)
    BY <2>1, <2>2, <2>3, <2>5, CacheConsts DEF Encached, Stored
  <2>7. /\ r \in HeaderTypes /\ Ordered(r, u1, f) /\ r.idx = ch.idx
        /\ r.data = [ch.data EXCEPT ![e] = c]
    <3> HIDE DEF r
    <3> QED BY <2>5, <2>6, StoredOrdered
  <2> HIDE DEF r
  <2>8. View(r, u1) = Front(it, Out(v, i))
    <3>1. Out(u, i) \in Seq(Entries)
      BY <1>1, OutIs
    <3>2. \A k \in 1..Len(Out(u, i)) :
             Out(u, i)[k] # e /\ Out(u, i)[k] \in Entries
      <4>1. Once(u)
        BY DEF Ordered, Shared
      <4>2. NotIn(e, Out(u, i))
        BY <1>1, <2>2, <4>1, NotInOut
      <4> QED BY <3>1, <4>2 DEF NotIn
    <3>3. r.idx[e] = x /\ r.data[e] = c
      BY <1>2, <2>1, <2>2, <2>7
    <3>4. SameOn(r, ch, Out(u, i))
      BY <1>2, <2>7, <3>2 DEF SameOn
    <3>5. View(r, u1) = Front(it, View(ch, Out(u, i)))
      BY <2>4, <3>1, <3>3, <3>4, ViewFront
    <3>6. View(ch, Out(u, i)) = Out(v, i)
      BY <1>1, ViewOut
    <3> QED BY <3>5, <3>6
  <2> QED BY <2>1, <2>7, <2>8 DEF r
<1>4. ASSUME Lookup(ch, x) = NoEntry, \A k \in 1..Len(u) : ch.idx[u[k]] # x,
             NEW room \in HeaderTypes, NEW u0, NEW f0, Ordered(room, u0, f0),
             room.free # NoEntry, room.idx = ch.idx, room.data = ch.data,
             room = (IF ch.free = NoEntry THEN Removed(ch, ch.tail) ELSE ch),
             \A k \in 1..Len(u0) : ch.idx[u0[k]] # x
      PROVE  /\ r \in HeaderTypes
             /\ \E u1, f1 : /\ Ordered(r, u1, f1)
                            /\ View(r, u1) = Front(it, View(ch, u0))
  <2>0. Fresh(room.idx, u0, x)
    BY <1>4 DEF Fresh
  <2>1. PICK new, e, u1, f1 :
            /\ new = Inserted(room, x) /\ e = f0[1]
            /\ u1 = Front(e, u0) /\ f1 = Out(f0, 1)
    OBVIOUS
  <2>2. /\ new \in HeaderTypes /\ Ordered(new, u1, f1) /\ new.used = e
        /\ 1 \in 1..Len(f0)
        /\ new.idx = [ch.idx EXCEPT ![e] = x] /\ new.data = ch.data
    BY <1>4, <2>0, <2>1, InsertedOrdered
  <2>3. u0 \in Seq(Entries) /\ f0 \in Seq(Entries) /\ e \in Entries
    BY <1>4, <2>1, <2>2 DEF Ordered, Shared
  <2>4. r = Stored(new, e, c)
    BY <1>4, <2>1, <2>2 DEF Encached, Stored
  <2>5. /\ r \in HeaderTypes /\ Ordered(r, u1, f1) /\ r.idx = new.idx
        /\ r.data = [ch.data EXCEPT ![e] = c]
    <3> HIDE DEF r
    <3> QED BY <2>2, <2>3, <2>4, StoredOrdered
  <2> HIDE DEF r
  <2>6. View(r, u1) = Front(it, View(ch, u0))
    <3>1. \A k \in 1..Len(u0) : u0[k] # e /\ u0[k] \in Entries
      <4>1. 1 \in Int /\ e = Place(f0, 1)
        BY <2>1, <2>2 DEF Place
      <4> QED BY <1>4, <4>1, ListFacts
    <3>2. r.idx[e] = x /\ r.data[e] = c
      BY <1>2, <2>2, <2>3, <2>5
    <3>3. SameOn(r, ch, u0)
      BY <1>2, <2>2, <2>5, <3>1 DEF SameOn
    <3> QED BY <2>1, <2>3, <3>2, <3>3, ViewFront
  <2> QED BY <2>5, <2>6
<1>5. CASE /\ Lookup(ch, x) = NoEntry /\ \A k \in 1..Len(u) : ch.idx[u[k]] # x
           /\ ch.free # NoEntry
  <2>1. /\ r \in HeaderTypes
        /\ \E u1, f1 : Ordered(r, u1, f1) /\ View(r, u1) = Front(it, v)
    BY <1>4, <1>5
  <2>2. Len(u) < c_link
    BY <1>1, <1>5 DEF Place
  <2> HIDE DEF r, it, v
  <2> QED BY <1>5, <2>1, <2>2 DEF r, it, v
<1>6. CASE /\ Lookup(ch, x) = NoEntry /\ \A k \in 1..Len(u) : ch.idx[u[k]] # x
           /\ ch.free = NoEntry
  <2>1. Len(f) = 0 /\ Len(u) = c_link /\ c_link \in 1..Len(u)
    <3>1. 1 \notin 1..Len(f)
      BY <1>1, <1>6, PlaceType
    <3> QED BY <1>1, <3>1, CacheConsts
  <2>2. PICK e, room, u0, f0 :
           /\ e = u[c_link] /\ room = Removed(ch, e)
           /\ u0 = Out(u, c_link) /\ f0 = Front(e, f)
    OBVIOUS
  <2>3. ch.tail = e
    BY <1>1, <2>1, <2>2 DEF Ordered, BackChain, Place
  <2>4. /\ room \in HeaderTypes /\ Ordered(room, u0, f0) /\ room.free = e
        /\ room.idx = ch.idx /\ room.data = ch.data
    BY <2>1, <2>2, RemovedOrdered
  <2>5. e # NoEntry
    BY <1>1, <2>1, <2>2, CacheConsts
  <2>6. \A k \in 1..Len(u0) : ch.idx[u0[k]] # x
    <3>1. /\ Len(u0) = Len(u) - 1
          /\ \A k \in 1..Len(u) - 1 :
                u0[k] = IF k < c_link THEN u[k] ELSE u[k + 1]
      BY <1>1, <2>1, <2>2, OutIs
    <3>2. \A k \in 1..Len(u) - 1 : k \in 1..Len(u) /\ k < c_link
      BY <1>1, <2>1
    <3> QED BY <1>6, <3>1, <3>2
  <2>7. room = (IF ch.free = NoEntry THEN Removed(ch, ch.tail) ELSE ch)
    BY <1>6, <2>2, <2>3
  <2>8. /\ r \in HeaderTypes
        /\ \E u1, f1 : Ordered(r, u1, f1) /\ View(r, u1) = Front(it, View(ch, u0))
    BY <1>4, <1>6, <2>4, <2>5, <2>6, <2>7
  <2>9. View(ch, u0) = Out(v, c_link)
    BY <1>1, <2>1, <2>2, ViewOut
  <2> HIDE DEF r, it, v
  <2> QED BY <1>6, <2>1, <2>8, <2>9 DEF r, it, v
<1> QED BY <1>3, <1>5, <1>6, LookupIs

\* decache takes the block out of what the bucket holds.
LEMMA DecachedIs ==
    ASSUME NEW ch \in HeaderTypes, NEW u, NEW f, Ordered(ch, u, f),
           NEW x \in Nat
    PROVE  /\ Decached(ch, x) \in HeaderTypes
           /\ \E u1, f1 :
                 /\ Ordered(Decached(ch, x), u1, f1)
                 /\ \/ \E i \in 1..Len(u) :
                          /\ ch.idx[u[i]] = x
                          /\ View(Decached(ch, x), u1) = Out(View(ch, u), i)
                    \/ /\ Fresh(ch.idx, u, x)
                       /\ View(Decached(ch, x), u1) = View(ch, u)
<1> DEFINE r == Decached(ch, x)
<1>1. /\ u \in Seq(Entries) /\ Len(u) \in Nat
      /\ \A k \in 1..Len(u) : u[k] \in Entries
    BY ListFacts
<1>2. CASE Lookup(ch, x) = NoEntry /\ \A k \in 1..Len(u) : ch.idx[u[k]] # x
    BY <1>2 DEF Decached, Fresh
<1>3. CASE \E i \in 1..Len(u) : ch.idx[u[i]] = x /\ Lookup(ch, x) = u[i]
  <2>1. PICK i \in 1..Len(u) : ch.idx[u[i]] = x /\ Lookup(ch, x) = u[i]
    BY <1>3
  <2>2. r = Removed(ch, u[i])
    BY <1>1, <2>1, CacheConsts DEF Decached
  <2>3. /\ r \in HeaderTypes /\ Ordered(r, Out(u, i), Front(u[i], f))
        /\ r.idx = ch.idx /\ r.data = ch.data
    <3> HIDE DEF r
    <3> QED BY <2>2, RemovedOrdered
  <2>4. View(r, Out(u, i)) = Out(View(ch, u), i)
    <3> HIDE DEF r
    <3> QED BY <1>1, <2>3, ViewOut
  <2> QED BY <2>1, <2>3, <2>4
<1> QED BY <1>2, <1>3, LookupIs

\* Concatenation as a function of the place.
Placed(a, b) == [k \in 1..Len(a) + Len(b) |->
                    IF k <= Len(a) THEN a[k] ELSE b[k - Len(a)]]

\* Concatenation is that function.
LEMMA ConcatDef ==
    ASSUME NEW S, NEW a \in Seq(S), NEW b \in Seq(S)
    PROVE  a \o b = Placed(a, b)
<1>1. PICK w : w = a \o b
    OBVIOUS
<1>2. /\ w \in Seq(S) /\ Len(w) = Len(a) + Len(b)
      /\ \A k \in 1..Len(a) + Len(b) :
            w[k] = IF k <= Len(a) THEN a[k] ELSE b[k - Len(a)]
    BY <1>1, ConcatProperties
<1>3. w = [k \in 1..Len(a) + Len(b) |-> w[k]]
    BY <1>2
<1> QED BY <1>1, <1>2, <1>3 DEF Placed

\* Taking place i out, written as what is before it and what is after.
LEMMA OutIsSplit ==
    ASSUME NEW S, NEW s \in Seq(S), NEW i \in 1..Len(s)
    PROVE  SubSeq(s, 1, i - 1) \o SubSeq(s, i + 1, Len(s)) = Out(s, i)
<1>1. Len(s) \in Nat /\ \A k \in 1..Len(s) : s[k] \in S
    OBVIOUS
<1>2. PICK a, b : a = SubSeq(s, 1, i - 1) /\ b = SubSeq(s, i + 1, Len(s))
    OBVIOUS
<1>3. /\ a \in Seq(S) /\ Len(a) = i - 1
      /\ \A k \in 1..i - 1 : a[k] = s[k]
    BY <1>1, <1>2
<1>4. /\ b \in Seq(S) /\ Len(b) = Len(s) - i
      /\ \A k \in 1..Len(s) - i : b[k] = s[i + k]
    BY <1>1, <1>2
<1>5. a \o b = [k \in 1..Len(a) + Len(b) |->
                    IF k <= Len(a) THEN a[k] ELSE b[k - Len(a)]]
  <2>1. a \in Seq(S) /\ b \in Seq(S)
    BY <1>3, <1>4
  <2>2. a \o b = Placed(a, b)
    BY <2>1, ConcatDef, Zenon
  <2> QED BY <2>2 DEF Placed
<1>6. Len(a) + Len(b) = Len(s) - 1
    BY <1>1, <1>3, <1>4
<1>7. \A k \in 1..Len(s) - 1 :
         (IF k <= Len(a) THEN a[k] ELSE b[k - Len(a)])
             = IF k < i THEN s[k] ELSE s[k + 1]
  <2> SUFFICES ASSUME NEW k \in 1..Len(s) - 1
               PROVE  (IF k <= Len(a) THEN a[k] ELSE b[k - Len(a)])
                          = IF k < i THEN s[k] ELSE s[k + 1]
    OBVIOUS
  <2>1. CASE k < i
    BY <1>1, <1>3, <2>1
  <2>2. CASE k >= i
    <3>1. k - (i - 1) \in 1..Len(s) - i /\ i + (k - (i - 1)) = k + 1
      BY <1>1, <2>2
    <3>2. b[k - (i - 1)] = s[k + 1]
      BY <1>4, <3>1
    <3> QED BY <1>1, <1>3, <2>2, <3>2
  <2> QED BY <1>1, <2>1, <2>2
<1> QED BY <1>2, <1>5, <1>6, <1>7 DEF Out

\* Putting in front, written as a concatenation.
LEMMA FrontIsConcat ==
    ASSUME NEW S, NEW s \in Seq(S), NEW e \in S
    PROVE  <<e>> \o s = Front(e, s)
BY DEF Front

\* The room is the first so many.
LEMMA FrontFirst ==
    ASSUME NEW S, NEW s \in Seq(S), NEW e \in S, NEW n \in Nat \ {0}, Len(s) = n
    PROVE  SubSeq(Front(e, s), 1, n) = Front(e, Out(s, n))
<1>1. n \in 1..Len(s) /\ Len(s) \in Nat
    OBVIOUS
<1>2. PICK t : t = Front(e, s)
    OBVIOUS
<1>3. /\ t \in Seq(S) /\ Len(t) = n + 1 /\ t[1] = e
      /\ \A k \in 2..n + 1 : t[k] = s[k - 1]
    BY <1>1, <1>2, FrontIs
<1>4. SubSeq(t, 1, n) = [k \in 1..n |-> t[k]]
    BY <1>3
<1>5. PICK o : o = Out(s, n)
    OBVIOUS
<1>6. o \in Seq(S) /\ Len(o) = n - 1 /\ \A k \in 1..n - 1 : o[k] = s[k]
  <2>1. \A k \in 1..n - 1 : k < n
    OBVIOUS
  <2>2. /\ o \in Seq(S) /\ Len(o) = Len(s) - 1
        /\ \A k \in 1..Len(s) - 1 : o[k] = IF k < n THEN s[k] ELSE s[k + 1]
    BY <1>1, <1>5, OutIs, Zenon
  <2> QED BY <2>1, <2>2
<1>7. Front(e, o) = [k \in 1..n |-> IF k = 1 THEN e ELSE o[k - 1]]
  <2>1. Len(o) + 1 = n
    BY <1>6
  <2> QED BY <2>1 DEF Front
<1>8. \A k \in 1..n : t[k] = IF k = 1 THEN e ELSE o[k - 1]
    BY <1>3, <1>6
<1> QED BY <1>2, <1>4, <1>5, <1>7, <1>8

-----------------------------------------------------------------------------
(* The bucket as the abstract cache sees it.                               *)

Stores == [block : Nat, content : Contents]

\* What a bucket holds is a sequence of blocks with contents.
LEMMA ViewType ==
    ASSUME NEW ch \in HeaderTypes, NEW u \in Seq(Entries)
    PROVE  /\ View(ch, u) \in Seq(Stores) /\ Len(View(ch, u)) = Len(u)
           /\ \A k \in 1..Len(u) : View(ch, u)[k].block = ch.idx[u[k]]
<1>1. Len(u) \in Nat /\ \A k \in 1..Len(u) : u[k] \in Entries
    OBVIOUS
<1>2. ch.idx \in [Entries -> Nat] /\ ch.data \in [Entries -> Contents]
    BY DEF HeaderTypes
<1>3. \A k \in 1..Len(u) :
         [block |-> ch.idx[u[k]], content |-> ch.data[u[k]]] \in Stores
    BY <1>1, <1>2 DEF Stores
<1> QED BY <1>1, <1>3 DEF View

\* Without, when the block is there and when it is not.
LEMMA WithoutIs ==
    ASSUME NEW ch \in HeaderTypes, NEW u, NEW f, Ordered(ch, u, f), NEW x \in Nat
    PROVE  /\ Fresh(ch.idx, u, x) =>
                 TheLru!Without(View(ch, u), x) = View(ch, u)
           /\ \A i \in 1..Len(u) : ch.idx[u[i]] = x =>
                 TheLru!Without(View(ch, u), x) = Out(View(ch, u), i)
<1>1. u \in Seq(Entries) /\ Len(u) \in Nat /\ Once(u)
    BY DEF Ordered, Shared
<1>2. PICK v : v = View(ch, u)
    OBVIOUS
<1>3. /\ v \in Seq(Stores) /\ Len(v) = Len(u)
      /\ \A k \in 1..Len(u) : v[k].block = ch.idx[u[k]]
    BY <1>1, <1>2, ViewType
<1>4. ASSUME Fresh(ch.idx, u, x) PROVE TheLru!Without(v, x) = v
    BY <1>3, <1>4 DEF TheLru!Without, Fresh
<1>5. ASSUME NEW i \in 1..Len(u), ch.idx[u[i]] = x
      PROVE  TheLru!Without(v, x) = Out(v, i)
  <2>1. \A k \in 1..Len(v) : v[k].block = x => k = i
    <3> SUFFICES ASSUME NEW k \in 1..Len(u), ch.idx[u[k]] = x PROVE k = i
      BY <1>3
    <3>1. u[k] \in Entries /\ u[i] \in Entries
      BY <1>1
    <3>2. ~NotIn(u[k], u) /\ ~NotIn(u[i], u)
      BY DEF NotIn
    <3>3. u[k] = u[i]
      BY <1>5, <3>1, <3>2 DEF Ordered, Distinct
    <3> QED BY <1>1, <3>3 DEF Once
  <2>2. i \in 1..Len(v) /\ v[i].block = x
    BY <1>3, <1>5
  <2>3. (CHOOSE k \in 1..Len(v) : v[k].block = x) = i
    BY <2>1, <2>2
  <2>4. TheLru!Without(v, x) =
            SubSeq(v, 1, i - 1) \o SubSeq(v, i + 1, Len(v))
    BY <2>2, <2>3, Zenon DEF TheLru!Without
  <2> QED BY <1>3, <2>2, <2>4, OutIsSplit
<1> QED BY <1>2, <1>4, <1>5

\* encache does to what the bucket holds what Store does.
LEMMA StoreIs ==
    ASSUME NEW ch \in HeaderTypes, NEW u, NEW f, Ordered(ch, u, f),
           NEW x \in Nat, NEW c \in Contents
    PROVE  /\ Encached(ch, x, c) \in HeaderTypes
           /\ \E u1, f1 :
                 /\ Ordered(Encached(ch, x, c), u1, f1)
                 /\ View(Encached(ch, x, c), u1) =
                       TheLru!FirstOf(<<[block |-> x, content |-> c]>>
                                        \o TheLru!Without(View(ch, u), x))
<1>1. u \in Seq(Entries) /\ Len(u) \in Nat /\ Len(u) <= c_link
  <2>1. /\ u \in Seq(Entries) /\ Len(u) \in Nat /\ Len(f) \in Nat
        /\ Len(u) + Len(f) = c_link
    BY ListFacts
  <2> QED BY <2>1, CacheConsts
<1>2. PICK v, it : v = View(ch, u) /\ it = [block |-> x, content |-> c]
    OBVIOUS
<1>3. v \in Seq(Stores) /\ Len(v) = Len(u) /\ it \in Stores
    BY <1>1, <1>2, ViewType DEF Stores
<1>4. ASSUME NEW s \in Seq(Stores)
      PROVE  <<it>> \o s = Front(it, s) /\ Len(Front(it, s)) = Len(s) + 1
             /\ Len(s) \in Nat
  <2>1. Len(s) \in Nat
    OBVIOUS
  <2> QED BY <1>3, <2>1, FrontIsConcat, FrontIs
<1>5. PICK r : r = Encached(ch, x, c)
    OBVIOUS
<1>6. /\ r \in HeaderTypes
      /\ \E u1, f1 :
            /\ Ordered(r, u1, f1)
            /\ \/ \E i \in 1..Len(u) :
                     /\ ch.idx[u[i]] = x
                     /\ View(r, u1) = Front(it, Out(v, i))
               \/ /\ \A k \in 1..Len(u) : ch.idx[u[k]] # x
                  /\ \/ Len(u) < c_link /\ View(r, u1) = Front(it, v)
                     \/ /\ Len(u) = c_link
                        /\ View(r, u1) = Front(it, Out(v, c_link))
  <2>1. LET rr == Encached(ch, x, c)
            ii == [block |-> x, content |-> c]
            vv == View(ch, u)
        IN /\ rr \in HeaderTypes
           /\ \E u1, f1 :
                 /\ Ordered(rr, u1, f1)
                 /\ \/ \E i \in 1..Len(u) :
                          /\ ch.idx[u[i]] = x
                          /\ View(rr, u1) = Front(ii, Out(vv, i))
                    \/ /\ \A k \in 1..Len(u) : ch.idx[u[k]] # x
                       /\ \/ Len(u) < c_link /\ View(rr, u1) = Front(ii, vv)
                          \/ /\ Len(u) = c_link
                             /\ View(rr, u1) = Front(ii, Out(vv, c_link))
    BY EncachedIs, Zenon
  <2> QED BY <1>2, <1>5, <2>1
<1>7. PICK u1, f1 :
            /\ Ordered(r, u1, f1)
            /\ \/ \E i \in 1..Len(u) :
                     /\ ch.idx[u[i]] = x
                     /\ View(r, u1) = Front(it, Out(v, i))
               \/ /\ \A k \in 1..Len(u) : ch.idx[u[k]] # x
                  /\ \/ Len(u) < c_link /\ View(r, u1) = Front(it, v)
                     \/ /\ Len(u) = c_link
                        /\ View(r, u1) = Front(it, Out(v, c_link))
    BY <1>6
<1>8. View(r, u1) = TheLru!FirstOf(<<it>> \o TheLru!Without(v, x))
  <2>1. ASSUME NEW i \in 1..Len(u), ch.idx[u[i]] = x,
               View(r, u1) = Front(it, Out(v, i))
        PROVE  View(r, u1) = TheLru!FirstOf(<<it>> \o TheLru!Without(v, x))
    <3>1. TheLru!Without(v, x) = Out(v, i)
      BY <1>2, <2>1, WithoutIs
    <3>2. Out(v, i) \in Seq(Stores) /\ Len(Out(v, i)) = Len(u) - 1
      BY <1>3, OutIs
    <3>3. /\ <<it>> \o Out(v, i) = Front(it, Out(v, i))
          /\ Len(Front(it, Out(v, i))) <= c_link
      BY <1>1, <1>4, <3>2
    <3> QED BY <2>1, <3>1, <3>3 DEF TheLru!FirstOf
  <2>2. ASSUME \A k \in 1..Len(u) : ch.idx[u[k]] # x
        PROVE  TheLru!Without(v, x) = v
    BY <1>2, <2>2, WithoutIs DEF Fresh
  <2>3. CASE /\ \A k \in 1..Len(u) : ch.idx[u[k]] # x
             /\ Len(u) < c_link /\ View(r, u1) = Front(it, v)
    <3>1. <<it>> \o v = Front(it, v) /\ Len(Front(it, v)) <= c_link
      BY <1>1, <1>3, <1>4, <2>3, CacheConsts
    <3> QED BY <2>2, <2>3, <3>1 DEF TheLru!FirstOf
  <2>4. CASE /\ \A k \in 1..Len(u) : ch.idx[u[k]] # x
             /\ Len(u) = c_link /\ View(r, u1) = Front(it, Out(v, c_link))
    <3>1. <<it>> \o v = Front(it, v) /\ ~(Len(Front(it, v)) <= c_link)
      BY <1>1, <1>3, <1>4, <2>4, CacheConsts
    <3>2. SubSeq(Front(it, v), 1, c_link) = Front(it, Out(v, c_link))
      BY <1>3, <2>4, CacheConsts, FrontFirst
    <3> QED BY <2>2, <2>4, <3>1, <3>2 DEF TheLru!FirstOf
  <2> QED BY <1>7, <2>1, <2>3, <2>4
<1> QED BY <1>2, <1>5, <1>6, <1>7, <1>8

\* Every block belongs to a bucket.
LEMMA HeaderOfIs == \A x \in Blocks : x \in Nat /\ HeaderOf(x) \in Headers
<1> SUFFICES ASSUME NEW x \in Blocks PROVE x \in Nat /\ x % c_ncache \in 0..c_ncache - 1
    BY DEF HeaderOf, Headers
<1>1. x \in Nat /\ c_ncache \in Nat /\ c_ncache > 0
    BY BlockCacheAssumption, CacheConsts
<1> QED BY <1>1

\* At first all entries are free, in the order of their numbers.
LEMMA CacheStarts == CacheInit => CacheInv
<1> SUFFICES ASSUME CacheInit PROVE CacheInv
    OBVIOUS
<1> DEFINE ch == [used |-> NoEntry, tail |-> NoEntry, free |-> 1,
                  idx  |-> [e \in Entries |-> 0],
                  data |-> [e \in Entries |-> CHOOSE c \in Contents : TRUE],
                  next |-> [e \in Entries |-> IF e = c_link THEN NoEntry
                                              ELSE e + 1],
                  prev |-> [e \in Entries |-> e - 1]]
           f == [k \in 1..c_link |-> k]
<1>1. cache = [h \in Headers |-> ch]
    BY DEF CacheInit
<1>2. ch \in HeaderTypes
  <2>1. (CHOOSE c \in Contents : TRUE) \in Contents
    BY BlockCacheAssumption
  <2>2. [e \in Entries |-> IF e = c_link THEN NoEntry ELSE e + 1] \in Pointers
    BY CacheConsts DEF Entries, NoEntry, Pointers
  <2>3. [e \in Entries |-> e - 1] \in Pointers
    BY CacheConsts DEF Entries, NoEntry, Pointers
  <2>4. 1 \in Entries /\ 0 \in Nat
    BY CacheConsts DEF Entries
  <2> QED BY <2>1, <2>2, <2>3, <2>4 DEF HeaderTypes
<1>3. /\ f \in Seq(Entries) /\ Len(f) = c_link
      /\ \A k \in 1..c_link : f[k] = k
    BY CacheConsts DEF Entries
<1>4. /\ <<>> \in Seq(Entries) /\ Len(<<>>) = 0
    OBVIOUS
<1> HIDE DEF f
<1>5. Shared(<<>>, f)
    BY <1>3, <1>4, CacheConsts DEF Shared, Once, NotIn, Entries
<1>6. Chain(f, 1, ch.next)
  <2>1. 1 = Place(f, 1)
    BY <1>3, CacheConsts DEF Place
  <2>2. \A k \in 1..c_link : ch.next[f[k]] = Place(f, k + 1)
    BY <1>3, CacheConsts DEF Place, Entries
  <2> QED BY <1>3, <2>1, <2>2 DEF Chain
<1>7. ch.prev[1] = NoEntry
    BY CacheConsts DEF Entries, NoEntry
<1>8. /\ Chain(<<>>, NoEntry, ch.next) /\ BackChain(<<>>, NoEntry, ch.prev)
      /\ Distinct(ch.idx, <<>>)
    BY <1>4 DEF Chain, BackChain, Distinct, Place, NotIn
<1>9. ch.used = NoEntry /\ ch.tail = NoEntry /\ ch.free = 1
    OBVIOUS
<1> HIDE DEF ch
<1>10. Ordered(ch, <<>>, f)
    BY <1>5, <1>6, <1>7, <1>8, <1>9 DEF Ordered
<1>11. \A h \in Headers : cache[h] = ch
    BY <1>1
<1> QED BY <1>1, <1>2, <1>10, <1>11 DEF CacheInv

\* A bucket that changed, and the others.
LEMMA BucketStep ==
    ASSUME CacheInv, NEW h \in Headers, NEW r \in HeaderTypes,
           NEW u, NEW f, Ordered(r, u, f), cache' = [cache EXCEPT ![h] = r]
    PROVE  CacheInv'
<1>1. cache \in [Headers -> HeaderTypes]
    BY DEF CacheInv
<1>2. /\ cache' \in [Headers -> HeaderTypes]
      /\ \A g \in Headers : cache'[g] = IF g = h THEN r ELSE cache[g]
    BY <1>1
<1>3. \A g \in Headers : \E v, w : Ordered(cache'[g], v, w)
    BY <1>2 DEF CacheInv
<1> QED BY <1>2, <1>3 DEF CacheInv

\* What the buckets hold.
Recent(cc) == [h \in Headers |->
                 LET u == Used(cc[h])
                 IN [k \in DOMAIN u |-> [block |-> cc[h].idx[u[k]],
                                         content |-> cc[h].data[u[k]]]]]

\* The refinement mapping gives for a bucket what it holds.
LEMMA RecentIs ==
    ASSUME NEW cc, NEW h \in Headers, NEW u, NEW f, Ordered(cc[h], u, f)
    PROVE  Recent(cc)[h] = View(cc[h], u)
<1>1. Used(cc[h]) = u /\ u \in Seq(Entries)
    BY UsedIs
<1>2. DOMAIN u = 1..Len(u)
    BY <1>1
<1> QED BY <1>1, <1>2 DEF Recent, View

\* encache preserves the invariant and is a Store of LruCache.
LEMMA EncacheStep ==
    ASSUME CacheInv, NEW x \in Blocks, NEW c \in Contents, Encache(x, c)
    PROVE  CacheInv' /\ TheLru!Store(x, c)
<1>1. PICK h \in Headers : h = HeaderOf(x)
    BY HeaderOfIs
<1>2. x \in Nat /\ cache[h] \in HeaderTypes
    BY HeaderOfIs DEF CacheInv
<1>3. PICK u, f : Ordered(cache[h], u, f)
    BY DEF CacheInv
<1>4. PICK ch, r, it : /\ ch = cache[h] /\ r = Encached(ch, x, c)
                       /\ it = [block |-> x, content |-> c]
    OBVIOUS
<1>5. /\ r \in HeaderTypes
      /\ \E u1, f1 :
            /\ Ordered(r, u1, f1)
            /\ View(r, u1) = TheLru!FirstOf(<<it>> \o
                                            TheLru!Without(View(ch, u), x))
    BY <1>2, <1>3, <1>4, StoreIs
<1>6. PICK u1, f1 :
            /\ Ordered(r, u1, f1)
            /\ View(r, u1) = TheLru!FirstOf(<<it>> \o
                                            TheLru!Without(View(ch, u), x))
    BY <1>5
<1>7. cache' = [cache EXCEPT ![h] = r] /\ cache'[h] = r
    BY <1>1, <1>4 DEF Encache, CacheInv
<1>8. CacheInv'
    BY <1>5, <1>6, <1>7, BucketStep
<1>9. Recent(cache') = [Recent(cache) EXCEPT ![h] =
                           TheLru!FirstOf(<<it>> \o TheLru!Without(@, x))]
  <2>1. Recent(cache)[h] = View(ch, u)
    BY <1>3, <1>4, RecentIs
  <2>2. Recent(cache')[h] = View(r, u1)
    <3>1. PICK c1 : c1 = cache'
      OBVIOUS
    <3>2. c1[h] = r /\ Ordered(c1[h], u1, f1)
      BY <1>6, <1>7, <3>1
    <3>3. Recent(c1)[h] = View(c1[h], u1)
      BY <3>2, RecentIs
    <3> QED BY <3>1, <3>2, <3>3
  <2>3. \A g \in Headers : g # h => Recent(cache')[g] = Recent(cache)[g]
    <3>1. \A g \in Headers : g # h => cache'[g] = cache[g]
      BY <1>7 DEF CacheInv
    <3> QED BY <3>1 DEF Recent
  <2>4. /\ DOMAIN Recent(cache) = Headers /\ DOMAIN Recent(cache') = Headers
        /\ Recent(cache') = [g \in Headers |-> Recent(cache')[g]]
    BY DEF Recent
  <2> QED BY <1>6, <2>1, <2>2, <2>3, <2>4
<1>10. TheLru!Store(x, c)
    BY <1>1, <1>4, <1>9, Zenon DEF TheLru!Store, Recent
<1> QED BY <1>8, <1>10

\* decache preserves the invariant and is a Drop of LruCache.
LEMMA DecacheStep ==
    ASSUME CacheInv, NEW x \in Blocks, Decache(x)
    PROVE  CacheInv' /\ TheLru!Drop(x)
<1>1. PICK h \in Headers : h = HeaderOf(x)
    BY HeaderOfIs
<1>2. x \in Nat /\ cache[h] \in HeaderTypes
    BY HeaderOfIs DEF CacheInv
<1>3. PICK ch \in HeaderTypes : ch = cache[h]
    BY <1>2
<1>4. PICK r, u, f : r = Decached(ch, x) /\ Ordered(ch, u, f)
    BY <1>3 DEF CacheInv
<1>5. /\ r \in HeaderTypes
      /\ \E u1, f1 :
            /\ Ordered(r, u1, f1)
            /\ \/ \E i \in 1..Len(u) : /\ ch.idx[u[i]] = x
                                      /\ View(r, u1) = Out(View(ch, u), i)
               \/ Fresh(ch.idx, u, x) /\ View(r, u1) = View(ch, u)
  <2>1. /\ Decached(ch, x) \in HeaderTypes
        /\ \E u1, f1 :
              /\ Ordered(Decached(ch, x), u1, f1)
              /\ \/ \E i \in 1..Len(u) :
                       /\ ch.idx[u[i]] = x
                       /\ View(Decached(ch, x), u1) = Out(View(ch, u), i)
                 \/ /\ Fresh(ch.idx, u, x)
                    /\ View(Decached(ch, x), u1) = View(ch, u)
    BY <1>2, <1>4, DecachedIs
  <2> QED BY <1>4, <2>1
<1>6. PICK u1, f1 : /\ Ordered(r, u1, f1)
                    /\ View(r, u1) = TheLru!Without(View(ch, u), x)
    BY <1>2, <1>4, <1>5, WithoutIs
<1>7. cache' = [cache EXCEPT ![h] = r] /\ cache'[h] = r
    BY <1>1, <1>3, <1>4 DEF Decache, CacheInv
<1>8. CacheInv'
    BY <1>5, <1>6, <1>7, BucketStep
<1>9. Recent(cache') = [Recent(cache) EXCEPT ![h] = TheLru!Without(@, x)]
  <2>1. Recent(cache)[h] = View(ch, u)
    BY <1>3, <1>4, RecentIs
  <2>2. Recent(cache')[h] = View(r, u1)
    <3>1. PICK c1 : c1 = cache'
      OBVIOUS
    <3>2. c1[h] = r /\ Ordered(c1[h], u1, f1)
      BY <1>6, <1>7, <3>1
    <3>3. Recent(c1)[h] = View(c1[h], u1)
      BY <3>2, RecentIs
    <3> QED BY <3>1, <3>2, <3>3
  <2>3. \A g \in Headers : g # h => Recent(cache')[g] = Recent(cache)[g]
    <3>1. \A g \in Headers : g # h => cache'[g] = cache[g]
      BY <1>7 DEF CacheInv
    <3> QED BY <3>1 DEF Recent
  <2>4. /\ DOMAIN Recent(cache) = Headers /\ DOMAIN Recent(cache') = Headers
        /\ Recent(cache') = [g \in Headers |-> Recent(cache')[g]]
    BY DEF Recent
  <2> QED BY <1>6, <2>1, <2>2, <2>3, <2>4
<1>10. TheLru!Drop(x)
    BY <1>1, <1>9, Zenon DEF TheLru!Drop, Recent
<1> QED BY <1>8, <1>10

-----------------------------------------------------------------------------
(* What the invariant says.                                                *)

\* A list read backwards.
Reverted(s) == [k \in 1..Len(s) |-> s[Len(s) + 1 - k]]

\* The used list read backwards from ch_tail is the list reverted.
LEMMA BackIs ==
    ASSUME NEW s \in Seq(Entries), Len(s) <= c_link, NEW tail, NEW link,
           BackChain(s, tail, link)
    PROVE  ListFrom(tail, link) = Reverted(s)
<1>1. Len(s) \in Nat /\ \A k \in 1..Len(s) : s[k] \in Entries
    OBVIOUS
<1>2. \A k \in 1..Len(s) : Len(s) + 1 - k \in 1..Len(s)
    BY <1>1
<1>3. PICK t : t = Reverted(s)
    OBVIOUS
<1>4. /\ t \in Seq(Entries) /\ Len(t) = Len(s)
      /\ \A k \in 1..Len(s) : t[k] = s[Len(s) + 1 - k]
    BY <1>1, <1>2, <1>3 DEF Reverted
<1>5. \A k \in Int : Place(t, k) = Place(s, Len(s) + 1 - k)
    BY <1>1, <1>2, <1>4 DEF Place
<1>6. Chain(t, tail, link)
  <2>1. tail = Place(t, 1)
    <3>1. 1 \in Int /\ Len(s) + 1 - 1 = Len(s)
      BY <1>1
    <3> QED BY <1>5, <3>1 DEF BackChain
  <2>2. ASSUME NEW k \in 1..Len(t) PROVE link[t[k]] = Place(t, k + 1)
    <3>1. PICK j \in 1..Len(s) : j = Len(s) + 1 - k
      BY <1>2, <1>4, <2>2
    <3>2. link[s[j]] = Place(s, j - 1)
      BY DEF BackChain
    <3>3. k + 1 \in Int /\ Len(s) + 1 - (k + 1) = j - 1
      BY <1>1, <1>4, <2>2, <3>1
    <3>4. Place(t, k + 1) = Place(s, j - 1)
      BY <1>5, <3>3
    <3> QED BY <1>4, <2>2, <3>1, <3>2, <3>4
  <2> QED BY <2>1, <2>2 DEF Chain
<1> QED BY <1>3, <1>4, <1>6, ListIs

\* The invariant gives the lists their property.
LEMMA CacheInvSays == CacheInv => CacheLists
<1> SUFFICES ASSUME CacheInv, NEW h \in Headers
             PROVE  LET ch == cache[h]
                        u == Used(ch)
                        f == ListFrom(ch.free, ch.next)
                        back == ListFrom(ch.tail, ch.prev)
                    IN /\ Len(u) + Len(f) = c_link
                       /\ {u[k] : k \in DOMAIN u} \cup {f[k] : k \in DOMAIN f}
                              = Entries
                       /\ back = [k \in DOMAIN u |-> u[Len(u) + 1 - k]]
                       /\ \A j, k \in DOMAIN u : ch.idx[u[j]] = ch.idx[u[k]]
                                                     => j = k
    BY DEF CacheLists
<1>1. PICK u, f : Ordered(cache[h], u, f)
    BY DEF CacheInv
<1>2. PICK ch : ch = cache[h]
    OBVIOUS
<1>3. Used(ch) = u /\ ListFrom(ch.free, ch.next) = f
    BY <1>1, <1>2, UsedIs
<1>4. /\ u \in Seq(Entries) /\ f \in Seq(Entries) /\ Len(u) + Len(f) = c_link
      /\ Once(u) /\ BackChain(u, ch.tail, ch.prev)
      /\ \A e \in Entries : NotIn(e, u) <=> ~NotIn(e, f)
      /\ Distinct(ch.idx, u)
    BY <1>1, <1>2 DEF Ordered, Shared
<1>5. /\ Len(u) \in Nat /\ Len(f) \in Nat /\ Len(u) <= c_link
      /\ DOMAIN u = 1..Len(u) /\ DOMAIN f = 1..Len(f)
      /\ \A k \in 1..Len(u) : u[k] \in Entries
      /\ \A k \in 1..Len(f) : f[k] \in Entries
    BY <1>4, CacheConsts
<1>6. ListFrom(ch.tail, ch.prev) = [k \in 1..Len(u) |-> u[Len(u) + 1 - k]]
    BY <1>4, <1>5, BackIs DEF Reverted
<1>7. {u[k] : k \in 1..Len(u)} \cup {f[k] : k \in 1..Len(f)} = Entries
    BY <1>4, <1>5 DEF NotIn
<1>8. \A j, k \in 1..Len(u) : ch.idx[u[j]] = ch.idx[u[k]] => j = k
  <2> SUFFICES ASSUME NEW j \in 1..Len(u), NEW k \in 1..Len(u),
                      ch.idx[u[j]] = ch.idx[u[k]]
               PROVE  j = k
    OBVIOUS
  <2>1. ~NotIn(u[j], u) /\ ~NotIn(u[k], u)
    BY DEF NotIn
  <2>2. u[j] = u[k]
    BY <1>4, <1>5, <2>1 DEF Distinct
  <2> QED BY <1>4, <2>2 DEF Once
<1> QED BY <1>2, <1>3, <1>4, <1>5, <1>6, <1>7, <1>8

-----------------------------------------------------------------------------
(* The cache by itself.                                                    *)

\* At first the buckets hold nothing.
LEMMA LruStarts == CacheInit => TheLru!LruInit
<1> SUFFICES ASSUME CacheInit PROVE TheLru!LruInit
    OBVIOUS
<1>1. \A h \in Headers : Recent(cache)[h] = <<>>
  <2> SUFFICES ASSUME NEW h \in Headers PROVE Recent(cache)[h] = <<>>
    OBVIOUS
  <2>1. PICK ch : ch = cache[h]
    OBVIOUS
  <2>2. ch.used = NoEntry
    BY <2>1 DEF CacheInit
  <2>3. PICK s : s = <<>>
    OBVIOUS
  <2>4. s \in Seq(Entries) /\ Len(s) = 0
    BY <2>3
  <2>5. Chain(s, ch.used, ch.next) /\ Len(s) <= c_link
    BY <2>2, <2>4, CacheConsts DEF Chain, Place
  <2>6. Used(ch) = s
    BY <2>4, <2>5, ListIs DEF Used
  <2> QED BY <2>1, <2>3, <2>4, <2>6 DEF Recent
<1>2. Recent(cache) = [h \in Headers |-> <<>>]
    BY <1>1 DEF Recent
<1> QED BY <1>2, Zenon DEF TheLru!LruInit, Recent

\* No operation of the cache breaks the invariant.
LEMMA CacheNextInv == CacheInv /\ [CacheNext]_cache => CacheInv'
<1> SUFFICES ASSUME CacheInv, [CacheNext]_cache PROVE CacheInv'
    OBVIOUS
<1>1. CASE UNCHANGED cache
    BY <1>1 DEF CacheInv
<1>2. CASE CacheNext
    BY <1>2, EncacheStep, DecacheStep DEF CacheNext
<1> QED BY <1>1, <1>2

\* After any sequence of encache and decache, with any number of buckets and
\* of entries, the two lists of a bucket share its entries, the used list reads
\* the same in both directions, and no block is in it twice.
THEOREM CacheSound == CacheSpec => []CacheLists
<1>1. CacheSpec => []CacheInv
    BY CacheStarts, CacheNextInv, PTL DEF CacheSpec
<1> QED BY <1>1, CacheInvSays, PTL

\* The substitution for recent is Recent(cache).
RecentNow == Recent(cache)

\* Every operation of the cache is one of LruCache.
LEMMA LruSteps == CacheInv /\ [CacheNext]_cache => [TheLru!LruNext]_RecentNow
<1> SUFFICES ASSUME CacheInv, [CacheNext]_cache
             PROVE  [TheLru!LruNext]_RecentNow
    OBVIOUS
<1>1. CASE UNCHANGED cache
    BY <1>1 DEF RecentNow, Recent
<1>2. ASSUME NEW x \in Blocks, NEW c \in Contents, Encache(x, c)
      PROVE  TheLru!LruNext
    BY <1>2, EncacheStep, Zenon DEF TheLru!LruNext
<1>3. ASSUME NEW x \in Blocks, Decache(x) PROVE TheLru!LruNext
    BY <1>3, DecacheStep, Zenon DEF TheLru!LruNext
<1> QED BY <1>1, <1>2, <1>3, Zenon DEF CacheNext

\* The cache holds of each bucket's blocks those stored last, each with the
\* content stored last: a full bucket gives up the block stored longest ago.
THEOREM CacheIsLru == CacheSpec => ImplementsLru
<1>1. CacheSpec => []CacheInv
    BY CacheStarts, CacheNextInv, PTL DEF CacheSpec
<1> QED BY <1>1, LruStarts, LruSteps, PTL
        DEF CacheSpec, ImplementsLru, TheLru!LruSpec, RecentNow, Recent

-----------------------------------------------------------------------------
(* The queue.                                                              *)

Some == Items \cup {NULL}

\* The variables have their types.
QueueTypes ==
    /\ in_queue \in Some /\ out_queue \in Some
    /\ next \in [Items -> Some]
    /\ lock \in Getters \cup {NULL}
    /\ putting \in [Putters -> [item : Some, old : Some]]
    /\ getting \in [Getters -> [pc : {"out", "read", "cas", "turn", "pop"}, head : Some]]
    /\ inF \in Seq(Items) /\ midF \in Seq(Items) /\ outF \in Seq(Items)

\* An item is in one place of one list at most.
ListsApart ==
    /\ Once(inF) /\ Once(midF) /\ Once(outF)
    /\ Apart(inF, midF) /\ Apart(inF, outF) /\ Apart(midF, outF)

\* An item that is being put is one putter's, is in no list, and is linked to the
\* in_queue its putter has read.
PuttersApart ==
    \A p \in Putters : putting[p].item # NULL =>
        /\ NotIn(putting[p].item, inF) /\ NotIn(putting[p].item, midF)
        /\ NotIn(putting[p].item, outF)
        /\ next[putting[p].item] = putting[p].old
        /\ \A r \in Putters : putting[r].item = putting[p].item => r = p

\* A getter that is under way has the lock.
GettersLock == \A g \in Getters : getting[g].pc # "out" => lock = g

\* A list is being turned round only by the getter that has the lock, and
\* out_queue is empty when it begins.
TurnsAlone ==
    /\ midF # <<>> => lock # NULL /\ getting[lock].pc = "turn"
    /\ lock # NULL /\ getting[lock].pc \in {"read", "cas"} => outF = <<>>
    /\ lock # NULL => getting[lock].pc # "out"

QueueInv == QueueTypes /\ ListsApart /\ PuttersApart /\ GettersLock /\ TurnsAlone /\ ListsLinked

\* A step leaves the lists as they are and changes the links of no item in them.
ListsStay ==
    /\ UNCHANGED <<inF, midF, outF, in_queue, out_queue>>
    /\ TurningHead' = TurningHead
    /\ \A x \in Items : (\E s \in {inF, midF, outF} : ~NotIn(x, s)) => next'[x] = next[x]

\* The lists stay linked if their items' links stay.
LEMMA LinksStay ==
    ASSUME QueueTypes, ListsLinked, ListsStay
    PROVE  ListsLinked'
<1>1. LinkedDown(inF, in_queue, NULL)'
    BY DEF QueueTypes, ListsLinked, ListsStay, LinkedDown, Newest, NotIn
<1>2. LinkedDown(midF, TurningHead, NULL)'
    BY DEF QueueTypes, ListsLinked, ListsStay, LinkedDown, Newest, NotIn
<1>3. LinkedUp(outF, out_queue)'
    BY DEF QueueTypes, ListsLinked, ListsStay, LinkedUp, Newest, NotIn
<1> QED BY <1>1, <1>2, <1>3 DEF ListsLinked

\* The invariant of the queue holds at first.
LEMMA InitInv == QueueInit => QueueInv
BY SemiQueueAssumption DEF QueueInit, QueueInv, QueueTypes, ListsApart, PuttersApart,
   GettersLock, TurnsAlone, ListsLinked, LinkedDown, LinkedUp, TurningHead, Some, Idle,
   Once, Apart
-----------------------------------------------------------------------------
(* queue_put.                                                              *)

\* new->next = in_queue preserves the invariant.
LEMMA LinkInv ==
    ASSUME QueueInv, NEW p \in Putters, NEW x \in Items, Link(p, x),
           putting[p].item = x \/ Unused(x)
    PROVE  QueueInv'
<1> USE SemiQueueAssumption DEF QueueInv, Link, lists
<1>1. QueueTypes'
    BY DEF QueueTypes, Some
<1>2. NotIn(x, inF) /\ NotIn(x, midF) /\ NotIn(x, outF)
  <2>1. CASE putting[p].item = x
    BY <2>1 DEF PuttersApart
  <2>2. CASE Unused(x)
    <3>1. DOMAIN inF = 1..Len(inF) /\ DOMAIN midF = 1..Len(midF)
          /\ DOMAIN outF = 1..Len(outF)
      BY DEF QueueTypes
    <3> QED BY <2>2, <3>1 DEF Unused, NotIn
  <2> QED BY <2>1, <2>2
<1>3. ListsApart'
    BY DEF ListsApart, Once, Apart
<1>4. PuttersApart'
  <2>1. \A r \in Putters \ {p} : putting[r].item # x
    BY DEF PuttersApart, Unused
  <2>2. /\ putting'[p] = [item |-> x, old |-> in_queue]
        /\ \A r \in Putters \ {p} : putting'[r] = putting[r]
    BY DEF QueueTypes
  <2>3. /\ next'[x] = in_queue
        /\ \A y \in Items \ {x} : next'[y] = next[y]
    BY DEF QueueTypes
  <2>4. \A r \in Putters : putting[r].item # NULL => putting[r].item \in Items
    BY DEF QueueTypes, Some
  <2> QED BY <1>2, <2>1, <2>2, <2>3, <2>4 DEF PuttersApart, NotIn
<1>5. GettersLock' /\ TurnsAlone'
    BY DEF GettersLock, TurnsAlone
<1>6. ListsStay
    BY <1>2 DEF ListsStay, TurningHead, NotIn, QueueTypes
<1> QED BY <1>1, <1>3, <1>4, <1>5, <1>6, LinksStay

\* The compare-and-swap of queue_put preserves the invariant.
LEMMA PushInv ==
    ASSUME QueueInv, NEW p \in Putters, Push(p)
    PROVE  QueueInv'
<1> USE SemiQueueAssumption DEF QueueInv, Push
<1> DEFINE x == putting[p].item
<1>1. x \in Items /\ next[x] = in_queue
    BY DEF QueueTypes, PuttersApart, Some
<1>2. QueueTypes'
    BY <1>1 DEF QueueTypes, Some, Idle
<1>3. ListsApart'
  <2>1. /\ Len(inF') = Len(inF) + 1 /\ inF'[Len(inF) + 1] = x
        /\ \A k \in 1..Len(inF) : inF'[k] = inF[k]
    BY <1>1 DEF QueueTypes
  <2>2. NotIn(x, inF) /\ NotIn(x, midF) /\ NotIn(x, outF)
    BY DEF PuttersApart
  <2>3. Len(inF) \in Nat
    BY DEF QueueTypes
  <2>4. Once(inF')
    BY <2>1, <2>2, <2>3 DEF ListsApart, Once, NotIn
  <2>5. Apart(inF', midF) /\ Apart(inF', outF)
    BY <2>1, <2>2, <2>3 DEF ListsApart, Apart, NotIn
  <2> QED BY <2>4, <2>5 DEF ListsApart
<1>4. PuttersApart'
    BY <1>1 DEF PuttersApart, NotIn, QueueTypes, Idle
<1>5. GettersLock' /\ TurnsAlone'
    BY DEF GettersLock, TurnsAlone
<1>6. LinkedDown(inF, in_queue, NULL)'
    BY <1>1 DEF ListsLinked, LinkedDown, Newest, QueueTypes
<1>7. LinkedDown(midF, TurningHead, NULL)' /\ LinkedUp(outF, out_queue)'
    BY DEF ListsLinked, LinkedDown, LinkedUp, Newest, TurningHead
<1> QED BY <1>2, <1>3, <1>4, <1>5, <1>6, <1>7 DEF ListsLinked
-----------------------------------------------------------------------------
(* queue_get.                                                              *)

\* The steps of a getter that leave the queue as it is.
Strolls(g) == Lock(g) \/ ReadIn(g) \/ TakeFails(g) \/ Turned(g) \/ PopNothing(g)

\* The steps of queue_get that change no list preserve the invariant.
LEMMA StrollInv ==
    ASSUME QueueInv, NEW g \in Getters, Strolls(g)
    PROVE  QueueInv'
<1> USE SemiQueueAssumption DEF QueueInv, lists
<1>1. UNCHANGED <<in_queue, out_queue, next, putting, inF, midF, outF>>
    BY DEF Strolls, Lock, ReadIn, TakeFails, Turned, PopNothing
<1>2. QueueTypes'
  <2>1. lock' \in Getters \cup {NULL}
    BY DEF QueueTypes, Strolls, Lock, ReadIn, TakeFails, Turned, PopNothing
  <2>2. \E pc \in {"out", "read", "cas", "turn", "pop"}, h \in Some :
           getting' = [getting EXCEPT ![g] = [pc |-> pc, head |-> h]]
    BY DEF QueueTypes, Some, Strolls, Lock, ReadIn, TakeFails, Turned, PopNothing, GoTo
  <2> QED BY <1>1, <2>1, <2>2 DEF QueueTypes
<1>3. ListsApart' /\ PuttersApart'
    BY <1>1 DEF ListsApart, PuttersApart, Once, Apart, NotIn
<1>4. GettersLock'
    BY DEF GettersLock, QueueTypes, Strolls, Lock, ReadIn, TakeFails, Turned, PopNothing,
           GoTo, At
<1>5. outF = <<>> <=> out_queue = NULL
    BY DEF ListsLinked, LinkedUp, QueueTypes
<1>6. midF = <<>> <=> TurningHead = NULL
    BY DEF ListsLinked, LinkedDown, QueueTypes, Newest
<1>7. TurnsAlone'
    BY <1>1, <1>5, <1>6 DEF TurnsAlone, GettersLock, TurningHead, QueueTypes, Strolls, Lock,
       ReadIn, TakeFails, Turned, PopNothing, GoTo, At
<1>8. TurningHead' = TurningHead
    BY <1>1 DEF TurningHead, QueueTypes, GettersLock, TurnsAlone, Strolls, Lock,
       ReadIn, TakeFails, Turned, PopNothing, GoTo, At
<1>9. ListsStay
    BY <1>1, <1>8 DEF ListsStay
<1> QED BY <1>2, <1>3, <1>4, <1>7, <1>9, LinksStay

\* The compare-and-swap of queue_get preserves the invariant.
LEMMA TakeInv ==
    ASSUME QueueInv, NEW g \in Getters, TakeIn(g)
    PROVE  QueueInv'
<1> USE SemiQueueAssumption DEF QueueInv, TakeIn
<1>1. /\ lock = g /\ getting[g].pc = "cas" /\ midF = <<>> /\ outF = <<>>
      /\ getting' = [getting EXCEPT ![g] = [pc |-> "turn", head |-> in_queue]]
    BY DEF At, GoTo, TurnsAlone, QueueTypes
<1>2. lock \in Getters /\ lock # NULL
    BY <1>1
<1>3. QueueTypes'
    BY <1>1 DEF QueueTypes, Some
<1>4. ListsApart' /\ PuttersApart'
    BY <1>1 DEF ListsApart, PuttersApart, Once, Apart, NotIn
<1>5. GettersLock' /\ TurnsAlone'
    BY <1>1, <1>2 DEF GettersLock, TurnsAlone, QueueTypes
<1>6. TurningHead' = in_queue
    BY <1>1, <1>2 DEF TurningHead, QueueTypes
<1>7. ListsLinked'
    BY <1>1, <1>6 DEF ListsLinked, LinkedDown, LinkedUp, Newest
<1> QED BY <1>3, <1>4, <1>5, <1>7

\* The item that is turned round leaves one list for the other.
LEMMA TurnMoves ==
    ASSUME QueueTypes, NEW g \in Getters, TurnRound(g), ListsLinked, TurnsAlone,
           NULL \notin Items \cup Getters
    PROVE  LET h == getting[g].head
           IN /\ h \in Items /\ Len(midF) \in Nat \ {0} /\ h = midF[Len(midF)]
              /\ Len(midF') = Len(midF) - 1
              /\ \A k \in 1..Len(midF') : midF'[k] = midF[k]
              /\ Len(outF) \in Nat /\ Len(outF') = Len(outF) + 1 /\ outF'[1] = h
              /\ \A k \in 2..Len(outF') : outF'[k] = outF[k - 1]
              /\ midF' \in Seq(Items) /\ outF' \in Seq(Items)
<1> DEFINE h == getting[g].head
<1>1. TurningHead = h /\ h \in Items
    BY DEF TurnRound, At, TurningHead, QueueTypes, Some
<1>2. midF # <<>> /\ h = midF[Len(midF)]
    BY <1>1 DEF ListsLinked, LinkedDown, Newest
<1>3. Len(midF) \in Nat \ {0} /\ Len(outF) \in Nat
    BY <1>2 DEF QueueTypes
<1>4. /\ Len(midF') = Len(midF) - 1 /\ \A k \in 1..Len(midF') : midF'[k] = midF[k]
      /\ midF' \in Seq(Items)
    BY <1>3 DEF TurnRound, QueueTypes
<1>5. /\ Len(outF') = Len(outF) + 1 /\ outF'[1] = h /\ outF' \in Seq(Items)
      /\ \A k \in 2..Len(outF') : outF'[k] = outF[k - 1]
    BY <1>1, <1>3 DEF TurnRound, QueueTypes
<1> QED BY <1>1, <1>2, <1>3, <1>4, <1>5

\* A round of the loop that reverses the order preserves the invariant.
LEMMA TurnInv ==
    ASSUME QueueInv, NEW g \in Getters, TurnRound(g)
    PROVE  QueueInv'
<1> USE SemiQueueAssumption DEF QueueInv
<1> DEFINE h == getting[g].head
<1>1. /\ h \in Items /\ Len(midF) \in Nat \ {0} /\ h = midF[Len(midF)]
      /\ Len(midF') = Len(midF) - 1
      /\ \A k \in 1..Len(midF') : midF'[k] = midF[k]
    BY TurnMoves
<1>2. /\ Len(outF) \in Nat /\ Len(outF') = Len(outF) + 1 /\ outF'[1] = h
      /\ \A k \in 2..Len(outF') : outF'[k] = outF[k - 1]
    BY TurnMoves
<1>3. midF' \in Seq(Items) /\ outF' \in Seq(Items)
    BY TurnMoves
<1>4. /\ lock = g /\ lock # NULL /\ lock' = lock /\ getting[g].pc = "turn"
      /\ getting' = [getting EXCEPT ![g] = [pc |-> "turn", head |-> next[h]]]
      /\ next' = [next EXCEPT ![h] = out_queue] /\ out_queue' = h
      /\ UNCHANGED <<in_queue, putting, inF>>
    BY DEF TurnRound, At, GoTo
<1>5. QueueTypes'
    BY <1>1, <1>3, <1>4 DEF QueueTypes, Some
<1>6. NotIn(h, inF) /\ NotIn(h, outF) /\ NotIn(h, midF')
  <2>1. NotIn(h, inF) /\ NotIn(h, outF)
    BY <1>1 DEF ListsApart, Apart, NotIn, QueueTypes
  <2>2. \A k \in 1..Len(midF') : k \in 1..Len(midF) /\ k # Len(midF) /\ midF'[k] = midF[k]
    BY <1>1
  <2>3. Len(midF) \in 1..Len(midF)
    BY <1>1
  <2>4. NotIn(h, midF')
    BY <1>1, <2>2, <2>3 DEF ListsApart, Once, NotIn
  <2> QED BY <2>1, <2>4
<1>7. ListsApart'
  <2>1. Once(inF') /\ Once(midF')
    BY <1>1, <1>4 DEF ListsApart, Once
  <2>2. \A k \in 2..Len(outF') : k - 1 \in 1..Len(outF) /\ outF'[k] = outF[k - 1]
    BY <1>2
  <2>5. \A k \in 1..Len(outF') : k = 1 \/ k \in 2..Len(outF')
    BY <1>2
  <2>6. Once(outF')
    <3>1. \A k \in 2..Len(outF') : outF'[k] # h
      BY <1>6, <2>2 DEF NotIn
    <3>2. ASSUME NEW j \in 2..Len(outF'), NEW k \in 2..Len(outF'),
                 outF'[j] = outF'[k]
          PROVE  j = k
      <4>1. j - 1 = k - 1
        BY <2>2, <3>2 DEF ListsApart, Once
      <4> QED BY <1>2, <4>1
    <3> QED BY <1>2, <2>5, <3>1, <3>2 DEF Once
  <2>7. Apart(inF', midF')
    BY <1>1, <1>4 DEF ListsApart, Apart
  <2>3. Apart(inF', outF')
    <3>1. \A k \in 1..Len(inF) : inF[k] # h
      BY <1>6 DEF NotIn
    <3> QED BY <1>2, <1>4, <2>2, <2>5, <3>1 DEF ListsApart, Apart
  <2>4. Apart(midF', outF')
    BY <1>1, <1>2, <1>6, <2>2, <2>5 DEF ListsApart, Apart, NotIn
  <2> QED BY <2>1, <2>3, <2>4, <2>6, <2>7 DEF ListsApart
<1>8. PuttersApart'
  <2>1. \A p \in Putters : putting[p].item # NULL => putting[p].item # h
    BY <1>1 DEF PuttersApart, NotIn
  <2>2. \A x \in Items \ {h} : next'[x] = next[x]
    BY <1>4 DEF QueueTypes
  <2>3. \A x : x # h /\ NotIn(x, midF) => NotIn(x, midF')
    BY <1>1 DEF NotIn
  <2>4. \A x : x # h /\ NotIn(x, outF) => NotIn(x, outF')
    <3>1. \A k \in 1..Len(outF') :
             k = 1 \/ (k - 1 \in 1..Len(outF) /\ outF'[k] = outF[k - 1])
      BY <1>2
    <3> QED BY <1>2, <3>1 DEF NotIn
  <2>5. \A p \in Putters : putting[p].item # NULL => putting[p].item \in Items
    BY DEF QueueTypes, Some
  <2> QED BY <1>4, <2>1, <2>2, <2>3, <2>4, <2>5 DEF PuttersApart
<1>9. GettersLock' /\ TurnsAlone'
    BY <1>4 DEF GettersLock, TurnsAlone, QueueTypes
<1>10. ListsLinked'
  <2>1. /\ \A k \in 1..Len(inF) : inF[k] \in Items /\ next'[inF[k]] = next[inF[k]]
        /\ \A k \in 1..Len(outF) : outF[k] \in Items /\ next'[outF[k]] = next[outF[k]]
        /\ \A k \in 1..Len(midF') : midF[k] \in Items /\ next'[midF[k]] = next[midF[k]]
        /\ next'[h] = out_queue
    BY <1>1, <1>4, <1>6 DEF NotIn, QueueTypes
  <2>2. TurningHead' = next[h]
    BY <1>4 DEF TurningHead, QueueTypes
  <2>3. LinkedDown(inF, in_queue, NULL)'
    BY <1>4, <2>1 DEF ListsLinked, LinkedDown, Newest, QueueTypes
  <2>4. LinkedDown(midF, TurningHead, NULL)'
    <3>1. midF # <<>> /\ TurningHead = h
      BY <1>1, <1>4 DEF TurningHead
    <3>2. CASE Len(midF) = 1
      <4>1. midF' = <<>> /\ Len(midF') = 0 /\ next[h] = NULL
        BY <1>1, <1>3, <3>1, <3>2 DEF ListsLinked, LinkedDown
      <4> QED BY <2>2, <4>1 DEF LinkedDown
    <3>3. CASE Len(midF) > 1
      <4>1. next[h] = midF[Len(midF) - 1] /\ next[midF[1]] = NULL
        BY <1>1, <3>1, <3>3 DEF ListsLinked, LinkedDown
      <4>2. Len(midF') \in 1..Len(midF) /\ midF' # <<>> /\ midF'[Len(midF')] = next[h]
            /\ midF'[1] = midF[1]
        BY <1>1, <3>3, <4>1
      <4>3. next'[midF'[1]] = NULL
        BY <2>1, <4>1, <4>2
      <4>4. ASSUME NEW k \in 1..Len(midF') - 1
            PROVE  next'[midF'[k + 1]] = midF'[k]
        <5>1. /\ k \in 1..Len(midF') /\ k + 1 \in 1..Len(midF') /\ k \in 1..Len(midF) - 1
          BY <1>1
        <5>2. midF'[k] = midF[k] /\ midF'[k + 1] = midF[k + 1]
          BY <1>1, <5>1
        <5> QED BY <2>1, <5>1, <5>2 DEF ListsLinked, LinkedDown
      <4> QED BY <2>2, <4>2, <4>3, <4>4 DEF LinkedDown, Newest
    <3> QED BY <1>1, <3>2, <3>3
  <2>5. LinkedUp(outF, out_queue)'
    <3>1. outF' # <<>> /\ out_queue' = outF'[1]
      BY <1>2, <1>4
    <3>2. next'[outF'[Len(outF')]] = NULL
      <4>1. CASE Len(outF) = 0
        BY <1>2, <2>1, <4>1 DEF ListsLinked, LinkedUp, QueueTypes
      <4>2. CASE Len(outF) > 0
        BY <1>2, <2>1, <4>2 DEF ListsLinked, LinkedUp, Newest
      <4> QED BY <1>2, <4>1, <4>2
    <3>3. ASSUME NEW k \in 1..Len(outF') - 1
          PROVE  next'[outF'[k]] = outF'[k + 1]
      <4>1. outF'[k + 1] = outF[k] /\ k \in 1..Len(outF)
        BY <1>2
      <4>2. CASE k = 1
        BY <1>2, <2>1, <4>1, <4>2 DEF ListsLinked, LinkedUp
      <4>3. CASE k > 1
        <5>1. outF'[k] = outF[k - 1] /\ k - 1 \in 1..Len(outF) - 1
          BY <1>2, <4>3
        <5> QED BY <2>1, <4>1, <5>1 DEF ListsLinked, LinkedUp
      <4> QED BY <4>2, <4>3
    <3> QED BY <3>1, <3>2, <3>3 DEF LinkedUp, Newest
  <2> QED BY <2>3, <2>4, <2>5 DEF ListsLinked
<1> QED BY <1>5, <1>7, <1>8, <1>9, <1>10

\* Taking the head of out_queue preserves the invariant.
LEMMA PopInv ==
    ASSUME QueueInv, NEW g \in Getters, PopOut(g)
    PROVE  QueueInv'
<1> USE SemiQueueAssumption DEF QueueInv
<1>1. /\ lock = g /\ lock # NULL /\ lock' = NULL /\ getting[g].pc = "pop"
      /\ getting' = [getting EXCEPT ![g] = [pc |-> "out", head |-> NULL]]
      /\ out_queue \in Items /\ out_queue' = next[out_queue]
      /\ UNCHANGED <<in_queue, next, putting, inF, midF>>
    BY DEF PopOut, At, GoTo, QueueTypes, Some
<1>2. midF = <<>>
    BY <1>1 DEF TurnsAlone
<1>3. /\ outF # <<>> /\ out_queue = outF[1] /\ Len(outF) \in Nat \ {0}
      /\ Len(outF') = Len(outF) - 1 /\ outF' \in Seq(Items)
      /\ \A k \in 1..Len(outF') : outF'[k] = outF[k + 1]
    BY <1>1 DEF PopOut, ListsLinked, LinkedUp, QueueTypes
<1>4. QueueTypes'
    BY <1>1, <1>3 DEF QueueTypes, Some
<1>5. ListsApart' /\ PuttersApart'
  <2>1. \A k \in 1..Len(outF') : k + 1 \in 1..Len(outF) /\ outF'[k] = outF[k + 1]
    BY <1>3
  <2>2. Once(outF')
    BY <1>3, <2>1 DEF ListsApart, Once
  <2>3. Apart(inF', outF') /\ Apart(midF', outF')
    <3>1. Apart(inF, outF) /\ Apart(midF, outF) /\ inF' = inF /\ midF' = midF
      BY <1>1 DEF ListsApart
    <3> QED BY <2>1, <3>1 DEF Apart
  <2>4. \A x : NotIn(x, outF) => NotIn(x, outF')
    BY <2>1 DEF NotIn
  <2> QED BY <1>1, <2>2, <2>3, <2>4 DEF ListsApart, PuttersApart
<1>6. GettersLock' /\ TurnsAlone'
    BY <1>1, <1>2 DEF GettersLock, TurnsAlone, QueueTypes
<1>7. TurningHead' = NULL /\ TurningHead = NULL
    BY <1>1 DEF TurningHead
<1>8. LinkedUp(outF, out_queue)'
    BY <1>1, <1>3 DEF ListsLinked, LinkedUp, Newest
<1>9. LinkedDown(inF, in_queue, NULL)' /\ LinkedDown(midF, TurningHead, NULL)'
    BY <1>1, <1>7 DEF ListsLinked, LinkedDown, Newest
<1> QED BY <1>4, <1>5, <1>6, <1>8, <1>9 DEF ListsLinked
-----------------------------------------------------------------------------
(* The theorems.                                                           *)

\* No step of the queue breaks the invariant.
LEMMA StepInv == QueueInv /\ [QueueNext]_queue => QueueInv'
<1> SUFFICES ASSUME QueueInv, [QueueNext]_queue PROVE QueueInv'
    OBVIOUS
<1>1. CASE UNCHANGED queue
    BY <1>1 DEF queue, lists, QueueInv, QueueTypes, ListsApart, PuttersApart, GettersLock,
       TurnsAlone, ListsLinked, LinkedDown, LinkedUp, TurningHead, Newest, Once, Apart,
       NotIn, Some
<1>2. ASSUME NEW p \in Putters, NEW x \in Items, Unused(x), Link(p, x)
      PROVE  QueueInv'
    BY <1>2, LinkInv
<1>3. ASSUME NEW p \in Putters, Push(p)
      PROVE  QueueInv'
    BY <1>3, PushInv
<1>4. ASSUME NEW p \in Putters, Relink(p)
      PROVE  QueueInv'
  <2>1. putting[p].item \in Items /\ Link(p, putting[p].item)
    BY <1>4 DEF Relink, QueueInv, QueueTypes, Some
  <2> QED BY <2>1, LinkInv
<1>5. ASSUME NEW g \in Getters, Lock(g) \/ GetStep(g) \/ PopOut(g) \/ PopNothing(g)
      PROVE  QueueInv'
    BY <1>5, StrollInv, TakeInv, TurnInv, PopInv DEF GetStep, Strolls
<1> QED BY <1>1, <1>2, <1>3, <1>4, <1>5 DEF QueueNext

\* Whatever putters and getters do at the same time, the three lists are linked
\* through next as queue_put and queue_get walk them.
THEOREM QueueLinked == QueueSpec => []ListsLinked
<1>1. QueueInv => ListsLinked
    BY DEF QueueInv
<1> QED BY <1>1, InitInv, StepInv, PTL DEF QueueSpec
-----------------------------------------------------------------------------
(* The queue implements Fifo.                                              *)

Whole == midF \o outF \o inF

\* Adding at the end of the last list adds at the end of the whole.
LEMMA WholePush ==
    ASSUME NEW S, NEW m \in Seq(S), NEW o \in Seq(S), NEW i \in Seq(S), NEW x \in S
    PROVE  m \o o \o Append(i, x) = Append(m \o o \o i, x)
<1>1. <<x>> \in Seq(S) /\ m \o o \in Seq(S) /\ m \o o \o i \in Seq(S)
    OBVIOUS
<1>2. Append(i, x) = i \o <<x>> /\ Append(m \o o \o i, x) = (m \o o \o i) \o <<x>>
    BY <1>1, AppendIsConcat
<1> QED BY <1>1, <1>2, ConcatAssociative

\* Moving the end of one list to the front of the next changes nothing.
LEMMA WholeTurn ==
    ASSUME NEW S, NEW m \in Seq(S), NEW o \in Seq(S), m # <<>>
    PROVE  SubSeq(m, 1, Len(m) - 1) \o (<<m[Len(m)]>> \o o) = m \o o
<1>1. Len(m) \in Nat \ {0} /\ m[Len(m)] \in S
    OBVIOUS
<1>2. SubSeq(m, 1, Len(m) - 1) \in Seq(S) /\ <<m[Len(m)]>> \in Seq(S)
    BY <1>1, SubSeqProperties
<1>3. 1 \in 1..Len(m) /\ Len(m) \in 1..Len(m)
    BY <1>1
<1>4. SubSeq(m, 1, Len(m)) = SubSeq(m, 1, Len(m) - 1) \o <<m[Len(m)]>>
    BY <1>3, SubSeqRecursiveSecond, ZenonT(20)
<1>5. m = SubSeq(m, 1, Len(m) - 1) \o <<m[Len(m)]>>
    BY <1>4, SubSeqFull
<1> DEFINE front == SubSeq(m, 1, Len(m) - 1)
           last == <<m[Len(m)]>>
<1>6. front \in Seq(S) /\ last \in Seq(S) /\ m = front \o last
    BY <1>2, <1>5
<1> HIDE DEF front, last
<1>7. (front \o last) \o o = front \o (last \o o)
    BY <1>6, ConcatAssociative
<1>8. front \o (last \o o) = m \o o
    BY <1>6, <1>7
<1> QED BY <1>8 DEF front, last

\* Taking from the first list that has items takes from the whole.
LEMMA WholePop ==
    ASSUME NEW S, NEW o \in Seq(S), NEW i \in Seq(S), o # <<>>
    PROVE  /\ <<>> \o o \o i # <<>>
           /\ <<>> \o Tail(o) \o i = Tail(<<>> \o o \o i)
<1>1. Tail(o) \in Seq(S) /\ <<>> \o o = o /\ <<>> \o Tail(o) = Tail(o)
    BY HeadTailProperties, ConcatEmptySeq
<1>2. /\ o \o i \in Seq(S) /\ Len(o) \in Nat \ {0} /\ Len(i) \in Nat
      /\ Len(o \o i) = Len(o) + Len(i)
    OBVIOUS
<1>3. o \o i # <<>>
    BY <1>2
<1>4. /\ Tail(o \o i) \in Seq(S) /\ Len(Tail(o \o i)) = Len(o) + Len(i) - 1
      /\ \A k \in 1..Len(o) + Len(i) - 1 : Tail(o \o i)[k] = (o \o i)[k + 1]
    BY <1>2, <1>3, HeadTailProperties
<1>5. /\ Tail(o) \o i \in Seq(S) /\ Len(Tail(o) \o i) = Len(o) + Len(i) - 1
      /\ \A k \in 1..Len(o) + Len(i) - 1 : (Tail(o) \o i)[k] = (o \o i)[k + 1]
    BY <1>1, <1>2
<1>6. Tail(o) \o i = Tail(o \o i)
    BY <1>4, <1>5, SeqEqual
<1> QED BY <1>1, <1>3, <1>6

\* A put adds its item at the end.
LEMMA WholePushed ==
    ASSUME QueueInv, NEW p \in Putters, Push(p)
    PROVE  putting[p].item \in Items /\ Whole' = Append(Whole, putting[p].item)
<1>1. putting[p].item \in Items
    BY DEF Push, QueueInv, QueueTypes, Some
<1>2. Whole' = Append(Whole, putting[p].item)
    BY <1>1, WholePush DEF Push, Whole, QueueInv, QueueTypes
<1> QED BY <1>1, <1>2

\* A get takes the first item, the head of out_queue.
LEMMA WholePopped ==
    ASSUME QueueInv, NEW g \in Getters, PopOut(g)
    PROVE  Whole # <<>> /\ Whole' = Tail(Whole) /\ Whole[1] = out_queue
<1>1. midF = <<>> /\ midF' = <<>> /\ outF # <<>> /\ outF' = Tail(outF)
      /\ inF' = inF /\ outF[1] = out_queue
    BY SemiQueueAssumption
    DEF PopOut, At, QueueInv, TurnsAlone, ListsLinked, LinkedUp, QueueTypes
<1>2. Whole # <<>> /\ Whole' = Tail(Whole)
    BY <1>1, WholePop DEF Whole, QueueInv, QueueTypes
<1>3. Whole[1] = outF[1]
  <2>1. outF \in Seq(Items) /\ inF \in Seq(Items)
    BY DEF QueueInv, QueueTypes
  <2>2. Whole = outF \o inF
    BY <1>1, <2>1, ConcatEmptySeq DEF Whole
  <2>3. 1 \in 1..Len(outF)
    BY <1>1, <2>1
  <2> QED BY <2>1, <2>2, <2>3
<1> QED BY <1>1, <1>2, <1>3

\* Taking all of in_queue is not seen from outside.
LEMMA WholeTaken ==
    ASSUME QueueInv, NEW g \in Getters, TakeIn(g)
    PROVE  Whole' = Whole
<1>1. midF = <<>> /\ outF = <<>> /\ midF' = inF /\ inF' = <<>> /\ outF' = <<>>
    BY SemiQueueAssumption DEF TakeIn, At, QueueInv, TurnsAlone
<1>2. Whole = inF /\ Whole' = inF
    BY <1>1, ConcatEmptySeq DEF Whole, QueueInv, QueueTypes
<1> QED BY <1>2

\* Turning an item round is not seen from outside.
LEMMA WholeTurned ==
    ASSUME QueueInv, NEW g \in Getters, TurnRound(g)
    PROVE  Whole' = Whole
<1>1. midF # <<>> /\ getting[g].head = midF[Len(midF)]
    BY SemiQueueAssumption, TurnMoves DEF QueueInv
<1>2. midF' = SubSeq(midF, 1, Len(midF) - 1) /\ outF' = <<midF[Len(midF)]>> \o outF
    BY <1>1 DEF TurnRound
<1>3. midF \in Seq(Items) /\ outF \in Seq(Items)
    BY DEF QueueInv, QueueTypes
<1>4. midF' \o outF' = midF \o outF
    BY <1>1, <1>2, <1>3, WholeTurn
<1> QED BY <1>4 DEF Whole, TurnRound

\* No other step of queue_put or queue_get is seen from outside.
LEMMA WholeStays ==
    ASSUME QueueInv,
           \/ UNCHANGED queue
           \/ \E p \in Putters : Relink(p) \/ \E x \in Items : Link(p, x)
           \/ \E g \in Getters : Lock(g) \/ GetStep(g) \/ PopNothing(g)
    PROVE  Whole' = Whole
<1>1. ASSUME UNCHANGED lists PROVE Whole' = Whole
    BY <1>1 DEF Whole, lists
<1>2. UNCHANGED queue => Whole' = Whole
    BY <1>1 DEF queue
<1>3. ASSUME NEW p \in Putters, Relink(p) \/ \E x \in Items : Link(p, x)
      PROVE  Whole' = Whole
    BY <1>1, <1>3 DEF Relink, Link
<1>4. ASSUME NEW g \in Getters, Lock(g) \/ GetStep(g) \/ PopNothing(g)
      PROVE  Whole' = Whole
  <2>1. CASE Strolls(g)
    BY <1>1, <2>1 DEF Strolls, Lock, ReadIn, TakeFails, Turned, PopNothing
  <2>2. CASE TakeIn(g)
    BY <2>2, WholeTaken
  <2>3. CASE TurnRound(g)
    BY <2>3, WholeTurned
  <2> QED BY <1>4, <2>1, <2>2, <2>3 DEF Strolls, GetStep
<1> QED BY <1>2, <1>3, <1>4

\* Every step of the queue is a step of Fifo or is not seen.
LEMMA QueueStepRefines == QueueInv /\ [QueueNext]_queue => [TheFifo!FifoNext]_Whole
<1> SUFFICES ASSUME QueueInv, [QueueNext]_queue
             PROVE  [TheFifo!FifoNext]_Whole
    OBVIOUS
<1>1. \/ Whole' = Whole
      \/ \E x \in Items : Whole' = Append(Whole, x)
      \/ Whole # <<>> /\ Whole' = Tail(Whole)
  <2>1. CASE UNCHANGED queue
    BY <2>1, WholeStays
  <2>2. CASE \E p \in Putters : Relink(p) \/ \E x \in Items : Link(p, x)
    BY <2>2, WholeStays
  <2>3. CASE \E p \in Putters : Push(p)
    BY <2>3, WholePushed
  <2>4. CASE \E g \in Getters : Lock(g) \/ GetStep(g) \/ PopNothing(g)
    BY <2>4, WholeStays
  <2>5. CASE \E g \in Getters : PopOut(g)
    BY <2>5, WholePopped
  <2> QED BY <2>1, <2>2, <2>3, <2>4, <2>5 DEF QueueNext
<1> QED BY <1>1 DEF TheFifo!FifoNext, TheFifo!Put, TheFifo!Get, Whole

\* Items come out in the order in which their compare-and-swaps succeeded, each
\* once, none is lost, for any number of putters and getters.
THEOREM QueueIsFifo == QueueSpec => ImplementsFifo
<1>1. QueueInit => TheFifo!FifoInit
    BY ConcatEmptySeq DEF QueueInit, TheFifo!FifoInit
<1>2. QueueSpec => []QueueInv
    BY InitInv, StepInv, PTL DEF QueueSpec
<1>3. QueueInv /\ [QueueNext]_queue => [TheFifo!FifoNext]_(midF \o outF \o inF)
    BY QueueStepRefines DEF Whole
<1> QED BY <1>1, <1>2, <1>3, PTL DEF QueueSpec, ImplementsFifo, TheFifo!FifoSpec

-----------------------------------------------------------------------------
(* The driver.                                                             *)

Names == (0..Versions - 1) \X Inodes
Records == [start : Nat, inode : Inodes]
Scans == [item : Nat, held : SUBSET Nat, begun : Nat]

\* The variables of the driver have their types; an item's number is one.
DriverTypes ==
    /\ ssvd_free_list \in Seq(Slots) /\ flying \subseteq Slots
    /\ ops \in 0..MaxOps
    /\ tpc \in {"loop", "look", "put", "join", "closed"}
    /\ started \in Nat /\ items \in Seq(Records)
    /\ tmpfs \in [Names -> SUBSET Nat]
    /\ spc \in {"get", "scan", "sleep"}
    /\ opened \in Seq(Scans)
    /\ failed \in BOOLEAN

\* The copies were begun in the order in which they are numbered.
CopiesInOrder ==
    /\ 1..Len(items) \subseteq Items
    /\ \A n \in 1..Len(items) : items[n].start < started
    /\ \A m, n \in 1..Len(items) : m < n => items[m].start < items[n].start

\* The items the scanner has taken, and those tapdisk's thread has put in.
Taken == Len(opened) + (IF item = NULL THEN 0 ELSE 1)
PutIn == Len(items) - (IF tpc = "put" THEN 1 ELSE 0)

\* Between them the queue holds the items in the order of their numbers; the
\* one that is being put in is the last, the one being scanned comes next to
\* those that have been.
ItemsInOrder ==
    /\ Len(Whole) = PutIn - Taken
    /\ \A k \in 1..Len(Whole) : Whole[k] = Taken + k
    /\ tpc = "put" => Len(items) > 0
    /\ putting[tapdisk].item # NULL =>
          tpc = "put" /\ putting[tapdisk].item = Len(items)
    /\ spc = "scan" <=> item # NULL
    /\ item # NULL => item = Len(opened) + 1
    /\ \A k \in 1..Len(opened) : opened[k].item = k

\* A file holds copies of its name only, and none that has been scanned, until
\* a scan leaves its file behind.
FilesFresh ==
    \A name \in Names : \A n \in tmpfs[name] :
        /\ n \in 1..Len(items) /\ NameOf(items[n]) = name
        /\ n > Len(opened) \/ failed

HeldKnown == \A k \in 1..Len(opened) : opened[k].held \subseteq 1..Len(items)

DriverInv ==
    /\ QueueInv /\ CacheInv /\ DriverTypes /\ SlotsAccounted
    /\ CopiesInOrder /\ ItemsInOrder /\ FilesFresh /\ HeldKnown
    /\ ScannedAsCopied
-----------------------------------------------------------------------------
(* What the steps touch.                                                   *)

\* A step that neither copies, nor scans, nor touches the queue.
Quiet ==
    /\ UNCHANGED <<queue, copies, item, opened, failed>>
    /\ tpc' = "put" <=> tpc = "put"
    /\ spc' = "scan" <=> spc = "scan"
    /\ ops' = ops \/ Looking
    /\ tpc' = tpc \/ tpc' \in {"loop", "look", "join", "closed"}
    /\ spc' = spc \/ spc' = "get"
    /\ \/ UNCHANGED <<ssvd_free_list, flying>>
       \/ QueueRequest
       \/ \E s \in Slots, err \in BOOLEAN : Complete(s, err)

\* The steps of the driver, those that are about items apart.
LEMMA Steps ==
    [Next]_vars =>
        \/ Quiet
        \/ \E i \in Inodes : CopyInode(i) \/ \E w \in BOOLEAN : CopyFails(i, w)
        \/ PutItem
        \/ GetItem
        \/ \E ok \in BOOLEAN : ScanVirus(ok)
<1> SUFFICES ASSUME [Next]_vars
             PROVE  \/ Quiet
                    \/ \E i \in Inodes :
                          CopyInode(i) \/ \E w \in BOOLEAN : CopyFails(i, w)
                    \/ PutItem
                    \/ GetItem
                    \/ \E ok \in BOOLEAN : ScanVirus(ok)
    OBVIOUS
<1>1. UNCHANGED vars => Quiet
    BY DEF vars, copies, scanvars, driver, Quiet
<1>2. QueueRequest => Quiet
    BY DEF QueueRequest, copies, scanvars, Quiet
<1>3. ASSUME NEW s \in Slots, NEW err \in BOOLEAN, Complete(s, err)
      PROVE  Quiet
    BY <1>3 DEF Complete, copies, scanvars, Quiet
<1>4. ASSUME NEW x \in Blocks, ForgetBlock(x) \/ StoreBlock(x)
      PROVE  Quiet
    BY <1>4 DEF ForgetBlock, StoreBlock, copies, scanvars, driver, Quiet
<1>5. Close \/ Looked \/ Joined => Quiet
    BY DEF Close, Looked, Joined, copies, scanvars, Quiet
<1>6. Wake => Quiet
    BY DEF Wake, copies, driver, Quiet
<1>7. ASSUME NEW c \in Clients,
             EndControl \/ Serve(c) \/ Connect(c) \/ Disconnect(c)
      PROVE  Quiet
    BY <1>7 DEF EndControl, Serve, StartReading, Command, Drop, Connect,
                Disconnect, unchangedByControl, copies, scanvars, driver, Quiet
<1>8. EndControl => Quiet
    BY DEF EndControl, unchangedByControl, copies, scanvars, driver, Quiet
<1>9. CASE Tapdisk
    BY <1>2, <1>3, <1>4, <1>5, <1>9 DEF Tapdisk, Finish
<1>10. CASE Scanner
    BY <1>6, <1>10 DEF Scanner
<1> QED BY <1>1, <1>7, <1>8, <1>9, <1>10 DEF Next

\* The cache: what tapdisk's thread does with it is an operation of the cache.
LEMMA CacheSteps ==
    ASSUME DriverInv, [Next]_vars
    PROVE  [CacheNext]_cache
<1>1. UNCHANGED vars => UNCHANGED cache
    BY DEF vars
<1>2. ASSUME NEW x \in Blocks, ForgetBlock(x) \/ StoreBlock(x)
      PROVE  CacheNext
  <2>1. ops' \in Contents \/ ~StoreBlock(x)
    BY SsvdDriverAssumption
       DEF StoreBlock, Looking, DriverInv, DriverTypes
  <2> QED BY <1>2, <2>1 DEF ForgetBlock, StoreBlock, CacheNext
<1>3. CASE Tapdisk
    BY <1>2, <1>3
    DEF Tapdisk, QueueRequest, Complete, CopyInode, CopyFails, Close, Finish,
        PutItem, Looked, Joined
<1>4. CASE Scanner
    BY <1>4 DEF Scanner, GetItem, Wake, ScanVirus
<1>5. ASSUME NEW c \in Clients,
             EndControl \/ Serve(c) \/ Connect(c) \/ Disconnect(c)
      PROVE  UNCHANGED cache
    BY <1>5 DEF EndControl, Serve, StartReading, Command, Drop, Connect,
                Disconnect, unchangedByControl
<1>6. EndControl => UNCHANGED cache
    BY DEF EndControl, unchangedByControl
<1> QED BY <1>1, <1>3, <1>4, <1>5, <1>6 DEF Next

\* The invariant of the driver holds at first.
LEMMA DriverStarts == Init => DriverInv
<1> SUFFICES ASSUME Init PROVE DriverInv
    OBVIOUS
<1>1. QueueInv /\ CacheInv
    BY InitInv, CacheStarts DEF Init
<1>2. MAX_SSVD_AIO_REQS \in Nat /\ Versions \in Nat /\ Versions > 0 /\ MaxOps \in Nat
    BY SsvdDriverAssumption
<1>3. DriverTypes
  <2>1. ssvd_free_list \in Seq(Slots)
    BY <1>2 DEF Init, Slots
  <2>2. tmpfs \in [Names -> SUBSET Nat]
    BY DEF Init, Names
  <2>3. items \in Seq(Records) /\ opened \in Seq(Scans)
    BY DEF Init
  <2>4. started \in Nat /\ ops \in 0..MaxOps
    BY <1>2 DEF Init
  <2>5. flying \subseteq Slots /\ failed \in BOOLEAN /\ tpc = "loop" /\ spc = "get"
    BY DEF Init
  <2> QED BY <2>1, <2>2, <2>3, <2>4, <2>5 DEF DriverTypes
<1>4. SlotsAccounted
    BY DEF Init, SlotsAccounted
<1>5. Len(items) = 0 /\ Len(opened) = 0 /\ DOMAIN opened = {} /\ Len(Whole) = 0
  <2>1. midF = <<>> /\ outF = <<>> /\ inF = <<>>
    BY DEF Init, QueueInit
  <2>2. Whole = <<>>
    BY <2>1, ConcatEmptySeq DEF Whole
  <2> QED BY <2>2 DEF Init
<1>6. CopiesInOrder
    BY <1>5 DEF CopiesInOrder
<1>7. ItemsInOrder
    BY <1>5, SsvdDriverAssumption
    DEF ItemsInOrder, Init, QueueInit, Idle, PutIn, Taken
<1>8. FilesFresh
    BY DEF FilesFresh, Init, Names
<1>9. HeldKnown /\ ScannedAsCopied
    BY <1>5 DEF HeldKnown, ScannedAsCopied
<1> QED BY <1>1, <1>3, <1>4, <1>6, <1>7, <1>8, <1>9 DEF DriverInv

\* The first n places of a sequence.
LEMMA FirstFacts ==
    ASSUME NEW S, NEW s \in Seq(S), NEW n \in Nat, n <= Len(s)
    PROVE  /\ SubSeq(s, 1, n) \in Seq(S) /\ Len(SubSeq(s, 1, n)) = n
           /\ \A k \in 1..n : SubSeq(s, 1, n)[k] = s[k]
OBVIOUS

\* A slot that is taken was free, one that is given back was in use.
LEMMA SlotsStep ==
    ASSUME DriverTypes, SlotsAccounted,
           \/ UNCHANGED <<ssvd_free_list, flying>>
           \/ QueueRequest
           \/ \E s \in Slots, err \in BOOLEAN : Complete(s, err)
    PROVE  /\ ssvd_free_list' \in Seq(Slots) /\ (flying \subseteq Slots)'
           /\ SlotsAccounted'
<1> DEFINE l == ssvd_free_list
<1>0. /\ l \in Seq(Slots) /\ Len(l) \in Nat
      /\ \A k \in 1..Len(l) : l[k] \in Slots
    BY DEF DriverTypes
<1>1. /\ l \in Seq(Slots) /\ flying \subseteq Slots /\ Len(l) \in Nat
      /\ DOMAIN l = 1..Len(l)
      /\ \A k \in 1..Len(l) : l[k] \in Slots
      /\ \A j, k \in 1..Len(l) : l[j] = l[k] => j = k
      /\ {l[k] : k \in 1..Len(l)} = Slots \ flying
    BY <1>0 DEF DriverTypes, SlotsAccounted
<1>2. CASE UNCHANGED <<ssvd_free_list, flying>>
    BY <1>1, <1>2 DEF SlotsAccounted
<1>3. CASE QueueRequest
  <2>1. CASE l = <<>>
    BY <1>2, <1>3, <2>1 DEF QueueRequest
  <2>2. CASE l # <<>>
    <3>1. Len(l) > 0
      BY <1>1, <2>2
    <3>2. /\ ssvd_free_list' = SubSeq(l, 1, Len(l) - 1)
          /\ flying' = flying \cup {l[Len(l)]}
      BY <1>3, <2>2 DEF QueueRequest
    <3>3. /\ ssvd_free_list' \in Seq(Slots)
          /\ Len(ssvd_free_list') = Len(l) - 1
          /\ DOMAIN ssvd_free_list' = 1..Len(l) - 1
          /\ \A k \in 1..Len(l) - 1 : ssvd_free_list'[k] = l[k]
      <4>1. PICK n \in Nat : n = Len(l) - 1
        BY <1>0, <3>1
      <4>2. PICK t : t = SubSeq(l, 1, n)
        OBVIOUS
      <4>3. /\ t \in Seq(Slots) /\ Len(t) = n /\ DOMAIN t = 1..n
            /\ \A k \in 1..n : t[k] = l[k]
        <5>1. n <= Len(l)
          BY <1>0, <4>1
        <5>2. /\ t \in Seq(Slots) /\ Len(t) = n
              /\ \A k \in 1..n : t[k] = l[k]
          <6> HIDE DEF l
          <6> QED BY <1>0, <4>2, <5>1, FirstFacts
        <5> QED BY <5>2
      <4> QED BY <3>2, <4>1, <4>2, <4>3
    <3>4. \A k \in 1..Len(l) : k \in 1..Len(l) - 1 \/ k = Len(l)
      BY <1>0
    <3>5. 1..Len(l) - 1 \subseteq 1..Len(l) /\ Len(l) \in 1..Len(l)
          /\ Len(l) \notin 1..Len(l) - 1
      BY <1>0, <3>1
    <3> HIDE DEF l
    <3>6. {ssvd_free_list'[k] : k \in 1..Len(l) - 1} = Slots \ flying'
      <4>1. {ssvd_free_list'[k] : k \in 1..Len(l) - 1}
              = {l[k] : k \in 1..Len(l) - 1}
        BY <3>3
      <4>2. \A k \in 1..Len(l) - 1 : l[k] # l[Len(l)]
        BY <1>1, <3>5
      <4>3. \A s : s \in {l[k] : k \in 1..Len(l)} <=>
                      s \in {l[k] : k \in 1..Len(l) - 1} \/ s = l[Len(l)]
        BY <3>4, <3>5
      <4> QED BY <1>1, <3>2, <4>1, <4>2, <4>3
    <3>7. (flying \subseteq Slots)'
      BY <1>1, <3>2, <3>5
    <3> QED BY <1>1, <3>3, <3>5, <3>6, <3>7 DEF SlotsAccounted
  <2> QED BY <2>1, <2>2
<1>4. ASSUME NEW s \in Slots, NEW err \in BOOLEAN, Complete(s, err)
      PROVE  /\ ssvd_free_list' \in Seq(Slots) /\ (flying \subseteq Slots)'
             /\ SlotsAccounted'
  <2>1. /\ s \in flying /\ flying' = flying \ {s}
        /\ ssvd_free_list' = Append(l, s)
    BY <1>4 DEF Complete
  <2>2. /\ ssvd_free_list' \in Seq(Slots) /\ Len(ssvd_free_list') = Len(l) + 1
        /\ DOMAIN ssvd_free_list' = 1..Len(l) + 1
        /\ ssvd_free_list'[Len(l) + 1] = s
        /\ \A k \in 1..Len(l) : ssvd_free_list'[k] = l[k]
    BY <1>0, <2>1
  <2>3. /\ \A k \in 1..Len(l) + 1 : k \in 1..Len(l) \/ k = Len(l) + 1
        /\ 1..Len(l) \subseteq 1..Len(l) + 1 /\ Len(l) + 1 \in 1..Len(l) + 1
    BY <1>0
  <2>4. \A k \in 1..Len(l) : l[k] # s
    BY <1>1, <2>1
  <2> HIDE DEF l
  <2>5. \A j, k \in 1..Len(l) + 1 :
           ssvd_free_list'[j] = ssvd_free_list'[k] => j = k
    BY <1>1, <2>2, <2>3, <2>4
  <2>6. {ssvd_free_list'[k] : k \in 1..Len(l) + 1} = Slots \ flying'
    BY <1>1, <2>1, <2>2, <2>3
  <2> QED BY <1>1, <2>1, <2>2, <2>5, <2>6 DEF SlotsAccounted
<1> QED BY <1>2, <1>3, <1>4

\* queue_put is called with an item that is in no list and that no other
\* thread is putting in.
LEMMA ItemUnused ==
    ASSUME DriverInv, tpc = "put", putting[tapdisk].item = NULL
    PROVE  Len(items) \in Items /\ Unused(Len(items))
<1>1. /\ Len(items) \in Nat /\ Len(items) > 0 /\ Len(items) \in Items
      /\ Len(opened) \in Nat
    BY DEF DriverInv, DriverTypes, CopiesInOrder, ItemsInOrder
<1>2. \A p \in Putters : putting[p].item # Len(items)
    BY <1>1, SsvdDriverAssumption DEF NULL
<1>3. /\ midF \in Seq(Items) /\ outF \in Seq(Items) /\ inF \in Seq(Items)
    BY DEF DriverInv, QueueInv, QueueTypes
<1>4. /\ Len(midF) \in Nat /\ Len(outF) \in Nat /\ Len(inF) \in Nat
      /\ DOMAIN midF = 1..Len(midF) /\ DOMAIN outF = 1..Len(outF)
      /\ DOMAIN inF = 1..Len(inF)
    BY <1>3
<1>5. \A k \in 1..Len(Whole) : Whole[k] # Len(items)
  <2>1. Len(Whole) = Len(items) - 1 - Taken /\ Taken \in Nat
        /\ \A k \in 1..Len(Whole) : Whole[k] = Taken + k
    BY <1>1 DEF DriverInv, ItemsInOrder, PutIn, Taken
  <2> QED BY <1>1, <2>1
<1>6. /\ Len(Whole) = Len(midF) + Len(outF) + Len(inF)
      /\ \A k \in 1..Len(midF) : Whole[k] = midF[k]
      /\ \A k \in 1..Len(outF) : Whole[Len(midF) + k] = outF[k]
      /\ \A k \in 1..Len(inF) : Whole[Len(midF) + Len(outF) + k] = inF[k]
  <2>1. PICK mo : mo = midF \o outF
    OBVIOUS
  <2>2. /\ mo \in Seq(Items) /\ Len(mo) = Len(midF) + Len(outF)
        /\ \A k \in 1..Len(midF) : mo[k] = midF[k]
        /\ \A k \in 1..Len(outF) : mo[Len(midF) + k] = outF[k]
    BY <1>3, <1>4, <2>1
  <2>3. /\ Whole = mo \o inF /\ Len(Whole) = Len(mo) + Len(inF)
        /\ \A k \in 1..Len(mo) : Whole[k] = mo[k]
        /\ \A k \in 1..Len(inF) : Whole[Len(mo) + k] = inF[k]
    BY <1>3, <1>4, <2>1, <2>2 DEF Whole
  <2> QED BY <1>4, <2>2, <2>3
<1>7. /\ \A k \in 1..Len(midF) : midF[k] # Len(items)
      /\ \A k \in 1..Len(outF) : outF[k] # Len(items)
      /\ \A k \in 1..Len(inF) : inF[k] # Len(items)
  <2>1. /\ \A k \in 1..Len(midF) : k \in 1..Len(Whole)
        /\ \A k \in 1..Len(outF) : Len(midF) + k \in 1..Len(Whole)
        /\ \A k \in 1..Len(inF) : Len(midF) + Len(outF) + k \in 1..Len(Whole)
    BY <1>4, <1>6
  <2> QED BY <1>5, <1>6, <2>1
<1>8. Unused(Len(items))
    BY <1>2, <1>4, <1>7 DEF Unused
<1> QED BY <1>1, <1>8

\* queue_put and queue_get as the driver's threads call them are steps of
\* the queue.
LEMMA QueueSteps ==
    ASSUME DriverInv, [Next]_vars
    PROVE  [QueueNext]_queue
<1>1. CASE Quiet
    BY <1>1 DEF Quiet
<1>2. ASSUME NEW i \in Inodes,
             CopyInode(i) \/ \E w \in BOOLEAN : CopyFails(i, w)
      PROVE  UNCHANGED queue
    BY <1>2 DEF CopyInode, CopyFails
<1>3. CASE PutItem
  <2>1. tapdisk \in Putters
    BY SsvdDriverAssumption
  <2>2. ASSUME tpc = "put", putting[tapdisk].item = NULL,
               Link(tapdisk, Len(items))
        PROVE  QueueNext
    BY <2>1, <2>2, ItemUnused DEF QueueNext
  <2> QED BY <1>3, <2>1, <2>2 DEF PutItem, QueueNext
<1>4. CASE GetItem
  <2>1. scanner \in Getters
    BY SsvdDriverAssumption
  <2> QED BY <1>4, <2>1 DEF GetItem, QueueNext
<1>5. ASSUME NEW ok \in BOOLEAN, ScanVirus(ok)
      PROVE  UNCHANGED queue
    BY <1>5 DEF ScanVirus
<1> QED BY <1>1, <1>2, <1>3, <1>4, <1>5, Steps

\* The number in a file's name is less than the number of versions.
LEMMA VersionOf == \A n \in Nat : n % Versions \in 0..Versions - 1
BY SsvdDriverAssumption

\* Division with remainder.
LEMMA DivMod ==
    ASSUME NEW a \in Nat, NEW v \in Nat \ {0}
    PROVE  /\ a \div v \in Nat /\ a % v \in 0..v - 1
           /\ a = v * (a \div v) + (a % v)
<1>1. a - (a % v) = v * (a \div v)
    OBVIOUS
<1>2. a \div v \in Nat /\ a % v \in 0..v - 1
    OBVIOUS
<1> QED BY <1>1, <1>2

\* Two copies of one name: the later was begun a whole round of versions later.
LEMMA ComesRound ==
    ASSUME NEW a \in Nat, NEW b \in Nat, a % Versions = b % Versions, a < b
    PROVE  b >= a + Versions
<1>1. PICK v \in Nat \ {0} : v = Versions
    BY SsvdDriverAssumption
<1>2. PICK p \in Nat, q \in Nat, c \in 0..v - 1 :
         a = v * p + c /\ b = v * q + c
  <2>1. /\ a \div v \in Nat /\ b \div v \in Nat /\ a % v \in 0..v - 1
        /\ a = v * (a \div v) + (a % v) /\ b = v * (b \div v) + (b % v)
    BY DivMod
  <2> QED BY <1>1, <2>1
<1>3. q > p
  <2> SUFFICES ASSUME q <= p PROVE FALSE
    BY <1>2
  <2>1. v * q <= v * p
    BY <1>1, <1>2
  <2> QED BY <1>2, <2>1
<1>4. v * q >= v * (p + 1) /\ v * (p + 1) = v * p + v
    BY <1>1, <1>2, <1>3
<1> QED BY <1>1, <1>2, <1>4

\* Every copy has the name of a file.
LEMMA NameIs ==
    ASSUME NEW it \in Records PROVE NameOf(it) \in Names
<1>1. it.start \in Nat /\ it.inode \in Inodes
    BY DEF Records
<1> QED BY <1>1, VersionOf DEF NameOf, Names

\* What the scanner scans is an item that has been put in.
LEMMA ScannedItem ==
    ASSUME DriverInv
    PROVE  /\ Len(opened) \in Nat /\ Len(items) \in Nat /\ Len(Whole) \in Nat
           /\ Whole \in Seq(Items)
           /\ Taken \in Nat /\ PutIn \in Nat /\ PutIn <= Len(items)
           /\ Len(opened) <= Taken /\ Taken <= PutIn
           /\ item # NULL => /\ item \in 1..Len(items)
                             /\ NameOf(items[item]) \in Names
<1>1. Len(opened) \in Nat /\ Len(items) \in Nat /\ items \in Seq(Records)
    BY DEF DriverInv, DriverTypes
<1>2. Whole \in Seq(Items) /\ Len(Whole) \in Nat
    BY DEF Whole, DriverInv, QueueInv, QueueTypes
<1>3. Taken \in Nat /\ PutIn \in Nat /\ PutIn <= Len(items) /\ Len(opened) <= Taken
    BY <1>1 DEF Taken, PutIn, DriverInv, ItemsInOrder
<1>4. Taken <= PutIn
    BY <1>2, <1>3 DEF DriverInv, ItemsInOrder
<1>5. ASSUME item # NULL
      PROVE  item \in 1..Len(items) /\ NameOf(items[item]) \in Names
  <2>1. item = Len(opened) + 1 /\ Taken = Len(opened) + 1
    BY <1>5 DEF DriverInv, ItemsInOrder, Taken
  <2>2. item \in 1..Len(items)
    BY <1>1, <1>3, <1>4, <2>1
  <2>3. items[item] \in Records
    BY <1>1, <2>2
  <2> QED BY <2>2, <2>3, NameIs
<1> QED BY <1>1, <1>2, <1>3, <1>4, <1>5

\* No step breaks the order of the items: the scanned ones, the one being
\* scanned, those in the queue, the one being put in.
LEMMA ItemsStep ==
    ASSUME DriverInv, [Next]_vars
    PROVE  ItemsInOrder'
<1>1. /\ Len(opened) \in Nat /\ Len(items) \in Nat /\ Len(Whole) \in Nat
      /\ Whole \in Seq(Items) /\ QueueInv
      /\ Taken \in Nat /\ PutIn \in Nat /\ Taken <= PutIn /\ PutIn <= Len(items)
    BY ScannedItem DEF DriverInv
<1>2. /\ Len(Whole) = PutIn - Taken
      /\ \A k \in 1..Len(Whole) : Whole[k] = Taken + k
      /\ tpc = "put" => Len(items) > 0
      /\ putting[tapdisk].item # NULL =>
            tpc = "put" /\ putting[tapdisk].item = Len(items)
      /\ spc = "scan" <=> item # NULL
      /\ item # NULL => item = Len(opened) + 1
      /\ \A k \in 1..Len(opened) : opened[k].item = k
    BY DEF DriverInv, ItemsInOrder
<1>3. tapdisk \in Putters /\ scanner \in Getters
    BY SsvdDriverAssumption
<1>4. CASE Quiet
  <2>1. Whole' = Whole /\ putting' = putting
    BY <1>1, <1>4, WholeStays DEF Quiet, queue
  <2>2. Taken' = Taken /\ PutIn' = PutIn
    BY <1>4 DEF Quiet, Taken, PutIn, copies
  <2> QED BY <1>2, <1>4, <2>1, <2>2 DEF ItemsInOrder, Quiet, copies
<1>5. ASSUME NEW i \in Inodes, CopyInode(i) PROVE ItemsInOrder'
  <2>1. /\ UNCHANGED queue /\ UNCHANGED <<spc, item, opened>>
        /\ tpc = "look" /\ tpc' = "put"
        /\ \E it : items' = Append(items, it)
    BY <1>5 DEF CopyInode, Looking, scanvars
  <2>2. Whole' = Whole /\ putting' = putting
    BY <1>1, <2>1, WholeStays DEF queue
  <2>3. Len(items') = Len(items) + 1
    BY <2>1 DEF DriverInv, DriverTypes
  <2>4. Taken' = Taken /\ PutIn' = PutIn
    BY <1>1, <2>1, <2>3 DEF Taken, PutIn
  <2> QED BY <1>1, <1>2, <2>1, <2>2, <2>3, <2>4 DEF ItemsInOrder
<1>6. ASSUME NEW i \in Inodes, NEW w \in BOOLEAN, CopyFails(i, w)
      PROVE  ItemsInOrder'
  <2>1. UNCHANGED queue /\ UNCHANGED <<spc, item, opened, tpc, items>>
    BY <1>6 DEF CopyFails, scanvars, driver
  <2>2. Whole' = Whole /\ putting' = putting
    BY <1>1, <2>1, WholeStays DEF queue
  <2>3. Taken' = Taken /\ PutIn' = PutIn
    BY <2>1 DEF Taken, PutIn
  <2> QED BY <1>2, <2>1, <2>2, <2>3 DEF ItemsInOrder
<1>7. CASE PutItem
  <2>1. /\ tpc = "put" /\ UNCHANGED <<items, spc, item, opened>>
        /\ Taken' = Taken
    BY <1>7 DEF PutItem, copies, scanvars, Taken
  <2>2. CASE Push(tapdisk) /\ tpc' = "look"
    <3>1. /\ Whole' = Append(Whole, putting[tapdisk].item)
          /\ putting[tapdisk].item \in Items
      BY <1>1, <1>3, <2>2, WholePushed
    <3>2. putting[tapdisk].item = Len(items)
      BY <1>2, <2>2 DEF Push
    <3>3. /\ Len(Whole') = Len(Whole) + 1
          /\ Whole'[Len(Whole) + 1] = Len(items)
          /\ \A k \in 1..Len(Whole) : Whole'[k] = Whole[k]
      BY <1>1, <3>1, <3>2
    <3>4. PutIn' = PutIn + 1 /\ PutIn = Len(items) - 1
      BY <1>1, <2>1, <2>2 DEF PutIn
    <3>5. Len(Whole') = PutIn' - Taken'
      BY <1>1, <1>2, <2>1, <3>3, <3>4
    <3>6. \A k \in 1..Len(Whole') : Whole'[k] = Taken' + k
      <4>1. \A k \in 1..Len(Whole') : k \in 1..Len(Whole) \/ k = Len(Whole) + 1
        BY <1>1, <3>3
      <4>2. Len(items) = Taken + (Len(Whole) + 1)
        BY <1>1, <1>2, <3>4
      <4> QED BY <1>2, <2>1, <3>3, <4>1, <4>2
    <3>7. putting'[tapdisk].item = NULL
      BY <1>1, <1>3, <2>2 DEF Push, Idle, QueueInv, QueueTypes
    <3> QED BY <1>2, <2>1, <2>2, <3>5, <3>6, <3>7 DEF ItemsInOrder
  <2>3. ASSUME tpc' = tpc, Link(tapdisk, Len(items)), Len(items) \in Items
        PROVE  ItemsInOrder'
    <3>1. Whole' = Whole
      BY <1>1, <1>3, <2>3, WholeStays
    <3>2. putting'[tapdisk].item = Len(items)
      BY <1>1, <1>3, <2>3 DEF Link, QueueInv, QueueTypes
    <3>3. PutIn' = PutIn
      BY <2>1, <2>3 DEF PutIn
    <3> QED BY <1>2, <2>1, <2>3, <3>1, <3>2, <3>3 DEF ItemsInOrder
  <2>4. Len(items) \in Items
    BY <1>1, <1>2, <2>1 DEF DriverInv, CopiesInOrder
  <2>5. Relink(tapdisk) => Link(tapdisk, Len(items))
    BY <1>2 DEF Relink
  <2> QED BY <1>7, <2>2, <2>3, <2>4, <2>5 DEF PutItem
<1>8. CASE GetItem
  <2>1. /\ spc = "get" /\ item = NULL /\ UNCHANGED <<items, opened, tpc>>
        /\ PutIn' = PutIn
    BY <1>2, <1>8 DEF GetItem, copies, driver, PutIn
  <2>2. UNCHANGED putting
    BY <1>8 DEF GetItem, Lock, GetStep, ReadIn, TakeIn, TakeFails, TurnRound,
                Turned, PopOut, PopNothing
  <2>3. CASE PopOut(scanner) /\ item' = out_queue /\ spc' = "scan"
    <3>1. Whole # <<>> /\ Whole' = Tail(Whole) /\ Whole[1] = out_queue
      BY <1>1, <1>3, <2>3, WholePopped
    <3>2. /\ Len(Whole) > 0 /\ Len(Whole') = Len(Whole) - 1
          /\ \A k \in 1..Len(Whole) - 1 : Whole'[k] = Whole[k + 1]
      BY <1>1, <3>1
    <3>3. Taken = Len(opened)
      BY <1>1, <2>1 DEF Taken
    <3>4. item' = Len(opened) + 1
      <4>1. 1 \in 1..Len(Whole)
        BY <1>1, <3>2
      <4> QED BY <1>2, <2>3, <3>1, <3>3, <4>1
    <3>5. item' # NULL /\ Taken' = Taken + 1
      BY <1>1, <2>1, <3>3, <3>4 DEF Taken, NULL
    <3>6. Len(Whole') = PutIn' - Taken'
      BY <1>1, <1>2, <2>1, <3>2, <3>5
    <3>7. \A k \in 1..Len(Whole') : Whole'[k] = Taken' + k
      <4>1. \A k \in 1..Len(Whole') : k + 1 \in 1..Len(Whole)
        BY <1>1, <3>2
      <4>2. \A k \in 1..Len(Whole') : Taken + (k + 1) = Taken' + k
        BY <1>1, <3>2, <3>5
      <4> QED BY <1>2, <3>2, <4>1, <4>2
    <3> QED BY <1>2, <2>1, <2>2, <2>3, <3>4, <3>5, <3>6, <3>7 DEF ItemsInOrder
  <2>4. CASE /\ Lock(scanner) \/ GetStep(scanner) \/ PopNothing(scanner)
             /\ item' = item /\ spc' \in {"get", "sleep"}
    <3>1. Whole' = Whole
      BY <1>1, <1>3, <2>4, WholeStays
    <3>2. Taken' = Taken
      BY <2>1, <2>4 DEF Taken
    <3> QED BY <1>2, <2>1, <2>2, <2>4, <3>1, <3>2 DEF ItemsInOrder
  <2> QED BY <1>8, <2>1, <2>3, <2>4 DEF GetItem
<1>9. ASSUME NEW ok \in BOOLEAN, ScanVirus(ok) PROVE ItemsInOrder'
  <2>1. /\ spc = "scan" /\ spc' = "get" /\ item' = NULL
        /\ UNCHANGED queue /\ UNCHANGED <<tpc, items>>
        /\ opened' = Append(opened, [item |-> item,
                                     held |-> tmpfs[NameOf(items[item])],
                                     begun |-> started])
    BY <1>9 DEF ScanVirus, driver
  <2>2. Whole' = Whole /\ putting' = putting /\ PutIn' = PutIn
    BY <1>1, <2>1, WholeStays DEF queue, PutIn
  <2>3. item # NULL /\ item = Len(opened) + 1
    BY <1>2, <2>1
  <2>4. /\ Len(opened') = Len(opened) + 1
        /\ opened'[Len(opened) + 1].item = item
        /\ \A k \in 1..Len(opened) : opened'[k] = opened[k]
    BY <1>1, <2>1 DEF DriverInv, DriverTypes
  <2>5. Taken' = Taken
    BY <1>1, <2>1, <2>3, <2>4 DEF Taken
  <2>6. \A k \in 1..Len(opened') : opened'[k].item = k
    <3>1. \A k \in 1..Len(opened') : k \in 1..Len(opened) \/ k = Len(opened) + 1
      BY <1>1, <2>4
    <3> QED BY <1>2, <2>3, <2>4, <3>1
  <2> QED BY <1>2, <2>1, <2>2, <2>5, <2>6 DEF ItemsInOrder
<1> QED BY <1>4, <1>5, <1>6, <1>7, <1>8, <1>9, Steps

\* What a copy adds.
LEMMA CopyAdds ==
    ASSUME DriverInv, NEW i \in Inodes, CopyInode(i)
    PROVE  \E it \in Records :
              /\ it.start = started /\ NameOf(it) \in Names
              /\ items' = Append(items, it) /\ items' \in Seq(Records)
              /\ Len(items') = Len(items) + 1 /\ Len(items) + 1 \in Items
              /\ items'[Len(items) + 1] = it
              /\ \A n \in 1..Len(items) : items'[n] = items[n]
              /\ tmpfs' = [tmpfs EXCEPT ![NameOf(it)] = @ \cup {Len(items) + 1}]
              /\ started' = started + 1
<1>1. started \in Nat /\ items \in Seq(Records)
    BY DEF DriverInv, DriverTypes
<1>2. PICK it : it = [start |-> started, inode |-> i]
    OBVIOUS
<1>3. it \in Records /\ it.start = started
    BY <1>1, <1>2 DEF Records
<1>4. /\ items' = Append(items, it) /\ Len(items) + 1 \in Items
      /\ tmpfs' = [tmpfs EXCEPT ![NameOf(it)] = @ \cup {Len(items) + 1}]
      /\ started' = started + 1
    BY <1>2 DEF CopyInode
<1>5. /\ items' \in Seq(Records) /\ Len(items') = Len(items) + 1
      /\ items'[Len(items) + 1] = it
      /\ \A n \in 1..Len(items) : items'[n] = items[n]
    BY <1>1, <1>3, <1>4
<1>6. NameOf(it) \in Names
    BY <1>3, NameIs
<1> QED BY <1>3, <1>4, <1>5, <1>6

\* No step breaks the types or loses a slot.
LEMMA TypesStep ==
    ASSUME DriverInv, [Next]_vars
    PROVE  DriverTypes' /\ SlotsAccounted'
<1>1. DriverTypes /\ SlotsAccounted /\ MaxOps \in Nat
    BY SsvdDriverAssumption DEF DriverInv
<1>2. CASE Quiet
  <2>1. /\ ssvd_free_list' \in Seq(Slots) /\ (flying \subseteq Slots)'
        /\ SlotsAccounted'
    BY <1>1, <1>2, SlotsStep DEF Quiet
  <2>2. ops' \in 0..MaxOps
    BY <1>1, <1>2 DEF Quiet, DriverTypes, Looking
  <2> QED BY <1>1, <1>2, <2>1, <2>2 DEF Quiet, DriverTypes, copies
<1>3. ASSUME UNCHANGED <<ssvd_free_list, flying>>
      PROVE  /\ ssvd_free_list' \in Seq(Slots) /\ (flying \subseteq Slots)'
             /\ SlotsAccounted'
    BY <1>1, <1>3, SlotsStep
<1>4. ASSUME NEW i \in Inodes, CopyInode(i)
      PROVE  DriverTypes' /\ SlotsAccounted'
  <2>1. PICK it \in Records :
           /\ NameOf(it) \in Names /\ items' \in Seq(Records)
           /\ tmpfs' = [tmpfs EXCEPT ![NameOf(it)] = @ \cup {Len(items) + 1}]
           /\ started' = started + 1
    BY <1>4, CopyAdds
  <2>2. tmpfs' \in [Names -> SUBSET Nat]
    <3>1. Len(items) + 1 \in Nat /\ tmpfs \in [Names -> SUBSET Nat]
      BY <1>1 DEF DriverTypes
    <3> QED BY <2>1, <3>1
  <2>3. ops' \in 0..MaxOps /\ tpc' = "put" /\ UNCHANGED <<spc, opened, failed>>
        /\ UNCHANGED <<ssvd_free_list, flying>>
    BY <1>1, <1>4 DEF CopyInode, Looking, DriverTypes, scanvars
  <2> QED BY <1>1, <1>3, <2>1, <2>2, <2>3 DEF DriverTypes
<1>5. ASSUME NEW i \in Inodes, NEW w \in BOOLEAN, CopyFails(i, w)
      PROVE  DriverTypes' /\ SlotsAccounted'
  <2>1. \E n : tmpfs' = [tmpfs EXCEPT ![n] = {}] \/ tmpfs' = tmpfs
    BY <1>5 DEF CopyFails
  <2>2. tmpfs' \in [Names -> SUBSET Nat]
    BY <1>1, <2>1 DEF DriverTypes
  <2>3. /\ ops' \in 0..MaxOps /\ started' \in Nat
        /\ UNCHANGED <<tpc, items, spc, opened, failed>>
        /\ UNCHANGED <<ssvd_free_list, flying>>
    BY <1>1, <1>5 DEF CopyFails, Looking, DriverTypes, scanvars, driver
  <2> QED BY <1>1, <1>3, <2>2, <2>3 DEF DriverTypes
<1>6. CASE PutItem
  <2>1. /\ tpc' \in {tpc, "look"}
        /\ UNCHANGED <<ops, started, items, tmpfs, spc, opened, failed>>
        /\ UNCHANGED <<ssvd_free_list, flying>>
    BY <1>6 DEF PutItem, copies, scanvars
  <2> QED BY <1>1, <1>3, <2>1 DEF DriverTypes
<1>7. CASE GetItem
  <2>1. /\ spc' \in {spc, "scan", "sleep"}
        /\ UNCHANGED <<ops, tpc, started, items, tmpfs, opened, failed>>
        /\ UNCHANGED <<ssvd_free_list, flying>>
    BY <1>7 DEF GetItem, copies, driver
  <2> QED BY <1>1, <1>3, <2>1 DEF DriverTypes
<1>8. ASSUME NEW ok \in BOOLEAN, ScanVirus(ok)
      PROVE  DriverTypes' /\ SlotsAccounted'
  <2>1. PICK n : n = NameOf(items[item])
    OBVIOUS
  <2>2. /\ spc = "scan" /\ spc' = "get" /\ failed' \in BOOLEAN
        /\ tmpfs' = [tmpfs EXCEPT ![n] = {}] \/ tmpfs' = tmpfs
        /\ opened' = Append(opened, [item |-> item, held |-> tmpfs[n],
                                     begun |-> started])
        /\ UNCHANGED <<ops, tpc, started, items>>
        /\ UNCHANGED <<ssvd_free_list, flying>>
    BY <1>1, <1>8, <2>1 DEF ScanVirus, driver, DriverTypes
  <2>3. item \in Nat /\ n \in Names
    <3>1. item # NULL
      BY <2>2 DEF DriverInv, ItemsInOrder
    <3> QED BY <2>1, <3>1, ScannedItem
  <2>4. tmpfs' \in [Names -> SUBSET Nat] /\ tmpfs[n] \in SUBSET Nat
    BY <1>1, <2>2, <2>3 DEF DriverTypes
  <2>5. opened' \in Seq(Scans)
    <3>1. [item |-> item, held |-> tmpfs[n], begun |-> started] \in Scans
      BY <1>1, <2>3, <2>4 DEF Scans, DriverTypes
    <3> QED BY <1>1, <2>2, <3>1 DEF DriverTypes
  <2> QED BY <1>1, <1>3, <2>2, <2>4, <2>5 DEF DriverTypes
<1> QED BY <1>2, <1>4, <1>5, <1>6, <1>7, <1>8, Steps

\* The steps that change copies, files or scans.
LEMMA OtherSteps ==
    ASSUME DriverInv, [Next]_vars
    PROVE  \/ UNCHANGED <<started, items, tmpfs, opened, failed>>
           \/ \E i \in Inodes :
                 CopyInode(i) \/ \E w \in BOOLEAN : CopyFails(i, w)
           \/ \E ok \in BOOLEAN : ScanVirus(ok)
BY Steps DEF Quiet, PutItem, GetItem, copies, scanvars

\* Copies stay numbered in the order in which they were begun.
LEMMA CopiesStep ==
    ASSUME DriverInv, [Next]_vars
    PROVE  CopiesInOrder'
<1>1. /\ Len(items) \in Nat /\ started \in Nat /\ items \in Seq(Records)
      /\ 1..Len(items) \subseteq Items
      /\ \A n \in 1..Len(items) : items[n].start < started
      /\ \A n \in 1..Len(items) : items[n].start \in Nat
      /\ \A m, n \in 1..Len(items) : m < n => items[m].start < items[n].start
  <2>1. items \in Seq(Records) /\ started \in Nat /\ CopiesInOrder
    BY DEF DriverInv, DriverTypes
  <2>2. /\ Len(items) \in Nat
        /\ \A n \in 1..Len(items) : items[n] \in Records
    BY <2>1
  <2>3. \A n \in 1..Len(items) : items[n].start \in Nat
    BY <2>2 DEF Records
  <2> QED BY <2>1, <2>2, <2>3 DEF CopiesInOrder
<1>2. CASE UNCHANGED <<started, items>>
    BY <1>1, <1>2 DEF CopiesInOrder
<1>3. ASSUME NEW i \in Inodes, CopyInode(i) PROVE CopiesInOrder'
  <2>1. PICK it \in Records :
           /\ it.start = started
           /\ Len(items') = Len(items) + 1 /\ Len(items) + 1 \in Items
           /\ items'[Len(items) + 1] = it
           /\ \A n \in 1..Len(items) : items'[n] = items[n]
           /\ started' = started + 1
    BY <1>3, CopyAdds
  <2>2. \A n \in 1..Len(items') : n \in 1..Len(items) \/ n = Len(items) + 1
    BY <1>1, <2>1
  <2>3. 1..Len(items') \subseteq Items
    BY <1>1, <2>1, <2>2
  <2>4. \A n \in 1..Len(items') : items'[n].start < started'
    BY <1>1, <2>1, <2>2
  <2>5. \A m, n \in 1..Len(items') : m < n => items'[m].start < items'[n].start
    <3> SUFFICES ASSUME NEW m \in 1..Len(items'), NEW n \in 1..Len(items'), m < n
                 PROVE  items'[m].start < items'[n].start
      OBVIOUS
    <3>1. m \in 1..Len(items)
      BY <1>1, <2>1, <2>2
    <3> QED BY <1>1, <2>1, <2>2, <3>1
  <2> QED BY <2>3, <2>4, <2>5 DEF CopiesInOrder
<1>4. ASSUME NEW i \in Inodes, NEW w \in BOOLEAN, CopyFails(i, w)
      PROVE  CopiesInOrder'
  <2>1. items' = items /\ started' = started + 1
    BY <1>4 DEF CopyFails
  <2> QED BY <1>1, <2>1 DEF CopiesInOrder
<1>5. ASSUME NEW ok \in BOOLEAN, ScanVirus(ok) PROVE CopiesInOrder'
  <2>1. UNCHANGED <<started, items>>
    BY <1>5 DEF ScanVirus
  <2> QED BY <1>2, <2>1
<1> QED BY <1>2, <1>3, <1>4, <1>5, OtherSteps

\* A file keeps to its name, and holds no copy that has been scanned.
LEMMA FilesStep ==
    ASSUME DriverInv, [Next]_vars
    PROVE  FilesFresh'
<1>1. /\ Len(items) \in Nat /\ Len(opened) \in Nat /\ Len(opened) <= Len(items)
      /\ tmpfs \in [Names -> SUBSET Nat]
    BY ScannedItem DEF DriverInv, DriverTypes
<1>2. \A name \in Names : \A n \in tmpfs[name] :
         /\ n \in 1..Len(items) /\ NameOf(items[n]) = name
         /\ n > Len(opened) \/ failed
    BY DEF DriverInv, FilesFresh
<1>3. CASE UNCHANGED <<items, tmpfs, opened, failed>>
    BY <1>2, <1>3 DEF FilesFresh
<1>4. ASSUME NEW i \in Inodes, CopyInode(i) PROVE FilesFresh'
  <2>1. PICK it \in Records :
           /\ NameOf(it) \in Names
           /\ Len(items') = Len(items) + 1
           /\ items'[Len(items) + 1] = it
           /\ \A n \in 1..Len(items) : items'[n] = items[n]
           /\ tmpfs' = [tmpfs EXCEPT ![NameOf(it)] = @ \cup {Len(items) + 1}]
    BY <1>4, CopyAdds
  <2>2. UNCHANGED <<opened, failed>>
    BY <1>4 DEF CopyInode, scanvars
  <2> SUFFICES ASSUME NEW name \in Names, NEW n \in tmpfs'[name]
               PROVE  /\ n \in 1..Len(items') /\ NameOf(items'[n]) = name
                      /\ n > Len(opened) \/ failed
    BY <2>2 DEF FilesFresh
  <2>3. n \in tmpfs[name] \/ (name = NameOf(it) /\ n = Len(items) + 1)
    BY <1>1, <2>1
  <2>4. CASE n \in tmpfs[name]
    <3>1. items'[n] = items[n] /\ n \in 1..Len(items')
      BY <1>1, <1>2, <2>1, <2>4
    <3> QED BY <1>2, <2>4, <3>1
  <2>5. CASE name = NameOf(it) /\ n = Len(items) + 1
    BY <1>1, <2>1, <2>5
  <2> QED BY <2>3, <2>4, <2>5
<1>5. ASSUME NEW i \in Inodes, NEW w \in BOOLEAN, CopyFails(i, w)
      PROVE  FilesFresh'
  <2>1. /\ \E m : tmpfs' = [tmpfs EXCEPT ![m] = {}] \/ tmpfs' = tmpfs
        /\ UNCHANGED <<items, opened, failed>>
    BY <1>5 DEF CopyFails, scanvars
  <2>2. \A name \in Names : tmpfs'[name] \subseteq tmpfs[name]
    BY <1>1, <2>1
  <2> QED BY <1>2, <2>1, <2>2 DEF FilesFresh
<1>6. ASSUME NEW ok \in BOOLEAN, ScanVirus(ok) PROVE FilesFresh'
  <2>1. PICK m : m = NameOf(items[item])
    OBVIOUS
  <2>2. /\ spc = "scan" /\ items' = items
        /\ tmpfs' = IF ok THEN [tmpfs EXCEPT ![m] = {}] ELSE tmpfs
        /\ failed' = (failed \/ ~ok)
        /\ \E it : opened' = Append(opened, it)
    BY <1>6, <2>1 DEF ScanVirus
  <2>3. item = Len(opened) + 1
    BY <2>2 DEF DriverInv, ItemsInOrder
  <2>4. Len(opened') = Len(opened) + 1
    BY <2>2 DEF DriverInv, DriverTypes
  <2> SUFFICES ASSUME NEW name \in Names, NEW n \in tmpfs'[name]
               PROVE  /\ n \in 1..Len(items) /\ NameOf(items[n]) = name
                      /\ n > Len(opened) + 1 \/ failed'
    BY <2>2, <2>4 DEF FilesFresh
  <2>5. n \in tmpfs[name] /\ (ok => name # m)
    BY <1>1, <2>2
  <2>6. n \in 1..Len(items) /\ NameOf(items[n]) = name /\ (n > Len(opened) \/ failed)
    BY <1>2, <2>5
  <2>7. CASE ok /\ ~failed
    <3>1. n # item
      BY <2>1, <2>5, <2>6, <2>7
    <3> QED BY <1>1, <2>3, <2>6, <2>7, <3>1
  <2>8. CASE ~ok \/ failed
    BY <2>2, <2>6, <2>8
  <2> QED BY <2>7, <2>8
<1> QED BY <1>3, <1>4, <1>5, <1>6, OtherSteps

\* What was scanned had been queued.
LEMMA HeldStep ==
    ASSUME DriverInv, [Next]_vars
    PROVE  HeldKnown'
<1>1. /\ Len(items) \in Nat /\ Len(opened) \in Nat
      /\ \A k \in 1..Len(opened) : opened[k].held \subseteq 1..Len(items)
    BY ScannedItem DEF DriverInv, HeldKnown
<1>2. CASE UNCHANGED <<items, opened>>
    BY <1>1, <1>2 DEF HeldKnown
<1>3. ASSUME NEW i \in Inodes, CopyInode(i) PROVE HeldKnown'
  <2>1. Len(items') = Len(items) + 1 /\ opened' = opened
    BY <1>3, CopyAdds DEF CopyInode, scanvars
  <2>2. 1..Len(items) \subseteq 1..Len(items')
    BY <1>1, <2>1
  <2> QED BY <1>1, <2>1, <2>2 DEF HeldKnown
<1>4. ASSUME NEW i \in Inodes, NEW w \in BOOLEAN, CopyFails(i, w)
      PROVE  UNCHANGED <<items, opened>>
    BY <1>4 DEF CopyFails, scanvars
<1>5. ASSUME NEW ok \in BOOLEAN, ScanVirus(ok) PROVE HeldKnown'
  <2>1. PICK name : name = NameOf(items[item])
    OBVIOUS
  <2>2. /\ spc = "scan" /\ items' = items
        /\ opened' = Append(opened, [item |-> item, held |-> tmpfs[name],
                                     begun |-> started])
    BY <1>5, <2>1 DEF ScanVirus
  <2>3. name \in Names
    <3>1. item # NULL
      BY <2>2 DEF DriverInv, ItemsInOrder
    <3> QED BY <2>1, <3>1, ScannedItem
  <2>4. tmpfs[name] \subseteq 1..Len(items)
    BY <2>3 DEF DriverInv, FilesFresh
  <2>5. /\ Len(opened') = Len(opened) + 1
        /\ opened'[Len(opened) + 1].held = tmpfs[name]
        /\ \A k \in 1..Len(opened) : opened'[k] = opened[k]
    BY <2>2 DEF DriverInv, DriverTypes
  <2>6. \A k \in 1..Len(opened') : k \in 1..Len(opened) \/ k = Len(opened) + 1
    BY <1>1, <2>5
  <2> QED BY <1>1, <2>2, <2>4, <2>5, <2>6 DEF HeldKnown
<1> QED BY <1>2, <1>3, <1>4, <1>5, OtherSteps

\* What was scanned, without a domain in it.
ScansRight ==
    \A k \in 1..Len(opened) : \A m \in opened[k].held :
        \/ m = opened[k].item
        \/ items[m].start >= items[opened[k].item].start + Versions
        \/ failed

\* The two forms of the property about scans say the same.
LEMMA ScansRightIs ==
    ASSUME opened \in Seq(Scans) PROVE ScannedAsCopied <=> ScansRight
<1>1. DOMAIN opened = 1..Len(opened)
    OBVIOUS
<1> QED BY <1>1 DEF ScannedAsCopied, ScansRight

\* The file of the item that is scanned holds that item's copy and, unless a
\* scan has failed, only copies that were begun a round of versions later.
LEMMA ScanHolds ==
    ASSUME DriverInv, item # NULL, ~failed,
           NEW m \in tmpfs[NameOf(items[item])]
    PROVE  m = item \/ items[m].start >= items[item].start + Versions
<1>1. /\ item \in 1..Len(items) /\ item = Len(opened) + 1
      /\ NameOf(items[item]) \in Names /\ Len(opened) \in Nat
      /\ Len(items) \in Nat
    BY ScannedItem DEF DriverInv, ItemsInOrder
<1>2. m \in 1..Len(items) /\ NameOf(items[m]) = NameOf(items[item])
      /\ m > Len(opened)
    BY <1>1 DEF DriverInv, FilesFresh
<1>3. CASE m # item
  <2>1. item < m
    BY <1>1, <1>2, <1>3
  <2>2. items[item].start < items[m].start
    BY <1>1, <1>2, <2>1 DEF DriverInv, CopiesInOrder
  <2>3. items[item].start % Versions = items[m].start % Versions
    BY <1>2 DEF NameOf
  <2>4. items[item].start \in Nat /\ items[m].start \in Nat
    <3>1. items[item] \in Records /\ items[m] \in Records
      BY <1>1, <1>2 DEF DriverInv, DriverTypes
    <3> QED BY <3>1 DEF Records
  <2> QED BY <2>2, <2>3, <2>4, ComesRound
<1> QED BY <1>3

\* No step breaks the property about scans.
LEMMA ScansStep ==
    ASSUME DriverInv, [Next]_vars, DriverTypes'
    PROVE  ScannedAsCopied'
<1>1. /\ Len(items) \in Nat /\ Len(opened) \in Nat /\ Len(opened) <= Len(items)
      /\ \A k \in 1..Len(opened) : /\ opened[k].held \subseteq 1..Len(items)
                                   /\ opened[k].item = k
                                   /\ k \in 1..Len(items)
      /\ ScansRight
  <2>1. /\ Len(items) \in Nat /\ Len(opened) \in Nat
        /\ Len(opened) <= Len(items)
    BY ScannedItem
  <2>2. \A k \in 1..Len(opened) : k \in 1..Len(items)
    BY <2>1
  <2>3. \A k \in 1..Len(opened) : /\ opened[k].held \subseteq 1..Len(items)
                                  /\ opened[k].item = k
    BY DEF DriverInv, HeldKnown, ItemsInOrder
  <2>4. ScansRight
    BY ScansRightIs DEF DriverInv, DriverTypes
  <2> QED BY <2>1, <2>2, <2>3, <2>4
<1>2. ScansRight'
  <2>1. CASE UNCHANGED <<items, opened, failed>>
    BY <1>1, <2>1 DEF ScansRight
  <2>2. ASSUME NEW i \in Inodes, CopyInode(i) PROVE ScansRight'
    <3>1. /\ \A n \in 1..Len(items) : items'[n] = items[n]
          /\ UNCHANGED <<opened, failed>>
      BY <2>2, CopyAdds DEF CopyInode, scanvars
    <3> QED BY <1>1, <3>1 DEF ScansRight
  <2>3. ASSUME NEW i \in Inodes, NEW w \in BOOLEAN, CopyFails(i, w)
        PROVE  UNCHANGED <<items, opened, failed>>
    BY <2>3 DEF CopyFails, scanvars
  <2>4. ASSUME NEW ok \in BOOLEAN, ScanVirus(ok) PROVE ScansRight'
    <3>1. PICK held : held = tmpfs[NameOf(items[item])]
      OBVIOUS
    <3>2. /\ spc = "scan" /\ items' = items /\ (failed => failed')
          /\ opened' = Append(opened, [item |-> item, held |-> held,
                                       begun |-> started])
      BY <2>4, <3>1 DEF ScanVirus
    <3>3. item # NULL
      BY <3>2 DEF DriverInv, ItemsInOrder
    <3>4. /\ Len(opened') = Len(opened) + 1
          /\ opened'[Len(opened) + 1].held = held
          /\ opened'[Len(opened) + 1].item = item
          /\ \A k \in 1..Len(opened) : opened'[k] = opened[k]
      BY <3>2 DEF DriverInv, DriverTypes
    <3>5. \A m \in held : \/ m = item
                          \/ items[m].start >= items[item].start + Versions
                          \/ failed
      BY <3>1, <3>3, ScanHolds
    <3>6. \A k \in 1..Len(opened') : k \in 1..Len(opened) \/ k = Len(opened) + 1
      BY <1>1, <3>4
    <3> QED BY <1>1, <3>2, <3>4, <3>5, <3>6 DEF ScansRight
  <2> QED BY <2>1, <2>2, <2>3, <2>4, OtherSteps
<1>3. opened' \in Seq(Scans)
    BY DEF DriverTypes
<1>4. (ScannedAsCopied <=> ScansRight)'
  <2>1. (DOMAIN opened)' = 1..Len(opened')
    BY <1>3
  <2> QED BY <2>1 DEF ScannedAsCopied, ScansRight
<1> QED BY <1>2, <1>4

\* No step of any thread breaks the invariant of the driver.
LEMMA DriverStep == DriverInv /\ [Next]_vars => DriverInv'
<1> SUFFICES ASSUME DriverInv, [Next]_vars PROVE DriverInv'
    OBVIOUS
<1>1. QueueInv'
    BY QueueSteps, StepInv DEF DriverInv
<1>2. CacheInv'
    BY CacheSteps, CacheNextInv DEF DriverInv
<1>3. DriverTypes' /\ SlotsAccounted'
    BY TypesStep
<1>4. ItemsInOrder' /\ CopiesInOrder' /\ FilesFresh' /\ HeldKnown'
    BY ItemsStep, CopiesStep, FilesStep, HeldStep
<1>5. ScannedAsCopied'
    BY <1>3, ScansStep
<1> QED BY <1>1, <1>2, <1>3, <1>4, <1>5 DEF DriverInv

\* The invariant of the driver holds always.
LEMMA DriverHolds == Spec => []DriverInv
BY DriverStarts, DriverStep, PTL DEF Spec

\* Whatever the guest, the scanner and the clients do: the queue's lists and
\* the cache's lists stay linked, no request slot is lost or used twice, and
\* the scanner finds in a file the copy it was queued for, or one begun after
\* the version had come round, until a scan has left its file behind.
THEOREM DriverIsSound == Spec => []DriverSound
<1>1. DriverInv => DriverSound
    BY CacheInvSays DEF DriverInv, QueueInv, DriverSound
<1> QED BY <1>1, DriverHolds, PTL

\* Between the driver's thread and the scanner the queue is first-in
\* first-out.
THEOREM DriverIsFifo == Spec => ImplementsFifo
<1>1. Init => TheFifo!FifoInit
    BY ConcatEmptySeq DEF Init, QueueInit, TheFifo!FifoInit
<1>2. DriverInv /\ [Next]_vars => [TheFifo!FifoNext]_(midF \o outF \o inF)
  <2>1. DriverInv => QueueInv
    BY DEF DriverInv
  <2> QED BY <2>1, QueueSteps, QueueStepRefines DEF Whole
<1> QED BY <1>1, <1>2, DriverHolds, PTL DEF Spec, ImplementsFifo, TheFifo!FifoSpec

\* In the driver's hands the cache holds of each bucket's blocks those stored
\* last.
THEOREM DriverIsLru == Spec => ImplementsLru
<1>1. Init => TheLru!LruInit
    BY LruStarts DEF Init
<1>2. DriverInv /\ [Next]_vars => [TheLru!LruNext]_RecentNow
  <2>1. DriverInv => CacheInv
    BY DEF DriverInv
  <2> QED BY <2>1, CacheSteps, LruSteps
<1> QED BY <1>1, <1>2, DriverHolds, PTL
        DEF Spec, ImplementsLru, TheLru!LruSpec, RecentNow, Recent
==============================================================================
