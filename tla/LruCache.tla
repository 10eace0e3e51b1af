------------------------------ MODULE LruCache ------------------------------
(***************************************************************************)
(* What a cache of blocks promises: of the blocks of a bucket it keeps     *)
(* those stored last, each with what was stored last, up to a number.      *)
(***************************************************************************)
EXTENDS Integers, Sequences

CONSTANTS Buckets, Room, Blocks, Contents, BucketOf(_)

VARIABLE recent   \* per bucket: blocks and contents, the last stored first

LruInit == recent = [b \in Buckets |-> <<>>]

Without(s, x) ==
    IF \A k \in 1..Len(s) : s[k].block # x THEN s
    ELSE LET i == CHOOSE k \in 1..Len(s) : s[k].block = x
         IN SubSeq(s, 1, i - 1) \o SubSeq(s, i + 1, Len(s))
FirstOf(s) == IF Len(s) <= Room THEN s ELSE SubSeq(s, 1, Room)

Store(x, c) ==
    recent' = [recent EXCEPT ![BucketOf(x)] =
                  FirstOf(<<[block |-> x, content |-> c]>> \o Without(@, x))]

Drop(x) == recent' = [recent EXCEPT ![BucketOf(x)] = Without(@, x)]

LruNext == \E x \in Blocks : Drop(x) \/ \E c \in Contents : Store(x, c)

LruSpec == LruInit /\ [][LruNext]_recent
=============================================================================
