------------------------------ MODULE SemiQueue ------------------------------
(***************************************************************************)
(* The queue between the disk driver and the virus scanner                 *)
(* (stat/queue-semiblocking.c).  queue_put pushes onto the list in_queue   *)
(* by compare-and-swap and never blocks.  queue_get, under a mutex, takes  *)
(* from the list out_queue; when that is empty it takes all of in_queue by *)
(* one compare-and-swap and turns it round.  Each access to shared memory  *)
(* is a step.                                                              *)
(***************************************************************************)
EXTENDS Integers, Sequences, FiniteSets

CONSTANTS Items,     \* struct queue_head: one for each queue_put
          Putters,   \* threads that call queue_put
          Getters    \* threads that call queue_get

NULL == 0

ASSUME SemiQueueAssumption == NULL \notin Items \cup Getters

VARIABLES
    in_queue, out_queue, next, lock,
    putting,   \* per putter: its item, and the in_queue it read
    getting,   \* per getter: where it is, and its head
    inF, midF, outF   \* history: the three lists, oldest item first: in_queue,
                      \* what a getter is turning round, and out_queue

lists == <<inF, midF, outF>>
queue == <<in_queue, out_queue, next, lock, putting, getting, lists>>

Idle == [item |-> NULL, old |-> NULL]

QueueInit ==
    /\ in_queue = NULL /\ out_queue = NULL /\ lock = NULL
    /\ next = [x \in Items |-> NULL]
    /\ putting = [p \in Putters |-> Idle]
    /\ getting = [g \in Getters |-> [pc |-> "out", head |-> NULL]]
    /\ inF = <<>> /\ midF = <<>> /\ outF = <<>>
-----------------------------------------------------------------------------
(* queue_put.                                                              *)

\* new->next = in_queue, a new item for the first time, or the same again.
Link(p, x) ==
    /\ putting[p].item \in {NULL, x}
    /\ putting' = [putting EXCEPT ![p] = [item |-> x, old |-> in_queue]]
    /\ next' = [next EXCEPT ![x] = in_queue]
    /\ UNCHANGED <<in_queue, out_queue, lock, getting, lists>>

\* Mutant: the item is put in without looking whether in_queue is still the same.
PushBlindly(p) ==
    /\ putting[p].item # NULL
    /\ in_queue' = putting[p].item
    /\ inF' = Append(inF, putting[p].item)
    /\ putting' = [putting EXCEPT ![p] = Idle]
    /\ UNCHANGED <<out_queue, next, lock, getting, midF, outF>>

\* The compare-and-swap: in_queue is still what was read.
Push(p) ==
    /\ putting[p].item # NULL
    /\ in_queue = putting[p].old
    /\ in_queue' = putting[p].item
    /\ inF' = Append(inF, putting[p].item)
    /\ putting' = [putting EXCEPT ![p] = Idle]
    /\ UNCHANGED <<out_queue, next, lock, getting, midF, outF>>

\* It is not: the loop starts again.
Relink(p) ==
    /\ putting[p].item # NULL
    /\ in_queue # putting[p].old
    /\ Link(p, putting[p].item)
-----------------------------------------------------------------------------
(* queue_get.                                                              *)

At(g, pc) == lock = g /\ getting[g].pc = pc
GoTo(g, pc, h) == getting' = [getting EXCEPT ![g] = [pc |-> pc, head |-> h]]

Lock(g) ==
    /\ lock = NULL
    /\ lock' = g
    /\ GoTo(g, IF out_queue = NULL THEN "read" ELSE "pop", NULL)
    /\ UNCHANGED <<in_queue, out_queue, next, putting, lists>>

ReadIn(g) ==
    /\ At(g, "read")
    /\ GoTo(g, IF in_queue = NULL THEN "pop" ELSE "cas", in_queue)
    /\ UNCHANGED <<in_queue, out_queue, next, lock, putting, lists>>

\* Mutant: the list is taken though in_queue has changed since it was read.
TakeInBlindly(g) ==
    /\ At(g, "cas")
    /\ in_queue' = NULL
    /\ GoTo(g, "turn", getting[g].head)
    /\ midF' = inF /\ inF' = <<>>
    /\ UNCHANGED <<out_queue, next, lock, putting, outF>>

TakeIn(g) ==
    /\ At(g, "cas")
    /\ in_queue = getting[g].head
    /\ in_queue' = NULL
    /\ GoTo(g, "turn", in_queue)
    /\ midF' = inF /\ inF' = <<>>
    /\ UNCHANGED <<out_queue, next, lock, putting, outF>>

TakeFails(g) ==
    /\ At(g, "cas")
    /\ in_queue # getting[g].head
    /\ GoTo(g, "read", NULL)
    /\ UNCHANGED <<in_queue, out_queue, next, lock, putting, lists>>

\* One round of the loop that reverses the order.
TurnRound(g) ==
    LET h == getting[g].head
    IN /\ At(g, "turn") /\ h # NULL
       /\ next' = [next EXCEPT ![h] = out_queue]
       /\ out_queue' = h
       /\ GoTo(g, "turn", next[h])
       /\ midF' = SubSeq(midF, 1, Len(midF) - 1) /\ outF' = <<h>> \o outF
       /\ UNCHANGED <<in_queue, lock, putting, inF>>

Turned(g) ==
    /\ At(g, "turn") /\ getting[g].head = NULL
    /\ GoTo(g, "pop", NULL)
    /\ UNCHANGED <<in_queue, out_queue, next, lock, putting, lists>>

\* The first of out_queue, and the mutex is released.
PopOut(g) ==
    /\ At(g, "pop") /\ out_queue # NULL
    /\ out_queue' = next[out_queue]
    /\ outF' = Tail(outF)
    /\ lock' = NULL
    /\ GoTo(g, "out", NULL)
    /\ UNCHANGED <<in_queue, next, putting, inF, midF>>

\* There is none: NULL is returned.
PopNothing(g) ==
    /\ At(g, "pop") /\ out_queue = NULL
    /\ lock' = NULL
    /\ GoTo(g, "out", NULL)
    /\ UNCHANGED <<in_queue, out_queue, next, putting, lists>>

GetStep(g) ==
    \/ ReadIn(g)
    \/ TakeIn(g)
    \/ TakeFails(g)
    \/ TurnRound(g)
    \/ Turned(g)

Unused(x) ==
    /\ \A p \in Putters : putting[p].item # x
    /\ \A s \in {inF, midF, outF} : \A k \in DOMAIN s : s[k] # x

QueueNext ==
    \/ \E p \in Putters :
          \/ \E x \in Items : putting[p].item = NULL /\ Unused(x) /\ Link(p, x)
          \/ Push(p)
          \/ Relink(p)
    \/ \E g \in Getters : Lock(g) \/ GetStep(g) \/ PopOut(g) \/ PopNothing(g)

QueueSpec == QueueInit /\ [][QueueNext]_queue
-----------------------------------------------------------------------------
(* Properties.                                                             *)

Newest(s) == s[Len(s)]

\* The list that starts at h and follows next holds the items of s, last
\* first, and then goes on at end.
LinkedDown(s, h, end) ==
    /\ s = <<>> => h = end
    /\ s # <<>> => h = Newest(s) /\ next[s[1]] = end
    /\ \A k \in 1..Len(s) - 1 : next[s[k + 1]] = s[k]

LinkedUp(s, h) ==
    /\ s = <<>> => h = NULL
    /\ s # <<>> => h = s[1] /\ next[Newest(s)] = NULL
    /\ \A k \in 1..Len(s) - 1 : next[s[k]] = s[k + 1]

TurningHead == IF lock # NULL /\ getting[lock].pc = "turn"
               THEN getting[lock].head ELSE NULL

\* The three lists are linked as the code walks them, whatever a putter and a
\* getter do at the same time: no item is cut off, none is reached twice.
ListsLinked ==
    /\ LinkedDown(inF, in_queue, NULL)
    /\ LinkedDown(midF, TurningHead, NULL)
    /\ LinkedUp(outF, out_queue)

\* queue_put and queue_get make a first-in first-out queue: a put takes effect
\* when its compare-and-swap succeeds, a get when it takes the head of
\* out_queue.
TheFifo == INSTANCE Fifo WITH q <- midF \o outF \o inF
ImplementsFifo == TheFifo!FifoSpec
=============================================================================
