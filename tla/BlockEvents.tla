----------------------------- MODULE BlockEvents -----------------------------
(***************************************************************************)
(* What the block layer does with the bios and requests of a device, and   *)
(* the event the kernel records of each step (kernel/blktrace.c, the hooks *)
(* of the trace points).  The block layer itself is not part of this       *)
(* repository: which steps may follow each other is read off the hooks.    *)
(*                                                                         *)
(* Modules IoTrack and Btt are what blkparse and btt make of the events.   *)
(***************************************************************************)
EXTENDS Integers, Sequences, FiniteSets

\* What the device is asked to do: the bios it gets in turn, and how many things
\* out of the ordinary may happen, as marked below.
CONSTANT Workloads

ASSUME BlockEventsAssumption ==
    Workloads \subseteq
        [bios : Seq([start : Nat, len : Nat \ {0}, pid : Nat \ {0}, w : {0, 1}]),
         odd : Nat]

VARIABLES
    event,      \* what the last step recorded; its time is the time now
    waiting,    \* bios queued that have no request yet
    requests,
    plugged,
    workload,   \* bound: what is left of it
    commands,   \* history: requests that were no file system's
    overlapped, \* history: two bios in flight had sectors in common
    completed   \* history: the bios that are done, with their times

block == <<event, waiting, requests, plugged, workload, commands, overlapped,
           completed>>

now == event.time
Kernel == 0   \* the task that serves the device

Event(act, sector, len, pid, w, kind) ==
    [act |-> act, sector |-> sector, len |-> len, pid |-> pid, w |-> w,
     kind |-> kind, time |-> now + 1]

BlockInit ==
    /\ event = [act |-> "none", sector |-> 0, len |-> 0, pid |-> Kernel, w |-> 0,
                kind |-> "fs", time |-> 0]
    /\ waiting = {} /\ requests = {} /\ plugged = FALSE
    /\ workload \in Workloads /\ commands = 0
    /\ overlapped = FALSE /\ completed = {}

InFlight == waiting \cup UNION {r.bios : r \in requests}
Overlap(a, b) == a.start < b.start + b.len /\ b.start < a.start + a.len
-----------------------------------------------------------------------------
OutOfTheOrdinary ==
    workload.odd > 0 /\ workload' = [workload EXCEPT !.odd = @ - 1]

\* blk_add_trace_bio: the sector and size are the bio's.
RecordBio(act, b) == event' = Event(act, b.start, b.len, b.pid, b.w, "fs")

\* blk_add_trace_rq: those of the request; a command has no sector.
RecordRequest(act, r, pid) ==
    event' = Event(act, IF r.kind = "pc" THEN 0 ELSE r.start, r.len, pid, r.w,
                   r.kind)

\* blk_add_trace_bio_queue.
Queue(b) ==
    /\ workload' = [workload EXCEPT !.bios = Tail(@)]
    /\ RecordBio("Q", b)
    /\ waiting' = waiting \cup {[start |-> b.start, len |-> b.len, pid |-> b.pid,
                                 w |-> b.w, q |-> now + 1, slept |-> FALSE]}
    /\ overlapped' = (overlapped \/ \E c \in InFlight : Overlap(b, c))
    /\ UNCHANGED <<requests, plugged, completed, commands>>

\* blk_add_trace_sleeprq: there is no request to be had for the bio.
Sleep(b) ==
    /\ ~b.slept /\ OutOfTheOrdinary /\ RecordBio("S", b)
    /\ waiting' = (waiting \ {b}) \cup {[b EXCEPT !.slept = TRUE]}
    /\ UNCHANGED <<requests, plugged, overlapped, completed, commands>>

\* blk_add_trace_getrq: the bio gets a request.
GetRequest(b) ==
    /\ RecordBio("G", b)
    /\ waiting' = waiting \ {b}
    /\ requests' = requests \cup
          {[id |-> now + 1, kind |-> "fs", start |-> b.start, len |-> b.len,
            w |-> b.w, pid |-> b.pid, state |-> "got", bios |-> {b},
            g |-> now + 1, i |-> 0, d |-> 0]}
    /\ UNCHANGED <<plugged, overlapped, completed, workload, commands>>

\* blk_add_trace_getrq without a bio: the event has no sector and no size.
GetCommand(p) ==
    /\ OutOfTheOrdinary /\ commands' = commands + 1
    /\ event' = Event("G", 0, 0, p, 0, "fs")
    /\ requests' = requests \cup
          {[id |-> now + 1, kind |-> "pc", start |-> 0, len |-> 1, w |-> 0,
            pid |-> p, state |-> "got", bios |-> {}, g |-> now + 1, i |-> 0,
            d |-> 0]}
    /\ UNCHANGED <<waiting, plugged, overlapped, completed>>

Replace(r, s) == requests' = (requests \ {r}) \cup {s}

\* blk_add_trace_bio_backmerge, blk_add_trace_bio_frontmerge: the bio joins a
\* request that is not on the device yet.
Merge(b, r) ==
    LET back == r.start + r.len = b.start
        grown == [r EXCEPT !.start = IF back THEN @ ELSE b.start,
                           !.len = @ + b.len, !.bios = @ \cup {b}]
    IN /\ r.kind = "fs" /\ r.state # "issued" /\ r.w = b.w
       /\ back \/ b.start + b.len = r.start
       /\ RecordBio(IF back THEN "M" ELSE "F", b)
       /\ waiting' = waiting \ {b} /\ Replace(r, grown)
       /\ UNCHANGED <<plugged, overlapped, completed, workload, commands>>

\* blk_add_trace_rq_insert.
Insert(r) ==
    /\ r.state = "got" /\ RecordRequest("I", r, r.pid)
    /\ Replace(r, [r EXCEPT !.state = "queued", !.i = now + 1])
    /\ UNCHANGED <<waiting, plugged, overlapped, completed, workload, commands>>

\* blk_add_trace_rq_issue.
Issue(r) ==
    /\ r.state = "queued" /\ RecordRequest("D", r, Kernel)
    /\ Replace(r, [r EXCEPT !.state = "issued", !.d = now + 1])
    /\ UNCHANGED <<waiting, plugged, overlapped, completed, workload, commands>>

\* blk_add_trace_rq_requeue: the device does not take it.
Requeue(r) ==
    /\ r.state = "issued" /\ OutOfTheOrdinary
    /\ RecordRequest("R", r, Kernel)
    /\ Replace(r, [r EXCEPT !.state = "queued"])
    /\ UNCHANGED <<waiting, plugged, overlapped, completed, commands>>

\* blk_add_trace_rq_complete, of the whole request.
Complete(r) ==
    /\ r.state = "issued" /\ RecordRequest("C", r, Kernel)
    /\ requests' = requests \ {r}
    /\ completed' = completed \cup
          {[q |-> b.q, d |-> r.d, c |-> now + 1, pid |-> b.pid, owner |-> r.pid,
            w |-> b.w, request |-> r.id] : b \in r.bios}
    /\ UNCHANGED <<waiting, plugged, overlapped, workload, commands>>

\* blk_add_trace_plug.
Plug ==
    /\ ~plugged /\ OutOfTheOrdinary
    /\ plugged' = TRUE /\ event' = Event("P", 0, 0, Kernel, 0, "fs")
    /\ UNCHANGED <<waiting, requests, overlapped, completed, commands>>

\* blk_add_trace_unplug: by a task, or by the timer.  The event says how many
\* requests there were.
Unplug(act) ==
    /\ plugged /\ plugged' = FALSE
    /\ event' = Event(act, 0, Cardinality(requests), Kernel, 0, "fs")
    /\ UNCHANGED <<waiting, requests, overlapped, completed, workload, commands>>

BlockNext ==
    \/ workload.bios # <<>> /\ Queue(Head(workload.bios))
    \/ \E b \in waiting : \/ Sleep(b)
                          \/ GetRequest(b)
                          \/ \E r \in requests : Merge(b, r)
    \/ \E p \in {b.pid : b \in InFlight} : GetCommand(p)
    \/ \E r \in requests : \/ Insert(r)
                           \/ Issue(r)
                           \/ Requeue(r)
                           \/ Complete(r)
    \/ Plug
    \/ \E act \in {"U", "UT"} : Unplug(act)
=============================================================================
