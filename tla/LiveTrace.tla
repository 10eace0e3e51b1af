----------------------------- MODULE LiveTrace -----------------------------
(***************************************************************************)
(* A trace from the kernel's buffers to what blkparse shows, in between    *)
(* blktrace, which passes the records of each CPU on in order and those of *)
(* different CPUs in any (modules PipedOutput and MmapWindow).             *)
(***************************************************************************)
EXTENDS KernelEvents, Blkparse

CONSTANT MaxDamaged   \* bound: records damaged on the way

\* A trace is shorter than the 584 years after which its time would wrap.
ASSUME LiveTraceAssumption ==
    ParsedCpus = Cpus /\ MaxDamaged \in Nat /\ MaxEvents + 1 < TimeMod

VARIABLE wireEnded   \* blktrace has passed everything on

vars == <<kernel, pipe, files, wireEnded, blkparse>>

Init == KernelInit /\ BlkparseInit /\ wireEnded = FALSE
-----------------------------------------------------------------------------
Arrived == {pipe[k] : k \in DOMAIN pipe}
             \cup UNION {{files[c][k] : k \in DOMAIN files[c]} : c \in Cpus}
Damaged == {r \in Arrived : r.state # "good"}

\* What the buffer of a CPU holds goes into the pipe, or into the CPU's file.
\* Up to MaxDamaged records in all are not what they were when they arrive.
Transfer(c, state) ==
    LET arriving == [k \in DOMAIN relay[c] |->
            LET r == relay[c][k]
            IN [kind |-> r.kind, cpu |-> c, pid |-> r.pid, seq |-> r.seq,
                time |-> r.time, named |-> r.named, state |-> state[k]]]
        damaged == {k \in DOMAIN relay[c] : state[k] # "good"}
    IN /\ ~wireEnded /\ relay[c] # <<>>
       /\ damaged # {} => Cardinality(Damaged) + Cardinality(damaged) <= MaxDamaged
       /\ relay' = [relay EXCEPT ![c] = <<>>]
       /\ IF mode = "pipe"
          THEN pipe' = pipe \o arriving /\ UNCHANGED files
          ELSE files' = [files EXCEPT ![c] = @ \o arriving] /\ UNCHANGED pipe
       /\ UNCHANGED <<trace_state, starting, blktrace_seq, btrace_seq, sequence,
                      dropped, now, events, named, wireEnded, blkparse>>

\* blktrace ends when the trace is stopped and its buffers are read out.
EndWire ==
    /\ ~wireEnded /\ trace_state = "stopped" /\ ~starting
    /\ \A c \in Cpus : relay[c] = <<>>
    /\ wireEnded' = TRUE
    /\ UNCHANGED <<kernel, pipe, files, blkparse>>

Next ==
    \/ ~wireEnded /\ KernelNext /\ UNCHANGED <<pipe, files, wireEnded, blkparse>>
    \/ \E c \in Cpus : \E state \in [DOMAIN relay[c] -> {"good", "version", "magic"}] :
           Transfer(c, state)
    \/ EndWire
    \/ wireEnded /\ ParseStep /\ UNCHANGED <<kernel, wireEnded>>
    \/ wireEnded /\ Interrupt /\ UNCHANGED <<kernel, wireEnded>>

Spec == Init /\ [][Next]_vars

\* blkparse runs.
FairSpec == Spec /\ WF_vars(ParseStep /\ UNCHANGED <<kernel, wireEnded>>)
-----------------------------------------------------------------------------
(* Properties.                                                             *)

\* Until a record has been refused, the task of every event has been named
\* before the event since the trace was last started, on whatever CPU.
TasksNamed ==
    dropped = 0 =>
        /\ \A r \in Arrived : r.named
        /\ \A c \in Cpus : \A k \in DOMAIN relay[c] : relay[c][k].named

ShownOf(c) == Those(shown, {k \in DOMAIN shown : /\ shown[k].rec.cpu = c
                                                 /\ shown[k].rec.kind = "event"})

\* A record that is earlier than the first batch's earliest: its time wraps
\* round below zero.
ReadSoFar == {pipe[k] : k \in 1..taken[0]}
Early == \E r \in ReadSoFar : IsTrace(r) /\ r.time < genesis_time

\* From a pipe, while no record is earlier than the first batch: the records of
\* a CPU are shown in their order, and none waits for the end of the trace
\* unless one has come damaged, though the kernel refuses records and those of
\* the CPUs come in any order.
ShownLive ==
    mode = "pipe" /\ ~Early =>
        /\ \A c \in Cpus : \A j, k \in DOMAIN ShownOf(c) :
              j < k => ShownOf(c)[j].rec.seq < ShownOf(c)[k].rec.seq
        /\ bpc = "read" /\ (\A r \in ReadSoFar : r.state = "good") => tree = <<>>

Covered(c) == UNION {skips[c][k].start..skips[c][k].end : k \in DOMAIN skips[c]}

\* At the end of a pipe the skips of a CPU are the numbers missing between the
\* first and the last that were shown.
SkipsAreTheGaps ==
    mode = "pipe" /\ ~Early /\ bpc = "end" =>
        \A c \in Cpus :
            LET seqs == {ShownOf(c)[k].rec.seq : k \in DOMAIN ShownOf(c)}
            IN Covered(c) = {n \in 1..MaxEvents :
                               /\ n \notin seqs
                               /\ \E a, b \in seqs : a < n /\ n < b}

\* From files: the records are shown in the order of their times, and at the
\* end without a signal every record within the stopwatch has been shown, once,
\* up to a file's first bad one.
GoodPart(c) ==
    LET bad == FirstWhere(files[c], LAMBDA r : r.state # "good")
    IN Traces(SubSeq(files[c], 1, bad - 1))
InWindow(r) == r.time - genesis_time \in stopwatch.start..stopwatch.end
FilesMerged ==
    mode = "files" =>
        /\ \A j, k \in DOMAIN shown :
              j < k => shown[j].rec.time <= shown[k].rec.time
        /\ bpc = "end" /\ ~done =>
              \A c \in Cpus :
                 LET of == Those(shown, {k \in DOMAIN shown : shown[k].rec.cpu = c})
                     good == Those(GoodPart(c), {k \in DOMAIN GoodPart(c) :
                                                    InWindow(GoodPart(c)[k])})
                 IN /\ Len(of) = Len(good)
                    /\ \A k \in DOMAIN good : of[k].rec.seq = good[k].seq

\* From files of which nothing was refused or damaged, the process of an event
\* is known when it is shown, whichever CPU it was named on.  Only if the note
\* bears the event's very time may blkparse come to it too late, for streams
\* of the same time stay in the order they are in (ms_resort).
NamesKnown ==
    mode = "files" /\ dropped = 0 /\ Damaged = {} =>
        \A k \in DOMAIN shown : shown[k].rec.kind = "event" =>
            \/ shown[k].known
            \/ \E c \in Cpus \ {shown[k].rec.cpu} : \E j \in DOMAIN files[c] :
                  /\ files[c][j].kind = "process"
                  /\ files[c][j].pid = shown[k].rec.pid
                  /\ files[c][j].time = shown[k].rec.time + genesis_time

\* Names reach blkparse in time, from the kernel and through the files.
NamesTrue == TasksNamed /\ NamesKnown

\* blkparse ends when the trace has, however it reads it.
ParsingEnds == wireEnded ~> bpc = "end"
=============================================================================
