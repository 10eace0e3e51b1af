---------------------------- MODULE KernelEvents ----------------------------
(***************************************************************************)
(* What the kernel records of a device (kernel/blktrace.c): the events of  *)
(* tasks on CPUs, numbered per CPU, the notes that name the tasks, and     *)
(* messages, in one buffer per CPU.  Setting a trace up and taking it down *)
(* are in module KernelTrace; here the trace exists.                       *)
(***************************************************************************)
EXTENDS Integers, Sequences, FiniteSets

CONSTANTS Cpus,
          Tasks,
          Room,       \* records that the relay buffer of a CPU holds
          MaxEvents   \* bound: starts of the trace, events and messages

ASSUME KernelEventsAssumption ==
    /\ Cpus \subseteq Nat /\ Tasks \subseteq Nat \ {0} /\ Room \in Nat \ {0}
    /\ MaxEvents \in Nat

VARIABLES
    trace_state, starting,    \* of bt; a start between its two steps
    blktrace_seq, btrace_seq, \* starts, and the last a task was named in
    sequence,                 \* bt->sequence
    relay,                    \* per CPU: what was written and not read yet
    dropped,                  \* bt->dropped
    now,                      \* ktime_get
    events,                   \* bound: starts, events and messages so far
    named                     \* history: tasks a note since the start names

kernel == <<trace_state, starting, blktrace_seq, btrace_seq, sequence, relay,
            dropped, now, events, named>>

NoTask == 0   \* the pid of notes that are no task's

KernelInit ==
    /\ trace_state = "setup" /\ starting = FALSE
    /\ blktrace_seq = 1 /\ btrace_seq = [t \in Tasks |-> 0]
    /\ sequence = [c \in Cpus |-> 0] /\ relay = [c \in Cpus |-> <<>>]
    /\ dropped = 0 /\ now = 1 /\ events = 0 /\ named = {}
-----------------------------------------------------------------------------
\* trace_note: a record without a number of its own.  What its place in the
\* buffer held before, zero or an old number, only decides where a message
\* stands among records of the very same time; here it is zero.
Note(kind, pid, c, time) ==
    [kind |-> kind, cpu |-> c, pid |-> pid, seq |-> 0, time |-> time,
     named |-> TRUE]

EventRecord(pid, c, time) ==
    [kind |-> "event", cpu |-> c, pid |-> pid, seq |-> sequence[c] + 1,
     time |-> time, named |-> pid \in named']

\* relay_reserve, for one record after the other: those that find no room are
\* counted by blk_subbuf_start_callback.
Kept(c, recs) ==
    LET free == Room - Len(relay[c])
    IN SubSeq(recs, 1, IF free < Len(recs) THEN free ELSE Len(recs))

Write(c, recs) ==
    /\ relay' = [relay EXCEPT ![c] = @ \o Kept(c, recs)]
    /\ dropped' = dropped + Len(recs) - Len(Kept(c, recs))
    /\ now' = recs[Len(recs)].time

AnotherEvent == events < MaxEvents /\ events' = events + 1

\* Mutant: a task is named once and not again when the trace is started anew.
AddTraceNamedOnce(t, c) ==
    LET new == btrace_seq[t] = 0
        n == IF new THEN 2 ELSE 1
    IN /\ trace_state = "running" /\ AnotherEvent
       /\ btrace_seq' = [btrace_seq EXCEPT ![t] = blktrace_seq]
       /\ named' = IF new /\ Len(relay[c]) < Room THEN named \cup {t} ELSE named
       /\ \E time \in {now, now + 1} :
             Write(c, IF new THEN <<Note("process", t, c, time),
                                    EventRecord(t, c, time)>>
                      ELSE <<EventRecord(t, c, time)>>)
       /\ sequence' = [sequence EXCEPT ![c] =
                          IF Len(relay[c]) + n <= Room THEN @ + 1 ELSE @]
       /\ UNCHANGED <<trace_state, starting, blktrace_seq>>

\* Mutant: an event takes its number before room for it is found.
AddTraceNumberedFirst(t, c) ==
    LET new == btrace_seq[t] # blktrace_seq
        n == IF new THEN 2 ELSE 1
    IN /\ trace_state = "running" /\ AnotherEvent
       /\ btrace_seq' = [btrace_seq EXCEPT ![t] = blktrace_seq]
       /\ named' = IF new /\ Len(relay[c]) < Room THEN named \cup {t} ELSE named
       /\ \E time \in {now, now + 1} :
             Write(c, IF new THEN <<Note("process", t, c, time),
                                    EventRecord(t, c, time)>>
                      ELSE <<EventRecord(t, c, time)>>)
       /\ sequence' = [sequence EXCEPT ![c] =
                          @ + 1]
       /\ UNCHANGED <<trace_state, starting, blktrace_seq>>

\* __blk_add_trace, with interrupts off: a task that was not named since the
\* trace was last started is named first; an event takes the next number of
\* its CPU if there is room for it.  Another CPU may record at the same time.
\* Events that act_log_check sorts out leave no trace and are left out here.
AddTrace(t, c) ==
    LET new == btrace_seq[t] # blktrace_seq
        n == IF new THEN 2 ELSE 1
    IN /\ trace_state = "running" /\ AnotherEvent
       /\ btrace_seq' = [btrace_seq EXCEPT ![t] = blktrace_seq]
       /\ named' = IF new /\ Len(relay[c]) < Room THEN named \cup {t} ELSE named
       /\ \E time \in {now, now + 1} :
             Write(c, IF new THEN <<Note("process", t, c, time),
                                    EventRecord(t, c, time)>>
                      ELSE <<EventRecord(t, c, time)>>)
       /\ sequence' = [sequence EXCEPT ![c] =
                          IF Len(relay[c]) + n <= Room THEN @ + 1 ELSE @]
       /\ UNCHANGED <<trace_state, starting, blktrace_seq>>

\* __trace_note_message.
Message(c) ==
    /\ trace_state = "running" /\ AnotherEvent
    /\ Write(c, <<Note("message", NoTask, c, now + 1)>>)
    /\ UNCHANGED <<trace_state, starting, blktrace_seq, btrace_seq, sequence,
                   named>>

\* blk_trace_startstop(q, 1): a start is counted; then, after a barrier, the
\* trace runs.  The note of the time, which only tells blkparse what to call the
\* trace's first moment, is left out.
Start ==
    /\ ~starting /\ trace_state \in {"setup", "stopped"} /\ AnotherEvent
    /\ blktrace_seq' = blktrace_seq + 1
    /\ starting' = TRUE /\ named' = {}
    /\ UNCHANGED <<trace_state, btrace_seq, sequence, relay, dropped, now>>

Run ==
    /\ starting
    /\ trace_state' = "running" /\ starting' = FALSE
    /\ UNCHANGED <<blktrace_seq, btrace_seq, sequence, relay, dropped, now,
                   events, named>>

\* blk_trace_startstop(q, 0).
Stop ==
    /\ trace_state = "running"
    /\ trace_state' = "stopped"
    /\ UNCHANGED <<starting, blktrace_seq, btrace_seq, sequence, relay, dropped,
                   now, events, named>>

KernelNext ==
    \/ \E t \in Tasks, c \in Cpus : AddTrace(t, c)
    \/ \E c \in Cpus : Message(c)
    \/ Start
    \/ Run
    \/ Stop
=============================================================================
