---------------------------- MODULE KernelTrace ----------------------------
(***************************************************************************)
(* The kernel's side of setting up and removing traces                     *)
(* (blktrace-kernel/blktrace.c): the ioctls BLKTRACESETUP, -START, -STOP   *)
(* and -TEARDOWN, the sysfs files, and blk_trace_shutdown.  They run in    *)
(* any number of tasks and meet at q->blk_trace, which is changed with     *)
(* xchg, and at blk_probes_ref, which is atomic; a task holds the bd_mutex *)
(* of its block device from end to end.  The mutex is the block device's,  *)
(* q->blk_trace is the queue's, and the partitions of a disk share one     *)
(* queue.                                                                  *)
(*                                                                         *)
(* Each access to shared state is a step.  A struct blk_trace is a member  *)
(* of BTs, and is not allocated again once it is freed.                    *)
(***************************************************************************)
EXTENDS Integers, FiniteSets

CONSTANTS Tasks, Bdevs, Queues, BTs,
          BdevQueue,   \* bdev_get_queue
          Null         \* no struct blk_trace, no task, no device

ASSUME KernelAssumption ==
    /\ BdevQueue \in [Bdevs -> Queues]
    /\ Null \notin BTs /\ Null \notin Tasks /\ Null \notin Bdevs
    /\ IsFiniteSet(BTs)

VARIABLES
    blk_trace,      \* per queue: q->blk_trace
    life,           \* per struct blk_trace: "unused", "live" or "freed"
    trace_state,    \* per struct blk_trace; "none" is 0
    rchan,          \* per struct blk_trace: it has a relay channel
    dir,            \* per struct blk_trace: whose debugfs directory it made
    blk_probes_ref,
    registered,     \* the tracepoints call our probes
    bd_mutex,       \* per block device: the task that holds it
    gone,           \* the queues that were shut down
    pc, op,         \* per task: where it is, in which operation
    dev, q,         \* per task: the device and the queue it works on
    bt, old_bt      \* per task: its local variables

traces == <<life, trace_state, rchan, dir>>
probes == <<blk_probes_ref, registered>>
call   == <<op, dev, q>>
locals == <<bt, old_bt>>
vars == <<blk_trace, traces, probes, bd_mutex, gone, pc, call, locals>>

Ioctls == {"setup", "start", "stop", "teardown"}
\* Writing 1 or 0 to "enable", or a value to another file of the group.
Sysfs  == {"enable", "disable", "attr"}
Ops    == Ioctls \cup Sysfs \cup {"shutdown", "none"}
Steps  == {"idle", "alloc", "test", "xchg", "restore", "count", "register",
           "copyout", "attr", "read", "change", "take", "state", "free",
           "uncount", "unregister", "unlock"}

Init ==
    /\ blk_trace = [r \in Queues |-> Null]
    /\ life = [b \in BTs |-> "unused"]
    /\ trace_state = [b \in BTs |-> "none"]
    /\ rchan = [b \in BTs |-> FALSE]
    /\ dir = [b \in BTs |-> Null]
    /\ blk_probes_ref = 0 /\ registered = FALSE
    /\ bd_mutex = [d \in Bdevs |-> Null]
    /\ gone = {}
    /\ pc = [t \in Tasks |-> "idle"] /\ op = [t \in Tasks |-> "none"]
    /\ dev = [t \in Tasks |-> Null] /\ q = [t \in Tasks |-> Null]
    /\ bt = [t \in Tasks |-> Null] /\ old_bt = [t \in Tasks |-> Null]

TypeOK ==
    /\ blk_trace \in [Queues -> BTs \cup {Null}]
    /\ life \in [BTs -> {"unused", "live", "freed"}]
    /\ trace_state \in [BTs -> {"none", "setup", "running", "stopped"}]
    /\ rchan \in [BTs -> BOOLEAN]
    /\ dir \in [BTs -> Bdevs \cup {Null}]
    /\ blk_probes_ref \in Int /\ registered \in BOOLEAN
    /\ bd_mutex \in [Bdevs -> Tasks \cup {Null}]
    /\ gone \subseteq Queues
    /\ pc \in [Tasks -> Steps] /\ op \in [Tasks -> Ops]
    /\ dev \in [Tasks -> Bdevs \cup {Null}]
    /\ q \in [Tasks -> Queues \cup {Null}]
    /\ bt \in [Tasks -> BTs \cup {Null}]
    /\ old_bt \in [Tasks -> BTs \cup {Null}]
-----------------------------------------------------------------------------
Goto(t, step) == pc' = [pc EXCEPT ![t] = step]

\* blk_trace_ioctl and sysfs_blk_trace_attr_store: take the mutex, dispatch.
Begin(t, d, o) ==
    /\ pc[t] = "idle" /\ bd_mutex[d] = Null
    /\ BdevQueue[d] \notin gone
    /\ bd_mutex' = [bd_mutex EXCEPT ![d] = t]
    /\ op' = [op EXCEPT ![t] = o]
    /\ dev' = [dev EXCEPT ![t] = d] /\ q' = [q EXCEPT ![t] = BdevQueue[d]]
    /\ \/ o \in {"setup", "enable"} /\ Goto(t, "alloc")
       \/ o = "attr" /\ Goto(t, "test")
       \/ o \in {"start", "stop"} /\ Goto(t, "read")
       \/ o \in {"teardown", "disable"} /\ Goto(t, "take")
    /\ UNCHANGED <<blk_trace, traces, probes, gone, locals>>

\* blk_trace_shutdown: the queue goes away, so nobody works on it any more.
Shutdown(t, r) ==
    /\ pc[t] = "idle" /\ r \notin gone
    /\ \A u \in Tasks : pc[u] # "idle" => q[u] # r
    /\ gone' = gone \cup {r}
    /\ op' = [op EXCEPT ![t] = "shutdown"] /\ q' = [q EXCEPT ![t] = r]
    /\ Goto(t, IF blk_trace[r] = Null THEN "unlock" ELSE "read")
    /\ UNCHANGED <<blk_trace, traces, probes, bd_mutex, dev, locals>>

\* Mutant: the other sysfs files take the trace for granted.
AttrUntested(t) ==
    /\ pc[t] = "test"
    /\ Goto(t, "attr")
    /\ UNCHANGED <<blk_trace, traces, probes, bd_mutex, gone, call, locals>>

\* sysfs_blk_trace_attr_store, a file other than "enable": without a trace
\* one is set up first.
TestTrace(t) ==
    /\ pc[t] = "test"
    /\ Goto(t, IF blk_trace[q[t]] = Null THEN "alloc" ELSE "attr")
    /\ UNCHANGED <<blk_trace, traces, probes, bd_mutex, gone, call, locals>>

\* Mutant: the directory is named after the queue's disk.
AllocNamesQueue(t) ==
    /\ pc[t] = "alloc" /\ op[t] = "setup"
    /\ \/ /\ \E b \in BTs :
                /\ life[b] = "unused"
                /\ life' = [life EXCEPT ![b] = "live"]
                /\ trace_state' = [trace_state EXCEPT ![b] = "setup"]
                /\ rchan' = [rchan EXCEPT ![b] = TRUE]
                /\ dir' = [dir EXCEPT ![b] = q[t]]
                /\ bt' = [bt EXCEPT ![t] = b]
          /\ Goto(t, "xchg")
       \/ Goto(t, "unlock") /\ UNCHANGED <<traces, bt>>
    /\ UNCHANGED <<blk_trace, probes, bd_mutex, gone, call, old_bt>>

\* do_blk_trace_setup up to the xchg: a new blk_trace, a debugfs directory
\* named after the device, a relay channel.  There may be no memory, and the
\* directory may exist; what was made is then released again.
AllocSetup(t) ==
    /\ pc[t] = "alloc" /\ op[t] = "setup"
    /\ \/ /\ \A b \in BTs : life[b] = "live" => dir[b] # dev[t]
          /\ \E b \in BTs :
                /\ life[b] = "unused"
                /\ life' = [life EXCEPT ![b] = "live"]
                /\ trace_state' = [trace_state EXCEPT ![b] = "setup"]
                /\ rchan' = [rchan EXCEPT ![b] = TRUE]
                /\ dir' = [dir EXCEPT ![b] = dev[t]]
                /\ bt' = [bt EXCEPT ![t] = b]
          /\ Goto(t, "xchg")
       \/ Goto(t, "unlock") /\ UNCHANGED <<traces, bt>>
    /\ UNCHANGED <<blk_trace, probes, bd_mutex, gone, call, old_bt>>

\* Mutant: the state is set as do_blk_trace_setup does.
QueueStateSetup == "setup"

\* blk_trace_setup_queue leaves the state 0.
QueueState == "none"

\* blk_trace_setup_queue up to the xchg: neither directory nor channel.
AllocQueue(t) ==
    /\ pc[t] = "alloc" /\ op[t] \in {"enable", "attr"}
    /\ \/ /\ \E b \in BTs :
                /\ life[b] = "unused"
                /\ life' = [life EXCEPT ![b] = "live"]
                /\ trace_state' = [trace_state EXCEPT ![b] = QueueState]
                /\ bt' = [bt EXCEPT ![t] = b]
          /\ Goto(t, "xchg")
       \/ Goto(t, "unlock") /\ UNCHANGED <<life, trace_state, bt>>
    /\ UNCHANGED <<blk_trace, rchan, dir, probes, bd_mutex, gone, call, old_bt>>

\* old_bt = xchg(&q->blk_trace, bt)
Xchg(t) ==
    /\ pc[t] = "xchg"
    /\ old_bt' = [old_bt EXCEPT ![t] = blk_trace[q[t]]]
    /\ blk_trace' = [blk_trace EXCEPT ![q[t]] = bt[t]]
    /\ Goto(t, IF blk_trace[q[t]] = Null THEN "count" ELSE "restore")
    /\ UNCHANGED <<traces, probes, bd_mutex, gone, call, bt>>

\* Mutant: the trace found on the queue is not put back.
ForgetOld(t) ==
    /\ pc[t] = "restore"
    /\ Goto(t, "free")
    /\ UNCHANGED <<blk_trace, traces, probes, bd_mutex, gone, call, locals>>

\* The queue had a trace: (void) xchg(&q->blk_trace, old_bt), and give up.
Restore(t) ==
    /\ pc[t] = "restore"
    /\ blk_trace' = [blk_trace EXCEPT ![q[t]] = old_bt[t]]
    /\ Goto(t, "free")
    /\ UNCHANGED <<traces, probes, bd_mutex, gone, call, locals>>

\* Where a setup goes on: copy_to_user, the attribute, or nothing.
AfterSetup(t) == CASE op[t] = "setup" -> "copyout"
                   [] op[t] = "attr"  -> "attr"
                   [] OTHER           -> "unlock"

\* atomic_inc_return(&blk_probes_ref)
Count(t) ==
    /\ pc[t] = "count"
    /\ blk_probes_ref' = blk_probes_ref + 1
    /\ Goto(t, IF blk_probes_ref = 0 THEN "register" ELSE AfterSetup(t))
    /\ UNCHANGED <<blk_trace, traces, registered, bd_mutex, gone, call, locals>>

\* blk_register_tracepoints
Register(t) ==
    /\ pc[t] = "register"
    /\ registered' = TRUE
    /\ Goto(t, AfterSetup(t))
    /\ UNCHANGED <<blk_trace, traces, blk_probes_ref, bd_mutex, gone, call,
                   locals>>

\* blk_trace_setup: the copy to the user may fail, and the trace is removed.
CopyOut(t) ==
    /\ pc[t] = "copyout"
    /\ Goto(t, "unlock") \/ Goto(t, "take")
    /\ UNCHANGED <<blk_trace, traces, probes, bd_mutex, gone, call, locals>>

\* q->blk_trace->act_mask = value, or another field: no state of ours.
SetAttr(t) ==
    /\ pc[t] = "attr"
    /\ Goto(t, "unlock")
    /\ UNCHANGED <<blk_trace, traces, probes, bd_mutex, gone, call, locals>>

\* blk_trace_startstop: bt = q->blk_trace
ReadTrace(t) ==
    /\ pc[t] = "read"
    /\ bt' = [bt EXCEPT ![t] = blk_trace[q[t]]]
    /\ Goto(t, IF blk_trace[q[t]] # Null THEN "change"
               ELSE IF op[t] = "shutdown" THEN "take" ELSE "unlock")
    /\ UNCHANGED <<blk_trace, traces, probes, bd_mutex, gone, call, old_bt>>

\* blk_trace_startstop, the rest.
ChangeState(t) ==
    LET b    == bt[t]
        next == CASE op[t] = "start" /\ trace_state[b] \in {"setup", "stopped"}
                        -> "running"
                  [] op[t] # "start" /\ trace_state[b] = "running"
                        -> "stopped"
                  [] OTHER -> trace_state[b]
    IN
    /\ pc[t] = "change"
    /\ trace_state' = [trace_state EXCEPT ![b] = next]
    /\ Goto(t, IF op[t] = "shutdown" THEN "take" ELSE "unlock")
    /\ UNCHANGED <<blk_trace, life, rchan, dir, probes, bd_mutex, gone, call,
                   locals>>

\* blk_trace_remove and blk_trace_remove_queue: bt = xchg(&q->blk_trace, NULL)
TakeTrace(t) ==
    /\ pc[t] = "take"
    /\ bt' = [bt EXCEPT ![t] = blk_trace[q[t]]]
    /\ blk_trace' = [blk_trace EXCEPT ![q[t]] = Null]
    /\ Goto(t, IF blk_trace[q[t]] = Null THEN "unlock"
               ELSE IF op[t] = "disable" THEN "uncount" ELSE "state")
    /\ UNCHANGED <<traces, probes, bd_mutex, gone, call, old_bt>>

\* blk_trace_remove: a running trace is taken off the queue, and no more.
CheckState(t) ==
    /\ pc[t] = "state"
    /\ Goto(t, IF trace_state[bt[t]] = "running" THEN "unlock" ELSE "free")
    /\ UNCHANGED <<blk_trace, traces, probes, bd_mutex, gone, call, locals>>

\* A trace being removed, rather than one that was never put on the queue.
Removing(t) == op[t] \in {"teardown", "disable", "shutdown"} \/ old_bt[t] = Null

\* blk_trace_free; blk_trace_cleanup goes on to count the reference down,
\* which blk_trace_remove_queue has done before.
Free(t) ==
    /\ pc[t] = "free"
    /\ life' = [life EXCEPT ![bt[t]] = "freed"]
    /\ Goto(t, IF op[t] # "disable" /\ Removing(t) THEN "uncount" ELSE "unlock")
    /\ UNCHANGED <<blk_trace, trace_state, rchan, dir, probes, bd_mutex, gone,
                   call, locals>>

\* Where a removal goes on when the reference is counted.
AfterUncount(t) == IF op[t] = "disable" THEN "free" ELSE "unlock"

\* Mutant: blk_trace_cleanup does not count the reference down.
KeepCount(t) ==
    /\ pc[t] = "uncount"
    /\ Goto(t, AfterUncount(t))
    /\ UNCHANGED <<blk_trace, traces, probes, bd_mutex, gone, call, locals>>

\* atomic_dec_and_test(&blk_probes_ref)
Uncount(t) ==
    /\ pc[t] = "uncount"
    /\ blk_probes_ref' = blk_probes_ref - 1
    /\ Goto(t, IF blk_probes_ref = 1 THEN "unregister" ELSE AfterUncount(t))
    /\ UNCHANGED <<blk_trace, traces, registered, bd_mutex, gone, call, locals>>

\* Mutant: the last user leaves without unregistering.
StayRegistered(t) ==
    /\ pc[t] = "unregister"
    /\ Goto(t, AfterUncount(t))
    /\ UNCHANGED <<blk_trace, traces, probes, bd_mutex, gone, call, locals>>

\* blk_unregister_tracepoints
Unregister(t) ==
    /\ pc[t] = "unregister"
    /\ registered' = FALSE
    /\ Goto(t, AfterUncount(t))
    /\ UNCHANGED <<blk_trace, traces, blk_probes_ref, bd_mutex, gone, call,
                   locals>>

\* The operation returns; the mutex, unless it is blk_trace_shutdown, is free.
Unlock(t) ==
    /\ pc[t] = "unlock"
    /\ bd_mutex' = [d \in Bdevs |-> IF d = dev[t] THEN Null ELSE bd_mutex[d]]
    /\ Goto(t, "idle")
    /\ dev' = [dev EXCEPT ![t] = Null] /\ q' = [q EXCEPT ![t] = Null]
    /\ bt' = [bt EXCEPT ![t] = Null] /\ old_bt' = [old_bt EXCEPT ![t] = Null]
    /\ op' = [op EXCEPT ![t] = "none"]
    /\ UNCHANGED <<blk_trace, traces, probes, gone>>

TaskStep(t) ==
    \/ \E d \in Bdevs, o \in Ioctls \cup Sysfs : Begin(t, d, o)
    \/ \E r \in Queues : Shutdown(t, r)
    \/ TestTrace(t) \/ AllocSetup(t) \/ AllocQueue(t) \/ Xchg(t) \/ Restore(t)
    \/ Count(t) \/ Register(t) \/ CopyOut(t) \/ SetAttr(t)
    \/ ReadTrace(t) \/ ChangeState(t)
    \/ TakeTrace(t) \/ CheckState(t) \/ Free(t) \/ Uncount(t) \/ Unregister(t)
    \/ Unlock(t)

Next == \E t \in Tasks : TaskStep(t)

Spec == Init /\ [][Next]_vars
-----------------------------------------------------------------------------
(* Properties.                                                             *)

Live == {b \in BTs : life[b] = "live"}

\* No task is inside an operation.
Quiet == \A t \in Tasks : pc[t] = "idle"

\* "Global reference count of probes": between operations blk_probes_ref is
\* the number of traces that are set up, those leaked included.
RefCountExact == Quiet => blk_probes_ref = Cardinality(Live)

\* When nobody traces the probes are off, however setting up and removing
\* interleave: the last unregistration follows the last registration.
ProbesOffUnused == Quiet /\ blk_probes_ref = 0 => ~registered

\* Between operations the tracepoints call the probes if, and only if, some
\* trace needs them: neither does a trace stay without events, nor do the
\* probes stay when nobody traces.  It does not hold with two disks, since the
\* count and the registration change in two steps; the README says how.
RegisteredIffCounted == Quiet => (registered <=> blk_probes_ref > 0)

\* What q->blk_trace points to, and what an operation is about to use or
\* free, has not been freed.
TracesInUseLive ==
    /\ \A r \in Queues : blk_trace[r] # Null => blk_trace[r] \in Live
    /\ \A t \in Tasks : pc[t] \in {"change", "state", "free"} => bt[t] \in Live

\* The sysfs files find the trace they tested for or set up.
AttrFindsTrace == \A t \in Tasks : pc[t] = "attr" => blk_trace[q[t]] # Null

\* A running trace has a relay channel: __blk_add_trace reserves space in
\* bt->rchan untested, and a trace that sysfs set up has none.
RunningHasChannel == \A b \in BTs : trace_state[b] = "running" => rchan[b]

\* Only a trace that was removed while it was running is leaked (with its
\* directory, which keeps the device from being traced again): what is live
\* is on its queue, or in the hands of an operation, or was running.
LeakOnlyRunning ==
    \A b \in Live :
        \/ \E r \in Queues : blk_trace[r] = b
        \/ \E t \in Tasks : bt[t] = b \/ old_bt[t] = b
        \/ trace_state[b] = "running"

\* No operation meets a trace that is gone, or one without what it needs.
TracesSound ==
    TypeOK /\ TracesInUseLive /\ AttrFindsTrace /\ RunningHasChannel

\* The count of probes, the probes and the traces go together, and no trace is
\* left behind but those removed while running.
TracesCounted == RefCountExact /\ ProbesOffUnused /\ LeakOnlyRunning
=============================================================================
