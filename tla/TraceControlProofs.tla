------------------------- MODULE TraceControlProofs -------------------------
(***************************************************************************)
(* Proofs about setting up, running and removing traces: first in the      *)
(* kernel (KernelTrace), for any number of tasks, devices, queues and      *)
(* traces; then in blktrace (Tracers), for any finite set of CPUs, with    *)
(* and without a pipe, failing set-up steps and early signals.  The two    *)
(* specifications share no variable: blktrace's model has one variable for *)
(* what the kernel's traces of its devices are doing.                      *)
(***************************************************************************)
EXTENDS KernelTrace, Tracers, FiniteSetTheorems, TLAPS
-----------------------------------------------------------------------------
(* KernelTrace: the types.                                                 *)

LEMMA InitTypeOK == Init => TypeOK
  <1> SUFFICES ASSUME Init PROVE TypeOK
    OBVIOUS
  <1>1. pc \in [Tasks -> Steps] /\ op \in [Tasks -> Ops]
    BY DEF Init, Steps, Ops
  <1>2. /\ life \in [BTs -> {"unused", "live", "freed"}]
        /\ trace_state \in [BTs -> {"none", "setup", "running", "stopped"}]
    BY DEF Init
  <1>3. rchan \in [BTs -> BOOLEAN] /\ dir \in [BTs -> Bdevs \cup {Null}]
    BY DEF Init
  <1>4. /\ blk_trace \in [Queues -> BTs \cup {Null}]
        /\ bd_mutex \in [Bdevs -> Tasks \cup {Null}]
    BY DEF Init
  <1>5. blk_probes_ref \in Int
    BY DEF Init
  <1>6. registered \in BOOLEAN /\ gone \subseteq Queues
    BY DEF Init
  <1>7. /\ dev \in [Tasks -> Bdevs \cup {Null}]
        /\ q \in [Tasks -> Queues \cup {Null}]
        /\ bt \in [Tasks -> BTs \cup {Null}]
        /\ old_bt \in [Tasks -> BTs \cup {Null}]
    BY DEF Init
  <1> QED
    BY <1>1, <1>2, <1>3, <1>4, <1>5, <1>6, <1>7 DEF TypeOK

\* Where each operation is on its way, and with what: a task at one of the
\* Steps after "idle" works on a queue, and bt is set where it is used.
Placed ==
    \A t \in Tasks :
        /\ pc[t] # "idle" => q[t] \in Queues
        /\ pc[t] \in {"xchg", "restore", "count", "register", "change", "state",
                      "free", "uncount", "unregister"} => bt[t] \in BTs
        /\ pc[t] = "restore" => old_bt[t] \in BTs

TInv == TypeOK /\ Placed

LEMMA NextTInv == TInv /\ [Next]_vars => TInv'
  <1> SUFFICES ASSUME TInv, [Next]_vars PROVE TInv'
    OBVIOUS
  <1> USE KernelAssumption
      DEF TInv, TypeOK, Placed, Steps, Goto, traces, probes, call, locals
  <1>1. ASSUME NEW t \in Tasks, NEW d \in Bdevs, NEW o \in Ioctls \cup Sysfs,
               Begin(t, d, o)
        PROVE  TInv'
    BY <1>1 DEF Begin, Ops
  <1>2. ASSUME NEW t \in Tasks, NEW r \in Queues, Shutdown(t, r) PROVE TInv'
    BY <1>2 DEF Shutdown, Ops
  <1>3. ASSUME NEW t \in Tasks, TestTrace(t) PROVE TInv'
    BY <1>3 DEF TestTrace
  <1>4. ASSUME NEW t \in Tasks, AllocSetup(t) PROVE TInv'
    <2>1. CASE Goto(t, "unlock") /\ UNCHANGED <<traces, bt>>
      BY <1>4, <2>1 DEF AllocSetup
    <2>2. ASSUME NEW b \in BTs,
                 /\ life' = [life EXCEPT ![b] = "live"]
                 /\ trace_state' = [trace_state EXCEPT ![b] = "setup"]
                 /\ rchan' = [rchan EXCEPT ![b] = TRUE]
                 /\ dir' = [dir EXCEPT ![b] = dev[t]]
                 /\ bt' = [bt EXCEPT ![t] = b]
                 /\ Goto(t, "xchg")
          PROVE  TInv'
      <3>1. TypeOK'
        BY <1>4, <2>2 DEF AllocSetup
      <3>2. Placed'
        BY <1>4, <2>2 DEF AllocSetup
      <3> QED
        BY <3>1, <3>2
    <2> QED
      BY <1>4, <2>1, <2>2 DEF AllocSetup
  <1>5. ASSUME NEW t \in Tasks, AllocQueue(t) PROVE TInv'
    BY <1>5 DEF AllocQueue, QueueState
  <1>6. ASSUME NEW t \in Tasks, Xchg(t) PROVE TInv'
    BY <1>6 DEF Xchg
  <1>7. ASSUME NEW t \in Tasks, Restore(t) PROVE TInv'
    BY <1>7 DEF Restore
  <1>8. ASSUME NEW t \in Tasks, Count(t) PROVE TInv'
    BY <1>8 DEF Count, AfterSetup
  <1>9. ASSUME NEW t \in Tasks, Register(t) PROVE TInv'
    BY <1>9 DEF Register, AfterSetup
  <1>10. ASSUME NEW t \in Tasks, CopyOut(t) PROVE TInv'
    BY <1>10 DEF CopyOut
  <1>11. ASSUME NEW t \in Tasks, SetAttr(t) PROVE TInv'
    BY <1>11 DEF SetAttr
  <1>12. ASSUME NEW t \in Tasks, ReadTrace(t) PROVE TInv'
    BY <1>12 DEF ReadTrace
  <1>13. ASSUME NEW t \in Tasks, ChangeState(t) PROVE TInv'
    BY <1>13 DEF ChangeState
  <1>14. ASSUME NEW t \in Tasks, TakeTrace(t) PROVE TInv'
    BY <1>14 DEF TakeTrace
  <1>15. ASSUME NEW t \in Tasks, CheckState(t) PROVE TInv'
    BY <1>15 DEF CheckState
  <1>16. ASSUME NEW t \in Tasks, Free(t) PROVE TInv'
    BY <1>16 DEF Free
  <1>17. ASSUME NEW t \in Tasks, Uncount(t) PROVE TInv'
    BY <1>17 DEF Uncount, AfterUncount
  <1>18. ASSUME NEW t \in Tasks, Unregister(t) PROVE TInv'
    BY <1>18 DEF Unregister, AfterUncount
  <1>19. ASSUME NEW t \in Tasks, Unlock(t) PROVE TInv'
    BY <1>19 DEF Unlock, Ops
  <1>20. CASE UNCHANGED vars
    BY <1>20 DEF vars
  <1> QED
    BY <1>1, <1>2, <1>3, <1>4, <1>5, <1>6, <1>7, <1>8, <1>9, <1>10, <1>11,
       <1>12, <1>13, <1>14, <1>15, <1>16, <1>17, <1>18, <1>19, <1>20
       DEF Next, TaskStep

LEMMA InitTInv == Init => TInv
  <1>1. Init => Placed
    BY DEF Init, Placed
  <1> QED
    BY InitTypeOK, <1>1 DEF TInv

\* The variables keep their types.
THEOREM TypeCorrect == Spec => []TypeOK
  <1>1. TInv => TypeOK
    BY DEF TInv
  <1> QED
    BY InitTInv, NextTInv, <1>1, PTL DEF Spec
-----------------------------------------------------------------------------
(* Running traces have a channel, on shared queues too.                    *)

\* Only do_blk_trace_setup gives a trace a state to start from.
ChannelInv == \A b \in BTs : trace_state[b] # "none" => rchan[b]

LEMMA InitChannelInv == Init => ChannelInv
  BY DEF Init, ChannelInv

LEMMA NextChannelInv == TInv /\ ChannelInv /\ [Next]_vars => ChannelInv'
  <1> SUFFICES ASSUME TInv, ChannelInv, [Next]_vars PROVE ChannelInv'
    OBVIOUS
  <1> USE DEF TInv, TypeOK, ChannelInv
  <1>1. ASSUME NEW t \in Tasks, AllocSetup(t) PROVE ChannelInv'
    BY <1>1 DEF AllocSetup, traces
  <1>2. ASSUME NEW t \in Tasks, AllocQueue(t) PROVE ChannelInv'
    BY <1>2 DEF AllocQueue, QueueState
  <1>3. ASSUME NEW t \in Tasks, ChangeState(t) PROVE ChannelInv'
    BY <1>3 DEF ChangeState
  <1>4. ASSUME NEW t \in Tasks, TaskStep(t),
               ~AllocSetup(t), ~AllocQueue(t), ~ChangeState(t)
        PROVE  UNCHANGED <<trace_state, rchan>>
    BY <1>4 DEF TaskStep, Begin, Shutdown, TestTrace, Xchg, Restore, Count,
       Register, CopyOut, SetAttr, ReadTrace, TakeTrace, CheckState, Free,
       Uncount, Unregister, Unlock, traces
  <1>5. CASE UNCHANGED vars
    BY <1>5 DEF vars, traces
  <1> QED
    BY <1>1, <1>2, <1>3, <1>4, <1>5 DEF Next

\* A running trace has a relay channel: __blk_add_trace may use it untested.
THEOREM RunningHasChannelHolds == Spec => []RunningHasChannel
  <1>1. TInv /\ ChannelInv => RunningHasChannel
    BY DEF ChannelInv, RunningHasChannel
  <1> QED
    BY InitTInv, NextTInv, InitChannelInv, NextChannelInv, <1>1, PTL DEF Spec
-----------------------------------------------------------------------------
(* Traces in use are live, if no two devices share a queue.                *)

\* No two block devices share a queue: bd_mutex then excludes on the queue.
Exclusive == \A d, e \in Bdevs : BdevQueue[d] = BdevQueue[e] => d = e

\* A task inside an operation holds its device's mutex, or has been called
\* for a queue that is gone; no two tasks work on the same queue.
MutexInv ==
    /\ \A t \in Tasks : pc[t] # "idle" =>
          IF op[t] = "shutdown"
          THEN dev[t] = Null /\ q[t] \in gone
          ELSE /\ dev[t] \in Bdevs /\ bd_mutex[dev[t]] = t
               /\ q[t] = BdevQueue[dev[t]]
    /\ \A t \in Tasks : pc[t] = "idle" => dev[t] = Null
    /\ \A t, u \in Tasks :
          t # u /\ pc[t] # "idle" /\ pc[u] # "idle" => q[t] # q[u]

LEMMA InitMutexInv == Init => MutexInv
  BY DEF Init, MutexInv

LEMMA NextMutexInv ==
    ASSUME Exclusive
    PROVE  TInv /\ MutexInv /\ [Next]_vars => MutexInv'
  <1> SUFFICES ASSUME TInv, MutexInv, [Next]_vars PROVE MutexInv'
    OBVIOUS
  <1> USE KernelAssumption DEF TInv, TypeOK, Placed, MutexInv, Goto
  <1>1. ASSUME NEW t \in Tasks, NEW d \in Bdevs, NEW o \in Ioctls \cup Sysfs,
               Begin(t, d, o)
        PROVE  MutexInv'
    <2>1. /\ pc[t] = "idle" /\ pc'[t] # "idle" /\ o # "shutdown"
          /\ op'[t] = o /\ dev'[t] = d /\ q'[t] = BdevQueue[d]
          /\ bd_mutex' = [bd_mutex EXCEPT ![d] = t] /\ bd_mutex[d] = Null
          /\ gone' = gone /\ BdevQueue[d] \notin gone
          /\ \A u \in Tasks \ {t} : /\ pc'[u] = pc[u] /\ op'[u] = op[u]
                                    /\ dev'[u] = dev[u] /\ q'[u] = q[u]
      BY <1>1 DEF Begin, Ioctls, Sysfs
    <2>2. ASSUME NEW u \in Tasks, pc[u] # "idle"
          PROVE  q[u] # BdevQueue[d] /\ dev[u] # d
      BY <2>1, <2>2, Exclusive DEF Exclusive
    <2> QED
      BY <2>1, <2>2
  <1>2. ASSUME NEW t \in Tasks, NEW r \in Queues, Shutdown(t, r)
        PROVE  MutexInv'
    BY <1>2 DEF Shutdown
  <1>3. ASSUME NEW t \in Tasks, Unlock(t) PROVE MutexInv'
    BY <1>3 DEF Unlock
  <1>4. ASSUME NEW t \in Tasks, TaskStep(t), ~Unlock(t),
               \A d \in Bdevs, o \in Ioctls \cup Sysfs : ~Begin(t, d, o),
               \A r \in Queues : ~Shutdown(t, r)
        PROVE  MutexInv'
    <2>1. /\ UNCHANGED <<op, dev, q, gone, bd_mutex>> /\ pc[t] # "idle"
          /\ \E s \in Steps \ {"idle"} : pc' = [pc EXCEPT ![t] = s]
      BY <1>4 DEF TaskStep, TestTrace, AllocSetup, AllocQueue, Xchg, Restore,
         Count, Register, CopyOut, SetAttr, ReadTrace, ChangeState, TakeTrace,
         CheckState, Free, Uncount, Unregister, AfterSetup, AfterUncount,
         call, Steps
    <2> QED
      BY <2>1
  <1>5. CASE UNCHANGED vars
    BY <1>5 DEF vars, call
  <1> QED
    BY <1>1, <1>2, <1>3, <1>4, <1>5 DEF Next, TaskStep
-----------------------------------------------------------------------------
\* The trace b is task t's alone: it has not been put on the queue yet, or
\* has been taken off it.
Owns(t, b) ==
    \/ pc[t] \in {"xchg", "state", "free"} /\ b = bt[t]
    \/ pc[t] \in {"uncount", "unregister"} /\ op[t] = "disable" /\ b = bt[t]
    \/ pc[t] = "restore" /\ b = old_bt[t]

\* Every trace the code can still reach is live and reached one way only.
OwnInv ==
    /\ \A t \in Tasks, b \in BTs :
          Owns(t, b) => life[b] = "live" /\ \A r \in Queues : blk_trace[r] # b
    /\ \A t, u \in Tasks, b \in BTs : t # u /\ Owns(t, b) => ~Owns(u, b)
    /\ \A r \in Queues : blk_trace[r] # Null => life[blk_trace[r]] = "live"
    /\ \A r, s \in Queues :
          r # s /\ blk_trace[r] # Null => blk_trace[r] # blk_trace[s]
    /\ \A t \in Tasks :
          /\ pc[t] \in {"restore", "count", "register", "change"}
               => blk_trace[q[t]] = bt[t]
          /\ pc[t] = "attr" => blk_trace[q[t]] # Null

LEMMA InitOwnInv == Init => OwnInv
  BY DEF Init, OwnInv, Owns

LEMMA NextOwnInv == TInv /\ MutexInv /\ OwnInv /\ [Next]_vars => OwnInv'
  <1> SUFFICES ASSUME TInv, MutexInv, OwnInv, [Next]_vars PROVE OwnInv'
    OBVIOUS
  <1>0. \A t, u \in Tasks :
           t # u /\ pc[t] # "idle" /\ pc[u] # "idle" => q[t] # q[u]
    BY DEF MutexInv
  <1> USE KernelAssumption, <1>0
      DEF TInv, TypeOK, Placed, OwnInv, Owns, Goto, traces, probes, call, locals
  <1>1. ASSUME NEW t \in Tasks, NEW d \in Bdevs, NEW o \in Ioctls \cup Sysfs,
               Begin(t, d, o)
        PROVE  OwnInv'
    BY <1>1 DEF Begin
  <1>2. ASSUME NEW t \in Tasks, NEW r \in Queues, Shutdown(t, r) PROVE OwnInv'
    BY <1>2 DEF Shutdown
  <1>3. ASSUME NEW t \in Tasks, TestTrace(t) PROVE OwnInv'
    BY <1>3 DEF TestTrace
  <1>4. ASSUME NEW t \in Tasks, AllocSetup(t) PROVE OwnInv'
    <2>1. CASE Goto(t, "unlock") /\ UNCHANGED <<traces, bt>>
      BY <1>4, <2>1 DEF AllocSetup
    <2>2. ASSUME NEW b \in BTs, life[b] = "unused",
                 life' = [life EXCEPT ![b] = "live"],
                 bt' = [bt EXCEPT ![t] = b], Goto(t, "xchg")
          PROVE  OwnInv'
      BY <1>4, <2>2 DEF AllocSetup
    <2> QED
      BY <1>4, <2>1, <2>2 DEF AllocSetup
  <1>5. ASSUME NEW t \in Tasks, AllocQueue(t) PROVE OwnInv'
    <2>1. CASE Goto(t, "unlock") /\ UNCHANGED <<life, trace_state, bt>>
      BY <1>5, <2>1 DEF AllocQueue
    <2>2. ASSUME NEW b \in BTs, life[b] = "unused",
                 life' = [life EXCEPT ![b] = "live"],
                 bt' = [bt EXCEPT ![t] = b], Goto(t, "xchg")
          PROVE  OwnInv'
      BY <1>5, <2>2 DEF AllocQueue
    <2> QED
      BY <1>5, <2>1, <2>2 DEF AllocQueue
  <1>6. ASSUME NEW t \in Tasks, Xchg(t) PROVE OwnInv'
    BY <1>6 DEF Xchg
  <1>7. ASSUME NEW t \in Tasks, Restore(t) PROVE OwnInv'
    BY <1>7 DEF Restore
  <1>8. ASSUME NEW t \in Tasks, Count(t) \/ Register(t) PROVE OwnInv'
    <2>1. CASE Count(t)
      BY <2>1 DEF Count, AfterSetup
    <2>2. CASE Register(t)
      BY <2>2 DEF Register, AfterSetup
    <2> QED
      BY <1>8, <2>1, <2>2
  <1>9. ASSUME NEW t \in Tasks, CopyOut(t) \/ SetAttr(t) PROVE OwnInv'
    <2>1. CASE CopyOut(t)
      <3>1. PICK s \in {"unlock", "take"} : pc' = [pc EXCEPT ![t] = s]
        BY <2>1 DEF CopyOut
      <3>2. \A u \in Tasks, b \in BTs : Owns(u, b)' => Owns(u, b)
        BY <2>1, <3>1 DEF CopyOut
      <3> QED
        BY <2>1, <3>1, <3>2 DEF CopyOut
    <2>2. CASE SetAttr(t)
      BY <2>2 DEF SetAttr
    <2> QED
      BY <1>9, <2>1, <2>2
  <1>10. ASSUME NEW t \in Tasks, ReadTrace(t) PROVE OwnInv'
    BY <1>10 DEF ReadTrace
  <1>11. ASSUME NEW t \in Tasks, ChangeState(t) PROVE OwnInv'
    BY <1>11 DEF ChangeState
  <1>12. ASSUME NEW t \in Tasks, TakeTrace(t) PROVE OwnInv'
    BY <1>12 DEF TakeTrace
  <1>13. ASSUME NEW t \in Tasks, CheckState(t) PROVE OwnInv'
    BY <1>13 DEF CheckState
  <1>14. ASSUME NEW t \in Tasks, Free(t) PROVE OwnInv'
    BY <1>14 DEF Free
  <1>15. ASSUME NEW t \in Tasks, Uncount(t) PROVE OwnInv'
    BY <1>15 DEF Uncount, AfterUncount
  <1>16. ASSUME NEW t \in Tasks, Unregister(t) PROVE OwnInv'
    BY <1>16 DEF Unregister, AfterUncount
  <1>17. ASSUME NEW t \in Tasks, Unlock(t) PROVE OwnInv'
    BY <1>17 DEF Unlock
  <1>18. CASE UNCHANGED vars
    BY <1>18 DEF vars
  <1> QED
    BY <1>1, <1>2, <1>3, <1>4, <1>5, <1>6, <1>7, <1>8, <1>9, <1>10, <1>11,
       <1>12, <1>13, <1>14, <1>15, <1>16, <1>17, <1>18 DEF Next, TaskStep

\* Without shared queues no operation uses or frees a trace that was freed,
\* and the queues point to live traces: the two xchg's of a setup that finds
\* the queue in use are as good as a lock.
THEOREM TracesInUseLiveHolds ==
    ASSUME Exclusive
    PROVE  Spec => []TracesInUseLive
  <1>1. TInv /\ OwnInv => TracesInUseLive
    <2> SUFFICES ASSUME TInv, OwnInv PROVE TracesInUseLive
      OBVIOUS
    <2>1. ASSUME NEW r \in Queues, blk_trace[r] # Null
          PROVE  blk_trace[r] \in Live
      BY <2>1 DEF OwnInv, TInv, TypeOK, Live
    <2>2. ASSUME NEW t \in Tasks, pc[t] \in {"change", "state", "free"}
          PROVE  bt[t] \in Live
      BY <2>1, <2>2, KernelAssumption
         DEF OwnInv, Owns, TInv, TypeOK, Placed, Live
    <2> QED
      BY <2>1, <2>2 DEF TracesInUseLive
  <1>2. TInv /\ MutexInv /\ [Next]_vars => MutexInv'
    BY NextMutexInv
  <1> QED
    BY InitTInv, NextTInv, InitMutexInv, <1>2, InitOwnInv, NextOwnInv, <1>1,
       PTL DEF Spec

\* Without shared queues the sysfs files never find the trace gone.
THEOREM AttrFindsTraceHolds ==
    ASSUME Exclusive
    PROVE  Spec => []AttrFindsTrace
  <1>1. OwnInv => AttrFindsTrace
    BY DEF OwnInv, AttrFindsTrace
  <1>2. TInv /\ MutexInv /\ [Next]_vars => MutexInv'
    BY NextMutexInv
  <1> QED
    BY InitTInv, NextTInv, InitMutexInv, <1>2, InitOwnInv, NextOwnInv, <1>1,
       PTL DEF Spec

\* Without shared queues no ioctl and no sysfs file meets a trace that is gone,
\* or starts one without a channel.
THEOREM TracesSoundHolds ==
    ASSUME Exclusive
    PROVE  Spec => []TracesSound
  <1>1. Spec => []TracesInUseLive
    BY TracesInUseLiveHolds
  <1>2. Spec => []AttrFindsTrace
    BY AttrFindsTraceHolds
  <1> QED
    BY <1>1, <1>2, TypeCorrect, RunningHasChannelHolds, PTL DEF TracesSound
-----------------------------------------------------------------------------
(* The count of probes, and leaks, if no two devices share a queue.        *)

\* Removed while it was running: no queue and no operation has it any more.
Leaked(b) ==
    /\ life[b] = "live" /\ trace_state[b] = "running"
    /\ \A r \in Queues : blk_trace[r] # b
    /\ \A u \in Tasks : ~Owns(u, b)

OnQueue(t, b) == blk_trace[q[t]] = b

\* What the local variables hold where they are about to be overwritten.
Hands(t) ==
    /\ pc[t] \in {"idle", "test", "alloc", "read"} => bt[t] = Null
    /\ pc[t] \notin {"restore", "free", "unlock"} => old_bt[t] = Null
    /\ pc[t] \in {"free", "unlock"} =>
          \/ old_bt[t] = Null
          \/ OnQueue(t, old_bt[t]) /\ op[t] \in {"setup", "enable", "attr"}
    /\ pc[t] \in {"copyout", "take", "attr"} =>
          bt[t] = Null \/ OnQueue(t, bt[t])
    /\ pc[t] \in {"test", "alloc", "xchg", "restore"} =>
          op[t] \in {"setup", "enable", "attr"}
    /\ pc[t] \in {"uncount", "unregister"} /\ op[t] # "disable" =>
          life[bt[t]] = "freed"
    /\ pc[t] = "state" => op[t] # "disable"
    /\ pc[t] = "unlock" =>
          \/ bt[t] = Null \/ OnQueue(t, bt[t])
          \/ life[bt[t]] = "freed" \/ Leaked(bt[t])

HandsInv == \A t \in Tasks : Hands(t)

SoundInv == TInv /\ MutexInv /\ OwnInv

LEMMA InitHandsInv == Init => HandsInv
  BY DEF Init, HandsInv, Hands

\* A new trace that is not counted yet, one given up, and one that disable has
\* counted down.
Uncounted(t) ==
    \/ pc[t] \in {"xchg", "restore", "count"}
    \/ pc[t] = "free" /\ (op[t] = "disable" \/ ~Removing(t))
    \/ pc[t] = "unregister" /\ op[t] = "disable"

\* A trace that has been freed and is to be counted down.
StillCounted(t) == pc[t] = "uncount" /\ op[t] # "disable"

\* The traces blk_probes_ref counts, at any moment.
Counted ==
    {b \in BTs :
        \/ life[b] = "live" /\ \A t \in Tasks : Uncounted(t) => bt[t] # b
        \/ \E t \in Tasks : StillCounted(t) /\ bt[t] = b}

CountInv == blk_probes_ref = Cardinality(Counted)

\* No two operations are to count the same trace down.
CountedOnce ==
    \A t, u \in Tasks :
        t # u /\ StillCounted(t) /\ StillCounted(u) => bt[t] # bt[u]

ProbesInv == blk_probes_ref = 0 /\ registered
                => \E t \in Tasks : pc[t] = "unregister"

\* A step of t leaves the variables of the others, and their queues, alone.
LEMMA OthersKeep ==
    ASSUME SoundInv, NEW t \in Tasks, TaskStep(t)
    PROVE  \A u \in Tasks \ {t} :
               /\ pc'[u] = pc[u] /\ op'[u] = op[u] /\ q'[u] = q[u]
               /\ bt'[u] = bt[u] /\ old_bt'[u] = old_bt[u]
               /\ pc[u] # "idle" => blk_trace'[q[u]] = blk_trace[q[u]]
  <1> USE DEF SoundInv, TInv, TypeOK, Goto, traces, probes, call, locals
  <1>1. \A u \in Tasks \ {t} :
            /\ pc'[u] = pc[u] /\ op'[u] = op[u] /\ q'[u] = q[u]
            /\ bt'[u] = bt[u] /\ old_bt'[u] = old_bt[u]
    BY DEF TaskStep, Begin, Shutdown, TestTrace, AllocSetup, AllocQueue, Xchg,
       Restore, Count, Register, CopyOut, SetAttr, ReadTrace, ChangeState,
       TakeTrace, CheckState, Free, Uncount, Unregister, Unlock
  <1>2. \/ blk_trace' = blk_trace
        \/ pc[t] # "idle" /\ \A r \in Queues \ {q[t]} :
                                blk_trace'[r] = blk_trace[r]
    BY DEF TaskStep, Begin, Shutdown, TestTrace, AllocSetup, AllocQueue, Xchg,
       Restore, Count, Register, CopyOut, SetAttr, ReadTrace, ChangeState,
       TakeTrace, CheckState, Free, Uncount, Unregister, Unlock
  <1>3. \A u \in Tasks \ {t} :
            pc[u] # "idle" => blk_trace'[q[u]] = blk_trace[q[u]]
    BY <1>2 DEF MutexInv, Placed
  <1> QED
    BY <1>1, <1>3

\* What has been freed or leaked stays so.
LEMMA LeakedKeep ==
    ASSUME SoundInv, NEW t \in Tasks, TaskStep(t), NEW b \in BTs
    PROVE  /\ life[b] = "freed" => life'[b] = "freed"
           /\ Leaked(b) => Leaked(b)'
  <1> USE KernelAssumption DEF SoundInv, TInv, TypeOK, Placed, Goto, traces,
          probes, call, locals
  <1>1. life[b] = "freed" => life'[b] = "freed"
    BY DEF TaskStep, Begin, Shutdown, TestTrace, AllocSetup, AllocQueue, Xchg,
       Restore, Count, Register, CopyOut, SetAttr, ReadTrace, ChangeState,
       TakeTrace, CheckState, Free, Uncount, Unregister, Unlock
  <1>2. ASSUME Leaked(b) PROVE Leaked(b)'
    <2>1. ~Owns(t, b) /\ \A r \in Queues : blk_trace[r] # b
      BY <1>2 DEF Leaked
    <2>2. life'[b] = "live" /\ trace_state'[b] = "running"
      BY <1>2, <2>1 DEF TaskStep, Begin, Shutdown, TestTrace, AllocSetup,
         AllocQueue, Xchg, Restore, Count, Register, CopyOut, SetAttr, ReadTrace,
         ChangeState, TakeTrace, CheckState, Free, Uncount, Unregister, Unlock,
         Leaked, Owns, OwnInv
    <2>3. \A r \in Queues : blk_trace'[r] # b
      BY <2>1 DEF TaskStep, Begin, Shutdown, TestTrace, AllocSetup, AllocQueue,
         Xchg, Restore, Count, Register, CopyOut, SetAttr, ReadTrace,
         ChangeState, TakeTrace, CheckState, Free, Uncount, Unregister, Unlock,
         Owns
    <2>4. ~Owns(t, b)'
      <3>1. CASE \/ AllocSetup(t) \/ AllocQueue(t)
        BY <1>2, <2>1, <3>1 DEF AllocSetup, AllocQueue, Leaked, Owns
      <3>2. CASE Xchg(t) \/ TakeTrace(t) \/ Uncount(t) \/ Unregister(t)
        BY <2>1, <3>2 DEF Xchg, TakeTrace, Uncount, Unregister, AfterUncount, Owns
      <3>4. CASE Restore(t)
        BY <2>1, <3>4 DEF Restore, Owns, OwnInv
      <3>3. CASE \/ \E d \in Bdevs, o \in Ioctls \cup Sysfs : Begin(t, d, o)
                 \/ \E r \in Queues : Shutdown(t, r)
                 \/ TestTrace(t) \/ Count(t) \/ Register(t) \/ CopyOut(t)
                 \/ SetAttr(t) \/ ReadTrace(t) \/ ChangeState(t)
                 \/ CheckState(t) \/ Free(t) \/ Unlock(t)
        BY <2>1, <3>3 DEF Begin, Shutdown, TestTrace, Count, Register, CopyOut,
           SetAttr, ReadTrace, ChangeState, CheckState, Free, Unlock,
           AfterSetup, Owns
      <3> QED
        BY <3>1, <3>2, <3>3, <3>4 DEF TaskStep
    <2>5. \A u \in Tasks \ {t} : ~Owns(u, b)'
      BY <1>2, OthersKeep DEF Leaked, Owns
    <2> QED
      BY <2>2, <2>3, <2>4, <2>5 DEF Leaked
  <1> QED
    BY <1>1, <1>2

LEMMA NextHandsInv ==
    SoundInv /\ HandsInv /\ [Next]_vars => HandsInv'
  <1> SUFFICES ASSUME SoundInv, HandsInv, [Next]_vars PROVE HandsInv'
    OBVIOUS
  <1>1. ASSUME NEW t \in Tasks, TaskStep(t), NEW u \in Tasks \ {t}
        PROVE  Hands(u)'
    <2>1. /\ pc'[u] = pc[u] /\ op'[u] = op[u] /\ q'[u] = q[u]
          /\ bt'[u] = bt[u] /\ old_bt'[u] = old_bt[u]
          /\ pc[u] # "idle" => blk_trace'[q[u]] = blk_trace[q[u]]
      BY <1>1, OthersKeep
    <2>2. \A b \in BTs : /\ life[b] = "freed" => life'[b] = "freed"
                         /\ Leaked(b) => Leaked(b)'
      BY <1>1, LeakedKeep
    <2>3. /\ bt[u] \in BTs \cup {Null}
          /\ pc[u] \in {"uncount", "unregister"} => bt[u] \in BTs
      BY DEF SoundInv, TInv, TypeOK, Placed
    <2>4. Hands(u)
      BY DEF HandsInv
    <2> QED
      BY <2>1, <2>2, <2>3, <2>4 DEF Hands, OnQueue, Leaked, Owns
  <1>2. ASSUME NEW t \in Tasks, TaskStep(t)
        PROVE  Hands(t)'
    <2> USE KernelAssumption DEF SoundInv, TInv, TypeOK, Placed, HandsInv, Hands,
            OnQueue, Goto, traces, probes, call, locals
    <2>1. ASSUME NEW d \in Bdevs, NEW o \in Ioctls \cup Sysfs, Begin(t, d, o)
          PROVE  Hands(t)'
      BY <2>1 DEF Begin, Ioctls, Sysfs
    <2>2. ASSUME NEW r \in Queues, Shutdown(t, r) PROVE Hands(t)'
      BY <2>2 DEF Shutdown
    <2>3. CASE TestTrace(t)
      BY <2>3 DEF TestTrace
    <2>4. CASE AllocSetup(t)
      BY <2>4 DEF AllocSetup
    <2>5. CASE AllocQueue(t)
      BY <2>5 DEF AllocQueue
    <2>6. CASE Xchg(t)
      BY <2>6 DEF Xchg
    <2>7. CASE Restore(t)
      BY <2>7 DEF Restore
    <2>8. CASE Count(t)
      BY <2>8 DEF Count, AfterSetup, OwnInv
    <2>9. CASE Register(t)
      BY <2>9 DEF Register, AfterSetup, OwnInv
    <2>10. CASE CopyOut(t)
      BY <2>10 DEF CopyOut
    <2>11. CASE SetAttr(t)
      BY <2>11 DEF SetAttr
    <2>12. CASE ReadTrace(t)
      BY <2>12 DEF ReadTrace
    <2>13. CASE ChangeState(t)
      BY <2>13 DEF ChangeState, OwnInv
    <2>14. CASE TakeTrace(t)
      BY <2>14 DEF TakeTrace
    <2>15. CASE CheckState(t)
      <3>1. CASE trace_state[bt[t]] = "running"
        <4>1. Owns(t, bt[t]) /\ bt[t] \in BTs /\ pc' = [pc EXCEPT ![t] = "unlock"]
          BY <2>15, <3>1 DEF CheckState, Owns
        <4>2. Leaked(bt[t])'
          BY <2>15, <3>1, <4>1 DEF CheckState, Leaked, Owns, OwnInv
        <4> QED
          BY <2>15, <4>1, <4>2 DEF CheckState, Leaked, Owns
      <3>2. CASE trace_state[bt[t]] # "running"
        BY <2>15, <3>2 DEF CheckState
      <3> QED
        BY <3>1, <3>2
    <2>16. CASE Free(t)
      BY <2>16 DEF Free, Removing
    <2>17. CASE Uncount(t)
      BY <2>17 DEF Uncount, AfterUncount
    <2>18. CASE Unregister(t)
      BY <2>18 DEF Unregister, AfterUncount
    <2>19. CASE Unlock(t)
      BY <2>19 DEF Unlock
    <2> QED
      BY <1>2, <2>1, <2>2, <2>3, <2>4, <2>5, <2>6, <2>7, <2>8, <2>9, <2>10,
         <2>11, <2>12, <2>13, <2>14, <2>15, <2>16, <2>17, <2>18, <2>19
         DEF TaskStep
  <1>3. CASE UNCHANGED vars
    BY <1>3 DEF HandsInv, Hands, OnQueue, Leaked, Owns, vars, traces, call, locals
  <1> QED
    BY <1>1, <1>2, <1>3 DEF Next, HandsInv
-----------------------------------------------------------------------------
LEMMA NextLeakOnlyRunning ==
    SoundInv /\ HandsInv /\ LeakOnlyRunning /\ [Next]_vars => LeakOnlyRunning'
  <1> SUFFICES ASSUME SoundInv, HandsInv, LeakOnlyRunning, [Next]_vars
               PROVE  LeakOnlyRunning'
    OBVIOUS
  <1> DEFINE Kept(b) == \/ \E r \in Queues : blk_trace[r] = b
                        \/ \E t \in Tasks : bt[t] = b \/ old_bt[t] = b
                        \/ trace_state[b] = "running"
  <1>1. ASSUME NEW t \in Tasks, TaskStep(t), NEW b \in BTs, life'[b] = "live"
        PROVE  Kept(b)'
    <2> USE KernelAssumption DEF SoundInv, TInv, TypeOK, Placed, Goto, traces,
            probes, call, locals
    <2>1. Hands(t)
      BY DEF HandsInv
    <2>2. \A u \in Tasks \ {t} : bt'[u] = bt[u] /\ old_bt'[u] = old_bt[u]
      BY <1>1, OthersKeep
    <2>3. CASE AllocSetup(t) \/ AllocQueue(t)
      <3>1. CASE life[b] = "live"
        <4>1. Kept(b)
          BY <3>1 DEF LeakOnlyRunning, Live
        <4> QED
          BY <2>1, <2>2, <2>3, <3>1, <4>1 DEF AllocSetup, AllocQueue, Hands
      <3>2. CASE life[b] # "live"
        BY <1>1, <2>3, <3>2 DEF AllocSetup, AllocQueue
      <3> QED
        BY <3>1, <3>2
    <2>4. ASSUME ~AllocSetup(t), ~AllocQueue(t)
          PROVE  Kept(b)'
      <3>1. life[b] = "live"
        BY <1>1, <2>4 DEF TaskStep, Begin, Shutdown, TestTrace, Xchg, Restore,
           Count, Register, CopyOut, SetAttr, ReadTrace, ChangeState, TakeTrace,
           CheckState, Free, Uncount, Unregister, Unlock
      <3>2. Kept(b)
        BY <3>1 DEF LeakOnlyRunning, Live
      <3>3. CASE Xchg(t)
        BY <2>1, <2>2, <3>2, <3>3 DEF Xchg, Hands
      <3>4. CASE Restore(t)
        BY <3>2, <3>4 DEF Restore, OwnInv
      <3>5. CASE ReadTrace(t)
        BY <2>1, <2>2, <3>2, <3>5 DEF ReadTrace, Hands
      <3>6. CASE ChangeState(t)
        BY <3>2, <3>6 DEF ChangeState
      <3>7. CASE TakeTrace(t)
        BY <2>1, <2>2, <3>2, <3>7 DEF TakeTrace, Hands, OnQueue
      <3>8. CASE Unlock(t)
        BY <2>1, <2>2, <3>1, <3>2, <3>8 DEF Unlock, Hands, OnQueue, Leaked
      <3>9. CASE \/ \E d \in Bdevs, o \in Ioctls \cup Sysfs : Begin(t, d, o)
                 \/ \E r \in Queues : Shutdown(t, r)
                 \/ TestTrace(t) \/ Count(t) \/ Register(t) \/ CopyOut(t)
                 \/ SetAttr(t) \/ CheckState(t) \/ Free(t) \/ Uncount(t)
                 \/ Unregister(t)
        BY <3>2, <3>9 DEF Begin, Shutdown, TestTrace, Count, Register, CopyOut,
           SetAttr, CheckState, Free, Uncount, Unregister
      <3> QED
        BY <1>1, <2>4, <3>3, <3>4, <3>5, <3>6, <3>7, <3>8, <3>9 DEF TaskStep
    <2> QED
      BY <2>3, <2>4
  <1>2. CASE UNCHANGED vars
    BY <1>2 DEF LeakOnlyRunning, Live, vars, traces, locals
  <1>3. (\E t \in Tasks : TaskStep(t)) => LeakOnlyRunning'
    BY <1>1 DEF LeakOnlyRunning, Live
  <1> QED
    BY <1>2, <1>3 DEF Next
-----------------------------------------------------------------------------
\* The tasks that have a live trace of their own in bt.
Holding(t) ==
    \/ pc[t] \in {"xchg", "restore", "count", "register", "free"}
    \/ pc[t] \in {"uncount", "unregister"} /\ op[t] = "disable"

LEMMA HeldApart ==
    ASSUME SoundInv, NEW t \in Tasks, Holding(t)
    PROVE  /\ bt[t] \in BTs /\ life[bt[t]] = "live"
           /\ \A u \in Tasks \ {t} : Holding(u) => bt[u] # bt[t]
  <1> USE KernelAssumption DEF SoundInv, TInv, TypeOK, Placed
  <1>1. ASSUME NEW u \in Tasks, Holding(u)
        PROVE  /\ bt[u] \in BTs /\ q[u] \in Queues /\ pc[u] # "idle"
               /\ Owns(u, bt[u]) \/ blk_trace[q[u]] = bt[u]
    BY <1>1 DEF Holding, Owns, OwnInv
  <1>2. bt[t] \in BTs /\ life[bt[t]] = "live"
    BY <1>1 DEF OwnInv
  <1>3. ASSUME NEW u \in Tasks \ {t}, Holding(u)
        PROVE  bt[u] # bt[t]
    <2>1. q[u] # q[t]
      BY <1>1, <1>3 DEF MutexInv
    <2> QED
      BY <1>1, <1>3, <2>1 DEF OwnInv
  <1> QED
    BY <1>2, <1>3

\* What a step of t does to Counted and CountedOnce: only Count adds a trace,
\* and only Uncount removes one.
LEMMA CountedStep ==
    ASSUME SoundInv, HandsInv, CountedOnce, NEW t \in Tasks, TaskStep(t)
    PROVE  /\ CountedOnce'
           /\ Count(t) => bt[t] \in BTs \ Counted /\ Counted' = Counted \cup {bt[t]}
           /\ Uncount(t) => bt[t] \in Counted /\ Counted' = Counted \ {bt[t]}
           /\ ~Count(t) /\ ~Uncount(t) => Counted' = Counted
  <1> DEFINE Fresh(b)  == \A u \in Tasks \ {t} : Uncounted(u) => bt[u] # b
             Dying(b)  == \E u \in Tasks \ {t} : StillCounted(u) /\ bt[u] = b
             Tallied(b) ==
                 \/ life[b] = "live" /\ Fresh(b) /\ ~(Uncounted(t) /\ bt[t] = b)
                 \/ Dying(b)
                 \/ StillCounted(t) /\ bt[t] = b
  <1>1. /\ \A b \in BTs : b \in Counted <=> Tallied(b)
        /\ \A b \in BTs : b \in Counted' <=> Tallied(b)'
    BY DEF Counted
  <1>2. \A u \in Tasks \ {t} : /\ Uncounted(u)' <=> Uncounted(u)
                               /\ StillCounted(u)' <=> StillCounted(u)
                               /\ bt'[u] = bt[u]
    BY OthersKeep DEF Uncounted, StillCounted, Removing
  <1>3. \A b \in BTs : (Fresh(b)' <=> Fresh(b)) /\ (Dying(b)' <=> Dying(b))
    BY <1>2
  <1>4. \A b \in BTs : Dying(b) => life[b] = "freed"
    BY DEF HandsInv, Hands, StillCounted
  <1>5. ASSUME Holding(t)
        PROVE  bt[t] \in BTs /\ life[bt[t]] = "live" /\ Fresh(bt[t])
    BY <1>5, HeldApart DEF Uncounted, Holding
  <1>6. /\ bt \in [Tasks -> BTs \cup {Null}]
        /\ life \in [BTs -> {"unused", "live", "freed"}]
        /\ pc \in [Tasks -> Steps]
        /\ pc[t] = "uncount" => bt[t] \in BTs
        /\ pc[t] = "restore" => old_bt[t] \in BTs
    BY DEF SoundInv, TInv, TypeOK, Placed
  <1>7. Hands(t)
    BY DEF HandsInv
  <1>8. Counted \subseteq BTs /\ Counted' \subseteq BTs
    BY DEF Counted
  <1> HIDE DEF Fresh, Dying
  <1>9. CASE Count(t)
    <2>1. /\ Holding(t) /\ Uncounted(t) /\ ~StillCounted(t)
          /\ ~Uncounted(t)' /\ ~StillCounted(t)' /\ bt' = bt /\ life' = life
      BY <1>6, <1>9 DEF Count, Goto, Holding, Uncounted, StillCounted, AfterSetup,
         locals, traces
    <2>2. CountedOnce'
      BY <1>2, <2>1 DEF CountedOnce
    <2>3. bt[t] \in BTs \ Counted /\ Counted' = Counted \cup {bt[t]}
      BY <1>1, <1>3, <1>4, <1>5, <1>8, <2>1
    <2> QED
      BY <1>9, <2>2, <2>3 DEF Count, Uncount
  <1>10. CASE Uncount(t)
    <2>1. /\ bt' = bt /\ life' = life /\ ~StillCounted(t)' /\ ~Uncounted(t)
          /\ bt[t] \in BTs
      BY <1>6, <1>10 DEF Uncount, Goto, Uncounted, StillCounted, AfterUncount,
         locals, traces
    <2>2. CountedOnce'
      BY <1>2, <2>1 DEF CountedOnce
    <2>3. CASE op[t] = "disable"
      <3>1. Holding(t) /\ ~StillCounted(t) /\ Uncounted(t)'
        BY <1>6, <1>10, <2>3 DEF Uncount, Goto, Holding, Uncounted, StillCounted,
           AfterUncount, call
      <3>2. bt[t] \in Counted /\ Counted' = Counted \ {bt[t]}
        BY <1>1, <1>3, <1>4, <1>5, <1>8, <2>1, <3>1
      <3> QED
        BY <1>10, <2>2, <3>2 DEF Count, Uncount
    <2>4. CASE op[t] # "disable"
      <3>1. StillCounted(t) /\ life[bt[t]] = "freed" /\ ~Uncounted(t)'
        BY <1>6, <1>7, <1>10, <2>4 DEF Uncount, Goto, Uncounted, StillCounted,
           AfterUncount, Hands, call
      <3>2. ~Dying(bt[t])
        BY <3>1 DEF CountedOnce, Dying
      <3>3. bt[t] \in Counted /\ Counted' = Counted \ {bt[t]}
        BY <1>1, <1>3, <1>4, <1>8, <2>1, <3>1, <3>2
      <3> QED
        BY <1>10, <2>2, <3>3 DEF Count, Uncount
    <2> QED
      BY <2>3, <2>4
  <1>11. CASE AllocSetup(t) \/ AllocQueue(t)
    <2>1. bt[t] = Null /\ ~Uncounted(t) /\ ~StillCounted(t) /\ ~StillCounted(t)'
      BY <1>6, <1>7, <1>11 DEF AllocSetup, AllocQueue, Goto, Hands, Uncounted,
         StillCounted
    <2>2. CountedOnce'
      BY <1>2, <2>1 DEF CountedOnce
    <2>3. \/ life' = life /\ bt' = bt /\ ~Uncounted(t)'
          \/ \E b \in BTs :
                /\ life[b] = "unused" /\ life' = [life EXCEPT ![b] = "live"]
                /\ Uncounted(t)' /\ bt'[t] = b
      BY <1>6, <1>11 DEF AllocSetup, AllocQueue, Goto, Uncounted, traces
    <2>4. Counted' = Counted
      BY <1>1, <1>3, <1>4, <1>6, <1>8, <2>1, <2>3, KernelAssumption
    <2> QED
      BY <1>11, <2>2, <2>4 DEF Count, Uncount, AllocSetup, AllocQueue
  <1>12. CASE Free(t)
    <2>1. /\ Holding(t) /\ ~StillCounted(t) /\ bt' = bt
          /\ life' = [life EXCEPT ![bt[t]] = "freed"]
          /\ StillCounted(t)' <=> ~Uncounted(t)
      BY <1>6, <1>12 DEF Free, Goto, Holding, Uncounted, StillCounted, Removing,
         locals, call
    <2>2. CountedOnce'
      BY <1>2, <1>4, <1>5, <2>1 DEF CountedOnce, Dying
    <2>3. Counted' = Counted
      BY <1>1, <1>3, <1>4, <1>5, <1>6, <1>8, <2>1
    <2> QED
      BY <1>12, <2>2, <2>3 DEF Count, Uncount, Free
  <1>13. ASSUME TaskStep(t), ~Count(t), ~Uncount(t), ~AllocSetup(t),
                ~AllocQueue(t), ~Free(t)
         PROVE  CountedOnce' /\ Counted' = Counted
    <2>1. /\ life' = life /\ ~StillCounted(t) /\ ~StillCounted(t)'
          /\ Uncounted(t)' <=> Uncounted(t)
          /\ Uncounted(t) => bt'[t] = bt[t]
      <3> USE <1>6, <1>7, <1>13 DEF Goto, Uncounted, StillCounted, Removing, call,
              traces, locals
      <3>1. CASE \/ \E d \in Bdevs, o \in Ioctls \cup Sysfs : Begin(t, d, o)
                 \/ \E r \in Queues : Shutdown(t, r)
                 \/ TestTrace(t) \/ Xchg(t) \/ Register(t) \/ CopyOut(t)
                 \/ SetAttr(t) \/ ReadTrace(t) \/ ChangeState(t) \/ Unlock(t)
        BY <3>1 DEF Begin, Shutdown, TestTrace, Xchg, Register, CopyOut, SetAttr,
           ReadTrace, ChangeState, Unlock, AfterSetup
      <3>2. CASE Restore(t)
        BY <3>2, KernelAssumption DEF Restore, Hands
      <3>3. CASE TakeTrace(t)
        BY <3>3 DEF TakeTrace
      <3>4. CASE CheckState(t)
        BY <3>4 DEF CheckState, Hands
      <3>5. CASE Unregister(t)
        BY <3>5 DEF Unregister, AfterUncount
      <3> QED
        BY <3>1, <3>2, <3>3, <3>4, <3>5 DEF TaskStep
    <2>2. CountedOnce'
      BY <1>2, <2>1 DEF CountedOnce
    <2>3. Counted' = Counted
      BY <1>1, <1>3, <1>8, <2>1
    <2> QED
      BY <2>2, <2>3
  <1> QED
    BY <1>9, <1>10, <1>11, <1>12, <1>13

LEMMA CountedFinite ==
    /\ IsFiniteSet(Counted) /\ Cardinality(Counted) \in Nat
    /\ \A b \in Counted : Cardinality(Counted) > 0
  <1>1. IsFiniteSet(Counted)
    BY KernelAssumption, FS_Subset DEF Counted
  <1>2. Cardinality(Counted) \in Nat /\ (Cardinality(Counted) = 0 <=> Counted = {})
    BY <1>1, FS_CardinalityType, FS_EmptySet
  <1> QED
    BY <1>1, <1>2

LEMMA NextCountInv ==
    SoundInv /\ HandsInv /\ CountedOnce /\ CountInv /\ [Next]_vars
        => CountedOnce' /\ CountInv'
  <1> SUFFICES ASSUME SoundInv, HandsInv, CountedOnce, CountInv, [Next]_vars
               PROVE  CountedOnce' /\ CountInv'
    OBVIOUS
  <1>1. ASSUME NEW t \in Tasks, TaskStep(t)
        PROVE  CountedOnce' /\ CountInv'
    <2>1. /\ CountedOnce'
          /\ Count(t) => bt[t] \in BTs \ Counted /\ Counted' = Counted \cup {bt[t]}
          /\ Uncount(t) => bt[t] \in Counted /\ Counted' = Counted \ {bt[t]}
          /\ ~Count(t) /\ ~Uncount(t) => Counted' = Counted
      BY <1>1, CountedStep
    <2>2. CASE Count(t)
      <3>1. Cardinality(Counted \cup {bt[t]}) = Cardinality(Counted) + 1
        BY <2>1, <2>2, CountedFinite, FS_AddElement
      <3> QED
        BY <2>1, <2>2, <3>1 DEF Count, CountInv
    <2>3. CASE Uncount(t)
      <3>1. Cardinality(Counted \ {bt[t]}) = Cardinality(Counted) - 1
        BY <2>1, <2>3, CountedFinite, FS_RemoveElement
      <3> QED
        BY <2>1, <2>3, <3>1 DEF Uncount, CountInv
    <2>4. CASE ~Count(t) /\ ~Uncount(t)
      <3>1. blk_probes_ref' = blk_probes_ref
        BY <1>1, <2>4 DEF TaskStep, Begin, Shutdown, TestTrace, AllocSetup,
           AllocQueue, Xchg, Restore, Register, CopyOut, SetAttr, ReadTrace,
           ChangeState, TakeTrace, CheckState, Free, Unregister, Unlock, probes
      <3> QED
        BY <2>1, <2>4, <3>1 DEF CountInv
    <2> QED
      BY <2>2, <2>3, <2>4
  <1>2. CASE UNCHANGED vars
    BY <1>2 DEF CountedOnce, CountInv, Counted, Uncounted, StillCounted, Removing,
       vars, traces, probes, call, locals
  <1> QED
    BY <1>1, <1>2 DEF Next

LEMMA NextProbesInv ==
    SoundInv /\ CountInv /\ HandsInv /\ ProbesInv /\ [Next]_vars => ProbesInv'
  <1> SUFFICES ASSUME SoundInv, CountInv, HandsInv, ProbesInv, [Next]_vars
               PROVE  ProbesInv'
    OBVIOUS
  <1>1. ASSUME NEW t \in Tasks, TaskStep(t) PROVE ProbesInv'
    <2>1. /\ \A u \in Tasks \ {t} : pc'[u] = pc[u]
          /\ pc \in [Tasks -> Steps] /\ blk_probes_ref \in Nat
      BY <1>1, OthersKeep, CountedFinite DEF SoundInv, TInv, TypeOK, CountInv
    <2>2. CASE Count(t)
      BY <2>1, <2>2 DEF Count, ProbesInv
    <2>3. CASE Register(t)
      <3>1. Holding(t) /\ ~Uncounted(t)
        BY <2>3 DEF Register, Holding, Uncounted
      <3>2. /\ bt[t] \in BTs /\ life[bt[t]] = "live"
            /\ \A u \in Tasks \ {t} : Holding(u) => bt[u] # bt[t]
        BY <3>1, HeldApart
      <3>3. bt[t] \in Counted
        BY <3>1, <3>2 DEF Counted, Uncounted, Holding
      <3> QED
        BY <2>3, <3>3, CountedFinite DEF Register, CountInv, ProbesInv
    <2>4. CASE Uncount(t)
      BY <2>1, <2>4 DEF Uncount, Goto, ProbesInv
    <2>5. CASE Unregister(t)
      BY <2>5 DEF Unregister, ProbesInv
    <2>6. CASE ~Count(t) /\ ~Register(t) /\ ~Uncount(t) /\ ~Unregister(t)
      <3>1. UNCHANGED probes /\ pc[t] # "unregister"
        BY <1>1, <2>6 DEF TaskStep, Begin, Shutdown, TestTrace, AllocSetup,
           AllocQueue, Xchg, Restore, CopyOut, SetAttr, ReadTrace, ChangeState,
           TakeTrace, CheckState, Free, Unlock, probes
      <3> QED
        BY <2>1, <3>1 DEF ProbesInv, probes
    <2> QED
      BY <2>2, <2>3, <2>4, <2>5, <2>6
  <1>2. CASE UNCHANGED vars
    BY <1>2 DEF ProbesInv, vars, probes
  <1> QED
    BY <1>1, <1>2 DEF Next

LEMMA InitCounts ==
    Init => CountedOnce /\ CountInv /\ ProbesInv /\ LeakOnlyRunning
  <1> SUFFICES ASSUME Init
               PROVE  CountedOnce /\ CountInv /\ ProbesInv /\ LeakOnlyRunning
    OBVIOUS
  <1>1. Counted = {}
    BY DEF Init, Counted, StillCounted
  <1> QED
    BY <1>1, FS_EmptySet
       DEF Init, CountedOnce, StillCounted, CountInv, ProbesInv, LeakOnlyRunning, Live

\* Without shared queues, blk_probes_ref and the traces agree between
\* operations, the probes are off when it is zero, and a trace is left behind
\* only if it was removed while it was running: the steps of any number of
\* setups and removals of other disks, between the count and the registration
\* too, change nothing of it.
THEOREM TracesCountedHolds ==
    ASSUME Exclusive
    PROVE  Spec => []TracesCounted
  <1>1. TInv /\ MutexInv /\ [Next]_vars => MutexInv'
    BY NextMutexInv
  <1>2. Init => SoundInv
    BY InitTInv, InitMutexInv, InitOwnInv DEF SoundInv
  <1>3. SoundInv /\ [Next]_vars => SoundInv'
    BY NextTInv, <1>1, NextOwnInv DEF SoundInv
  <1>4. CountInv /\ ProbesInv /\ LeakOnlyRunning => TracesCounted
    <2>1. ASSUME Quiet PROVE Counted = Live
      BY <2>1 DEF Quiet, Counted, Live, Uncounted, StillCounted
    <2>2. Quiet => \A t \in Tasks : pc[t] # "unregister"
      BY DEF Quiet
    <2> QED
      BY <2>1, <2>2
         DEF CountInv, ProbesInv, TracesCounted, RefCountExact, ProbesOffUnused
  <1> QED
    BY <1>2, <1>3, <1>4, InitHandsInv, NextHandsInv, InitCounts, NextCountInv,
       NextProbesInv, NextLeakOnlyRunning, PTL DEF Spec
-----------------------------------------------------------------------------
(* Tracers: the types.                                                     *)

LEMMA TracersInitTypeOK == TracersInit => TracersTypeOK
  <1> SUFFICES ASSUME TracersInit PROVE TracersTypeOK
    OBVIOUS
  <1>1. MaxSignals \in Nat /\ MaxPending \in Nat
    BY TracersAssumption
  <1>2. tpc \in [CPUS -> TracerStates] /\ pending \in [CPUS -> 0..MaxPending]
    BY <1>1 DEF TracersInit, TracerStates
  <1>3. /\ mpc \in MainStates /\ exiting \in BOOLEAN
        /\ kstate \in KernelStates
        /\ done \in BOOLEAN /\ tracers_run \in BOOLEAN
    BY DEF TracersInit, MainStates, KernelStates
  <1>4. is_done \in [CPUS -> BOOLEAN]
    BY DEF TracersInit
  <1>5. /\ nthreads_running \in Nat /\ nthreads_error \in Nat
        /\ nthreads_leaving \in Nat
        /\ nsignals \in 0..MaxSignals
    BY <1>1 DEF TracersInit
  <1>6. tracers \subseteq CPUS /\ waiters \subseteq Threads
    BY DEF TracersInit
  <1>7. /\ mt_mutex \in CPUS \cup {Nobody}
        /\ hpc \in {"idle", "stop", "mark", "broadcast"} /\ victim \in Threads
    BY DEF TracersInit, Threads
  <1> QED
    BY <1>1, <1>2, <1>3, <1>4, <1>5, <1>6, <1>7 DEF TracersTypeOK

\* The main thread's steps preserve the types.
LEMMA MainTypeOK == TracersTypeOK /\ MainStep => TracersTypeOK'
  <1> SUFFICES ASSUME TracersTypeOK, MainStep PROVE TracersTypeOK'
    OBVIOUS
  <1> USE TracersAssumption
      DEF TracersTypeOK, MainStates, TracerStates, KernelStates, Threads, mainvars,
          flags, counters, sync, handler
  <1>1. CASE MainSetup
    BY <1>1 DEF MainSetup
  <1>2. CASE MainCreateFails
    BY <1>2 DEF MainCreateFails
  <1>3. CASE MainWaitReady
    BY <1>3 DEF MainWaitReady, MainWaitLoop
  <1>4. CASE MainWaitLeaving
    BY <1>4 DEF MainWaitLeaving, MainWaitLoop
  <1>5. CASE MainTimeout
    BY <1>5 DEF MainTimeout
  <1>6. CASE MainDecide
    BY <1>6 DEF MainDecide, StopTrace
  <1>7. CASE MainUnblock
    BY <1>7 DEF MainUnblock
  <1>8. CASE MainStartTrace
    BY <1>8 DEF MainStartTrace, StartTrace, WaitTracers
  <1>9. CASE MainMark
    BY <1>9 DEF MainMark, TellTracers
  <1>10. CASE MainBroadcast
    BY <1>10 DEF MainBroadcast, WaitTracers
  <1>11. CASE MainProcess
    BY <1>11 DEF MainProcess
  <1>12. CASE MainJoin
    BY <1>12 DEF MainJoin
  <1>13. CASE MainFinish
    BY <1>13 DEF MainFinish
  <1>14. CASE MainRelease
    BY <1>14 DEF MainRelease
  <1>15. CASE MainExitTracing
    BY <1>15 DEF MainExitTracing
  <1>16. ASSUME NEW c \in CPUS, MainCreate(c) PROVE TracersTypeOK'
    BY <1>16 DEF MainCreate
  <1> QED
    BY <1>1, <1>2, <1>3, <1>4, <1>5, <1>6, <1>7, <1>8, <1>9, <1>10, <1>11,
       <1>12, <1>13, <1>14, <1>15, <1>16 DEF MainStep

\* The other threads' steps, the kernel's and the handler's preserve them.
LEMMA OtherTypeOK ==
    ASSUME TracersTypeOK,
           \/ \E c \in CPUS : TracerStep(c) \/ SpuriousWakeup(c) \/ Produce(c)
           \/ \E t \in Threads : SignalArrives(t)
           \/ HandlerStep
    PROVE  TracersTypeOK'
  <1> USE TracersAssumption
      DEF TracersTypeOK, MainStates, TracerStates, KernelStates, Threads, mainvars,
          flags, counters, sync, handler
  <1>1. ASSUME NEW c \in CPUS, TracerOpen(c) PROVE TracersTypeOK'
    BY <1>1 DEF TracerOpen
  <1>2. ASSUME NEW c \in CPUS, TracerSignalReady(c) PROVE TracersTypeOK'
    BY <1>2 DEF TracerSignalReady, Signal
  <1>3. ASSUME NEW c \in CPUS, TracerCheck(c) PROVE TracersTypeOK'
    BY <1>3 DEF TracerCheck
  <1>4. ASSUME NEW c \in CPUS, TracerBlock(c) PROVE TracersTypeOK'
    BY <1>4 DEF TracerBlock
  <1>5. ASSUME NEW c \in CPUS, TracerRead(c) PROVE TracersTypeOK'
    BY <1>5 DEF TracerRead
  <1>6. ASSUME NEW c \in CPUS, TracerSeesDone(c) PROVE TracersTypeOK'
    BY <1>6 DEF TracerSeesDone
  <1>7. ASSUME NEW c \in CPUS, TracerDrain(c) PROVE TracersTypeOK'
    BY <1>7 DEF TracerDrain
  <1>8. ASSUME NEW c \in CPUS, SpuriousWakeup(c) PROVE TracersTypeOK'
    BY <1>8 DEF SpuriousWakeup
  <1>9. ASSUME NEW c \in CPUS, Produce(c) PROVE TracersTypeOK'
    BY <1>9 DEF Produce
  <1>10. ASSUME NEW t \in Threads, SignalArrives(t) PROVE TracersTypeOK'
    BY <1>10 DEF SignalArrives
  <1>11. CASE HandlerStop
    BY <1>11 DEF HandlerStop, StopTrace
  <1>12. CASE HandlerMark
    BY <1>12 DEF HandlerMark, TellTracers
  <1>13. CASE HandlerBroadcast
    BY <1>13 DEF HandlerBroadcast
  <1> QED
    BY <1>1, <1>2, <1>3, <1>4, <1>5, <1>6, <1>7, <1>8, <1>9, <1>10, <1>11,
       <1>12, <1>13 DEF TracerStep, HandlerStep

LEMMA TracersNextTypeOK == TracersTypeOK /\ [TracersNext]_tracersvars => TracersTypeOK'
  <1> SUFFICES ASSUME TracersTypeOK, [TracersNext]_tracersvars PROVE TracersTypeOK'
    OBVIOUS
  <1>1. CASE UNCHANGED tracersvars
    BY <1>1 DEF TracersTypeOK, tracersvars, mainvars, flags, counters, sync, handler
  <1> QED
    BY <1>1, MainTypeOK, OtherTypeOK DEF TracersNext, Exited

\* The variables keep their types.
THEOREM TracersTypeCorrect == TracersSpec => []TracersTypeOK
  BY TracersInitTypeOK, TracersNextTypeOK, PTL DEF TracersSpec
-----------------------------------------------------------------------------
(* The life of the threads.                                                *)

NoThread == {"none", "exited", "dead"}

\* No tracer thread is alive.
AllGone == \A c \in CPUS : tpc[c] \in NoThread

\* Why nothing is freed in use: threads are only created before the program
\* exits, each is on the list, and what comes after the joins, the release
\* of the devices and exit_tracing, finds no thread alive.
LifeInv ==
    /\ \A c \in CPUS : tpc[c] \notin NoThread => c \in tracers
    /\ mpc \in {"setup", "create"} =>
          /\ ~exiting /\ kstate # "gone"
          /\ \A c \in CPUS \ tracers : tpc[c] = "none"
    /\ mpc = "setup" => tracers = {}
    /\ \/ exiting \/ kstate = "gone"
       \/ mpc \in {"finish", "release", "atexit", "exited"}
       => AllGone

LEMMA InitLifeInv == TracersInit => LifeInv
  BY DEF TracersInit, LifeInv, AllGone, NoThread

LEMMA NextLifeInv == TracersTypeOK /\ LifeInv /\ [TracersNext]_tracersvars => LifeInv'
  <1> SUFFICES ASSUME TracersTypeOK, LifeInv, [TracersNext]_tracersvars PROVE LifeInv'
    OBVIOUS
  <1> USE DEF LifeInv, AllGone, NoThread, mainvars, flags, counters, sync,
              handler
  <1>1. CASE MainSetup
    BY <1>1 DEF MainSetup
  <1>2. CASE MainCreateFails
    BY <1>2 DEF MainCreateFails
  <1>3. CASE MainWaitReady
    BY <1>3 DEF MainWaitReady, MainWaitLoop
  <1>4. CASE MainWaitLeaving
    BY <1>4 DEF MainWaitLeaving, MainWaitLoop
  <1>5. CASE MainTimeout
    BY <1>5 DEF MainTimeout
  <1>6. CASE MainDecide
    BY <1>6 DEF MainDecide, StopTrace
  <1>7. CASE MainUnblock
    BY <1>7 DEF MainUnblock
  <1>8. CASE MainStartTrace
    BY <1>8 DEF MainStartTrace, StartTrace, WaitTracers
  <1>9. CASE MainMark
    BY <1>9 DEF MainMark
  <1>10. CASE MainBroadcast
    BY <1>10 DEF MainBroadcast, WaitTracers
  <1>11. CASE MainProcess
    BY <1>11 DEF MainProcess
  <1>12. CASE MainJoin
    BY <1>12 DEF MainJoin, TracersTypeOK, TracerStates
  <1>13. CASE MainFinish
    BY <1>13 DEF MainFinish
  <1>14. CASE MainRelease
    BY <1>14 DEF MainRelease
  <1>15. CASE MainExitTracing
    BY <1>15 DEF MainExitTracing
  <1>16. ASSUME NEW c \in CPUS, MainCreate(c) PROVE LifeInv'
    BY <1>16 DEF MainCreate, TracersTypeOK
  <1>17. ASSUME NEW c \in CPUS, TracerStep(c) PROVE LifeInv'
    <2>1. /\ tpc[c] \notin NoThread /\ \E s \in TracerStates :
                                          tpc' = [tpc EXCEPT ![c] = s]
          /\ UNCHANGED <<mpc, exiting, tracers, kstate>>
      BY <1>17 DEF TracerStep, TracerOpen, TracerSignalReady, TracerCheck,
                   TracerBlock, TracerRead, TracerSeesDone, TracerDrain, TracersTypeOK,
                   TracerStates
    <2> QED
      BY <2>1 DEF TracersTypeOK
  <1>18. ASSUME NEW c \in CPUS, SpuriousWakeup(c) \/ Produce(c) PROVE LifeInv'
    BY <1>18 DEF SpuriousWakeup, Produce
  <1>19. ASSUME NEW t \in Threads, SignalArrives(t) PROVE LifeInv'
    BY <1>19 DEF SignalArrives
  <1>20. CASE HandlerStep
    BY <1>20 DEF HandlerStep, HandlerStop, HandlerMark, HandlerBroadcast,
                 StopTrace
  <1>21. CASE UNCHANGED tracersvars
    BY <1>21 DEF tracersvars
  <1> QED
    BY <1>1, <1>2, <1>3, <1>4, <1>5, <1>6, <1>7, <1>8, <1>9, <1>10, <1>11,
       <1>12, <1>13, <1>14, <1>15, <1>16, <1>17, <1>18, <1>19, <1>20, <1>21
       DEF TracersNext, MainStep, Exited

\* While a thread lives, its struct tracer and the kernel's trace are there.
THEOREM NothingFreedInUseHolds == TracersSpec => []NothingFreedInUse
  <1>1. LifeInv => NothingFreedInUse
    BY DEF LifeInv, AllGone, NoThread, NothingFreedInUse
  <1> QED
    BY TracersInitTypeOK, TracersNextTypeOK, InitLifeInv, NextLifeInv, <1>1, PTL DEF TracersSpec
-----------------------------------------------------------------------------
(* The counters.                                                           *)

Running == {c \in CPUS : Reported(c)}
Failed  == {c \in CPUS : tpc[c] = "dead"}
Left    == {c \in CPUS : tpc[c] = "exited"}

LEMMA InitCounters == TracersInit => CountersExact
  <1> SUFFICES ASSUME TracersInit PROVE CountersExact
    OBVIOUS
  <1>1. Running = {} /\ Failed = {} /\ Left = {}
    BY DEF TracersInit, Running, Failed, Left, Reported
  <1> QED
    BY <1>1, FS_EmptySet DEF TracersInit, CountersExact, Running, Failed, Left

\* A report moves its tracer into the set its counter counts.
LEMMA ReportCounted ==
    ASSUME TracersTypeOK, CountersExact, NEW c \in CPUS, TracerSignalReady(c)
    PROVE  CountersExact'
  <1>1. IsFiniteSet(Running) /\ IsFiniteSet(Failed) /\ IsFiniteSet(Left)
    BY TracersAssumption, FS_Subset DEF Running, Failed, Left
  <1>2. CASE /\ tpc[c] = "ready" /\ tpc' = [tpc EXCEPT ![c] = "check"]
             /\ nthreads_running' = nthreads_running + 1
             /\ UNCHANGED <<nthreads_error, nthreads_leaving>>
    <2>1. /\ Running' = Running \cup {c} /\ c \notin Running
          /\ Failed' = Failed /\ Left' = Left
      BY <1>2 DEF Running, Failed, Left, Reported, TracersTypeOK
    <2> QED
      BY <1>1, <1>2, <2>1, FS_AddElement
         DEF CountersExact, Running, Failed, Left
  <1>3. CASE /\ tpc[c] = "failed" /\ tpc' = [tpc EXCEPT ![c] = "dead"]
             /\ nthreads_error' = nthreads_error + 1
             /\ UNCHANGED <<nthreads_running, nthreads_leaving>>
    <2>1. /\ Failed' = Failed \cup {c} /\ c \notin Failed
          /\ Running' = Running /\ Left' = Left
      BY <1>3 DEF Running, Failed, Left, Reported, TracersTypeOK
    <2> QED
      BY <1>1, <1>3, <2>1, FS_AddElement
         DEF CountersExact, Running, Failed, Left
  <1>4. CASE /\ tpc[c] = "leave" /\ tpc' = [tpc EXCEPT ![c] = "exited"]
             /\ nthreads_leaving' = nthreads_leaving + 1
             /\ UNCHANGED <<nthreads_running, nthreads_error>>
    <2>1. /\ Left' = Left \cup {c} /\ c \notin Left
          /\ Failed' = Failed /\ Running' = Running
      BY <1>4 DEF Running, Failed, Left, Reported, TracersTypeOK
    <2> QED
      BY <1>1, <1>4, <2>1, FS_AddElement
         DEF CountersExact, Running, Failed, Left
  <1> QED
    BY <1>2, <1>3, <1>4 DEF TracerSignalReady

\* Any other step leaves the three sets, and the counters, as they are.
LEMMA NoReportSameCount ==
    ASSUME TracersTypeOK, LifeInv, [TracersNext]_tracersvars,
           \A c \in CPUS : ~TracerSignalReady(c)
    PROVE  /\ Running' = Running /\ Failed' = Failed /\ Left' = Left
           /\ UNCHANGED counters
  <1> USE DEF Running, Failed, Left, Reported, mainvars, flags, counters, sync,
              handler
  <1>1. CASE MainStep
    <2>1. ASSUME NEW c \in CPUS, MainCreate(c)
          PROVE  /\ tpc[c] = "none" /\ tpc' = [tpc EXCEPT ![c] = "open"]
                 /\ UNCHANGED counters
      BY <2>1 DEF MainCreate, LifeInv
    <2>2. ASSUME NEW c \in CPUS, MainCreate(c)
          PROVE  Running' = Running /\ Failed' = Failed /\ Left' = Left
      BY <2>1, <2>2 DEF TracersTypeOK
    <2>3. ASSUME ~ \E c \in CPUS : MainCreate(c)
          PROVE  UNCHANGED <<tpc, counters>>
      BY <1>1, <2>3 DEF MainStep, MainSetup, MainCreateFails, MainWaitReady,
         MainWaitLeaving, MainWaitLoop, MainTimeout, MainDecide, MainUnblock,
         MainStartTrace, MainMark, MainBroadcast, MainProcess, MainJoin,
         MainFinish, MainRelease, MainExitTracing
    <2> QED
      BY <2>1, <2>2, <2>3
  <1>2. ASSUME NEW c \in CPUS, TracerStep(c)
        PROVE  /\ Running' = Running /\ Failed' = Failed /\ Left' = Left
               /\ UNCHANGED counters
    <2>1. \/ /\ tpc[c] = "open" /\ UNCHANGED counters
             /\ \E s \in {"ready", "failed"} : tpc' = [tpc EXCEPT ![c] = s]
          \/ /\ tpc[c] \in {"check", "blocking", "waiting", "poll", "drain"}
             /\ UNCHANGED counters
             /\ \E s \in {"blocking", "waiting", "poll", "drain", "leave"} :
                    tpc' = [tpc EXCEPT ![c] = s]
          \/ UNCHANGED <<tpc, counters>>
      BY <1>2 DEF TracerStep, TracerOpen, TracerCheck, TracerBlock,
                  TracerRead, TracerSeesDone, TracerDrain
    <2> QED
      BY <2>1 DEF TracersTypeOK
  <1>3. CASE \/ \E c \in CPUS : SpuriousWakeup(c) \/ Produce(c)
             \/ \E t \in Threads : SignalArrives(t)
             \/ HandlerStep \/ UNCHANGED tracersvars
    BY <1>3 DEF SpuriousWakeup, Produce, SignalArrives, HandlerStep,
                HandlerStop, HandlerMark, HandlerBroadcast, tracersvars
  <1> QED
    BY <1>1, <1>2, <1>3 DEF TracersNext, Exited

LEMMA NextCounters ==
    TracersTypeOK /\ LifeInv /\ CountersExact /\ [TracersNext]_tracersvars => CountersExact'
  <1> SUFFICES ASSUME TracersTypeOK, LifeInv, CountersExact, [TracersNext]_tracersvars
               PROVE  CountersExact'
    OBVIOUS
  <1>1. CASE \E c \in CPUS : TracerSignalReady(c)
    BY <1>1, ReportCounted
  <1>2. CASE \A c \in CPUS : ~TracerSignalReady(c)
    BY <1>2, NoReportSameCount
       DEF CountersExact, Running, Failed, Left, counters
  <1> QED
    BY <1>1, <1>2

\* The counters main waits on are exact, whatever the order of the reports.
THEOREM CountersExactHolds == TracersSpec => []CountersExact
  BY TracersInitTypeOK, TracersNextTypeOK, InitLifeInv, NextLifeInv, InitCounters,
     NextCounters, PTL DEF TracersSpec
-----------------------------------------------------------------------------
(* The start.                                                              *)

AllRunning == nthreads_running = Cardinality(CPUS)

\* tracers_run is only set, and main is only about to set it, once all run;
\* a tracer reads only if it saw that, or was told to quit.
StartInv ==
    /\ StartedTogether
    /\ tracers_run \/ mpc = "unblock" => AllRunning

LEMMA InitStartInv == TracersInit => StartInv
  BY DEF TracersInit, StartInv, StartedTogether

\* Once all tracers run none is left to report: the count stays.
LEMMA AllRunningStable ==
    TracersTypeOK /\ LifeInv /\ CountersExact /\ [TracersNext]_tracersvars /\ AllRunning
        => AllRunning'
  <1> SUFFICES ASSUME TracersTypeOK, LifeInv, CountersExact, [TracersNext]_tracersvars, AllRunning
               PROVE  AllRunning'
    OBVIOUS
  <1>1. Running = CPUS
    BY TracersAssumption, FS_Subset DEF AllRunning, CountersExact, Running
  <1>2. nthreads_running' = nthreads_running
    <2>1. CASE \E c \in CPUS : TracerSignalReady(c)
      BY <2>1, <1>1 DEF TracerSignalReady, Running, Reported
    <2>2. CASE \A c \in CPUS : ~TracerSignalReady(c)
      BY <2>2, NoReportSameCount DEF counters
    <2> QED
      BY <2>1, <2>2
  <1> QED
    BY <1>2 DEF AllRunning

LEMMA NextStartInv ==
    TracersTypeOK /\ LifeInv /\ CountersExact /\ StartInv /\ [TracersNext]_tracersvars => StartInv'
  <1> SUFFICES ASSUME TracersTypeOK, LifeInv, CountersExact, StartInv, [TracersNext]_tracersvars
               PROVE  StartInv'
    OBVIOUS
  <1> USE DEF mainvars, flags, counters, sync, handler
  <1>1. AllRunning => AllRunning'
    BY AllRunningStable
  <1>2. \A c \in CPUS : is_done[c] => is_done'[c]
    <2>1. is_done' = is_done \/ is_done' = TellTracers
      BY DEF TracersNext, MainStep, MainSetup, MainCreateFails, MainWaitReady,
         MainWaitLeaving, MainWaitLoop, MainTimeout, MainDecide, MainUnblock,
         MainStartTrace, MainMark, MainBroadcast, MainProcess, MainJoin,
         MainFinish, MainRelease, MainExitTracing, MainCreate, TracerStep,
         TracerOpen, TracerSignalReady, TracerCheck, TracerBlock, TracerRead,
         TracerSeesDone, TracerDrain, SpuriousWakeup, Produce, SignalArrives,
         HandlerStep, HandlerStop, HandlerMark, HandlerBroadcast, Exited, tracersvars
    <2> QED
      BY <2>1 DEF TellTracers
  <1>3. tracers_run' \/ mpc' = "unblock" => AllRunning
    <2>1. CASE MainDecide
      BY <2>1 DEF MainDecide, StartInv, AllRunning
    <2>2. CASE MainUnblock
      BY <2>2 DEF MainUnblock, StartInv
    <2>3. CASE ~MainDecide /\ ~MainUnblock
      <3>1. tracers_run' = tracers_run /\ (mpc' = "unblock" => mpc = "unblock")
        BY <2>3 DEF TracersNext, MainStep, MainSetup, MainCreateFails, MainWaitReady,
           MainWaitLeaving, MainWaitLoop, MainTimeout, MainStartTrace,
           MainMark, MainBroadcast, MainProcess, MainJoin, MainFinish,
           MainRelease, MainExitTracing, MainCreate, WaitTracers, TracerStep,
           TracerOpen, TracerSignalReady, TracerCheck, TracerBlock, TracerRead,
           TracerSeesDone, TracerDrain, SpuriousWakeup, Produce, SignalArrives,
           HandlerStep, HandlerStop, HandlerMark, HandlerBroadcast, Exited, tracersvars
      <3> QED
        BY <3>1 DEF StartInv
    <2> QED
      BY <2>1, <2>2, <2>3
  <1> DEFINE Past == {"poll", "drain", "leave", "exited"}
  <1>4. ASSUME NEW c \in CPUS, tpc'[c] \in Past, tpc[c] \notin Past
        PROVE  TracerCheck(c) /\ (is_done[c] \/ tracers_run)
    <2>1. ~ MainStep
      BY <1>4 DEF MainStep, MainSetup, MainCreateFails, MainWaitReady,
         MainWaitLeaving, MainWaitLoop, MainTimeout, MainDecide, MainUnblock,
         MainStartTrace, MainMark, MainBroadcast, MainProcess, MainJoin,
         MainFinish, MainRelease, MainExitTracing, MainCreate, TracersTypeOK
    <2>2. PICK d \in CPUS : TracerStep(d)
      BY <1>4, <2>1 DEF TracersNext, SpuriousWakeup, Produce, SignalArrives,
         HandlerStep, HandlerStop, HandlerMark, HandlerBroadcast, Exited, tracersvars
    <2>3. TracerCheck(d) /\ d = c
      BY <1>4, <2>2 DEF TracerStep, TracerOpen, TracerSignalReady, TracerCheck,
         TracerBlock, TracerRead, TracerSeesDone, TracerDrain, TracersTypeOK
    <2> QED
      BY <1>4, <2>3 DEF TracerCheck, TracersTypeOK
  <1>5. StartedTogether'
    BY <1>1, <1>2, <1>4 DEF StartedTogether, StartInv, AllRunning
  <1> QED
    BY <1>1, <1>3, <1>5 DEF StartInv

\* A tracer reads only when every CPU's tracer is up, or to drain and leave.
THEOREM StartedTogetherHolds == TracersSpec => []StartedTogether
  <1>1. StartInv => StartedTogether
    BY DEF StartInv
  <1> QED
    BY TracersInitTypeOK, TracersNextTypeOK, InitLifeInv, NextLifeInv, InitCounters,
       NextCounters, InitStartInv, NextStartInv, <1>1, PTL DEF TracersSpec

\* What run_tracers relies on, for any CPUs, failures and signals.
THEOREM TracersAccountedHolds == TracersSpec => []TracersAccounted
  BY TracersTypeCorrect, CountersExactHolds, StartedTogetherHolds,
     NothingFreedInUseHolds, PTL DEF TracersAccounted
-----------------------------------------------------------------------------
(* The end.                                                                *)

\* Where main is until it has started the kernel's trace.
Starting == {"setup", "create", "ready", "decide", "unblock", "startTrace"}

\* Why nothing is recorded once a tracer may have been told to quit: whoever
\* tells it has stopped the trace, and main, which alone starts it, does so
\* before any signal.
DrainInv ==
    /\ DrainedBeforeLeaving
    /\ \A c \in CPUS : tpc[c] \in {"drain", "leave", "exited"} => is_done[c]
    /\ kstate = "running" => \A c \in CPUS : ~is_done[c]
    /\ mpc \in Starting => hpc = "idle" /\ \A c \in CPUS : ~is_done[c]
    /\ mpc = "mark" \/ hpc = "mark" => kstate # "running"
    /\ exiting \/ mpc = "atexit" => kstate = "gone"

LEMMA InitDrainInv == TracersInit => DrainInv
  BY DEF TracersInit, DrainInv, DrainedBeforeLeaving

LEMMA NextDrainInv ==
    ~EarlySignal /\ TracersTypeOK /\ LifeInv /\ DrainInv /\ [TracersNext]_tracersvars => DrainInv'
  <1> SUFFICES ASSUME ~EarlySignal, TracersTypeOK, LifeInv, DrainInv, [TracersNext]_tracersvars
               PROVE  DrainInv'
    OBVIOUS
  <1> USE DEF DrainInv, DrainedBeforeLeaving, Starting, mainvars, flags,
              counters, sync, handler
  <1>1. CASE MainSetup
    BY <1>1 DEF MainSetup, LifeInv
  <1>2. CASE MainCreateFails
    BY <1>2 DEF MainCreateFails
  <1>3. CASE MainWaitReady
    BY <1>3 DEF MainWaitReady, MainWaitLoop
  <1>4. CASE MainWaitLeaving
    BY <1>4 DEF MainWaitLeaving, MainWaitLoop
  <1>5. CASE MainTimeout
    BY <1>5 DEF MainTimeout
  <1>6. CASE MainDecide
    BY <1>6 DEF MainDecide, StopTrace
  <1>7. CASE MainUnblock
    BY <1>7 DEF MainUnblock
  <1>8. CASE MainStartTrace
    BY <1>8 DEF MainStartTrace, StartTrace, WaitTracers
  <1>9. CASE MainMark
    BY <1>9 DEF MainMark, TellTracers, TracersTypeOK
  <1>10. CASE MainBroadcast
    BY <1>10 DEF MainBroadcast, WaitTracers
  <1>11. CASE MainProcess
    BY <1>11 DEF MainProcess
  <1>12. CASE MainJoin
    BY <1>12 DEF MainJoin
  <1>13. CASE MainFinish
    BY <1>13 DEF MainFinish
  <1>14. CASE MainRelease
    BY <1>14 DEF MainRelease
  <1>15. CASE MainExitTracing
    BY <1>15 DEF MainExitTracing
  <1>16. ASSUME NEW c \in CPUS, MainCreate(c) PROVE DrainInv'
    BY <1>16 DEF MainCreate, TracersTypeOK
  <1>17. ASSUME NEW c \in CPUS, TracerStep(c) PROVE DrainInv'
    <2>1. UNCHANGED <<mpc, exiting, is_done, kstate, hpc>>
      BY <1>17 DEF TracerStep, TracerOpen, TracerSignalReady, TracerCheck,
                   TracerBlock, TracerRead, TracerSeesDone, TracerDrain
    <2>2. ASSUME NEW d \in CPUS, tpc'[d] \in {"drain", "leave", "exited"}
          PROVE  /\ is_done[d]
                 /\ tpc'[d] # "drain" => pending'[d] = 0
      <3>1. CASE d # c
        <4>1. tpc'[d] = tpc[d] /\ pending'[d] = pending[d]
          BY <1>17, <3>1 DEF TracerStep, TracerOpen, TracerSignalReady,
             TracerCheck, TracerBlock, TracerRead, TracerSeesDone, TracerDrain,
             TracersTypeOK
        <4> QED
          BY <2>2, <4>1
      <3>2. CASE d = c
        <4>1. CASE TracerSeesDone(c) \/ TracerDrain(c)
          BY <4>1, <3>2, <2>2 DEF TracerSeesDone, TracerDrain, TracersTypeOK
        <4>2. CASE TracerSignalReady(c)
          BY <4>2, <3>2, <2>2 DEF TracerSignalReady, TracersTypeOK
        <4>3. CASE TracerOpen(c) \/ TracerCheck(c) \/ TracerBlock(c)
                   \/ TracerRead(c)
          BY <4>3, <3>2, <2>2 DEF TracerOpen, TracerCheck, TracerBlock,
             TracerRead, TracersTypeOK
        <4> QED
          BY <1>17, <4>1, <4>2, <4>3 DEF TracerStep
      <3> QED
        BY <3>1, <3>2
    <2> QED
      BY <2>1, <2>2
  <1>18. ASSUME NEW c \in CPUS, SpuriousWakeup(c) PROVE DrainInv'
    BY <1>18 DEF SpuriousWakeup
  <1>19. ASSUME NEW c \in CPUS, Produce(c) PROVE DrainInv'
    BY <1>19 DEF Produce, TracersTypeOK
  <1>20. ASSUME NEW t \in Threads, SignalArrives(t) PROVE DrainInv'
    BY <1>20 DEF SignalArrives, Started
  <1>21. CASE HandlerStop
    BY <1>21 DEF HandlerStop, StopTrace
  <1>22. CASE HandlerMark
    BY <1>22 DEF HandlerMark, TellTracers, TracersTypeOK
  <1>23. CASE HandlerBroadcast
    BY <1>23 DEF HandlerBroadcast
  <1>24. CASE UNCHANGED tracersvars
    BY <1>24 DEF tracersvars
  <1> QED
    BY <1>1, <1>2, <1>3, <1>4, <1>5, <1>6, <1>7, <1>8, <1>9, <1>10, <1>11,
       <1>12, <1>13, <1>14, <1>15, <1>16, <1>17, <1>18, <1>19, <1>20, <1>21,
       <1>22, <1>23, <1>24 DEF TracersNext, MainStep, HandlerStep, Exited

\* If no signal comes before the traces are started, a tracer that leaves has
\* read all its CPU's data, whatever fails and whichever thread is told first.
THEOREM DrainedBeforeLeavingHolds ==
    ASSUME ~EarlySignal
    PROVE  TracersSpec => []DrainedBeforeLeaving
  <1>1. TracersInit => TracersTypeOK /\ LifeInv /\ DrainInv
    BY TracersInitTypeOK, InitLifeInv, InitDrainInv
  <1>2. TracersTypeOK /\ LifeInv /\ DrainInv /\ [TracersNext]_tracersvars
           => (TracersTypeOK /\ LifeInv /\ DrainInv)'
    BY TracersNextTypeOK, NextLifeInv, NextDrainInv
  <1>3. DrainInv => DrainedBeforeLeaving
    BY DEF DrainInv
  <1> QED
    BY <1>1, <1>2, <1>3, PTL DEF TracersSpec
=============================================================================
