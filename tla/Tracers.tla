------------------------------ MODULE Tracers ------------------------------
(***************************************************************************)
(* The life cycle of blktrace's threads (blktrace.c): the main thread      *)
(* creates one tracer per CPU, waits until each has reported, unblocks     *)
(* them, starts the kernel traces, and on a signal stops the traces, tells *)
(* the tracers to quit, waits for them and releases what they used.        *)
(*                                                                         *)
(* What goes through pthread_mutex_lock .. unlock without blocking is one  *)
(* step.  The exception is the tracers' untimed wait: the test of is_done  *)
(* and tracers_run, and going to sleep, are two steps, because stop_tracers*)
(* changes is_done without holding mt_mutex.                               *)
(*                                                                         *)
(* All devices are opened, started, stopped and torn down by the same      *)
(* loops, so one kernel trace stands for them; what a tracer does with the *)
(* data it reads is modelled in PipedOutput and MmapWindow.                *)
(***************************************************************************)
EXTENDS Naturals, FiniteSets

CONSTANTS CPUS,         \* the CPUs, one tracer each
          Main,         \* the main thread
          Nobody,       \* the holder of a free mutex
          UsePipe,      \* use_tracer_devpaths(): buffers go through main
          MayFail,      \* set-up steps may fail
          EarlySignal,  \* a user's signal may arrive before start_buts
          MaxSignals,   \* bound: signals delivered
          MaxPending    \* bound: data waiting in a relay buffer

ASSUME TracersAssumption ==
    /\ IsFiniteSet(CPUS) /\ CPUS # {}
    /\ Main \notin CPUS /\ Nobody \notin CPUS /\ Main # Nobody
    /\ UsePipe \in BOOLEAN /\ MayFail \in BOOLEAN /\ EarlySignal \in BOOLEAN
    /\ MaxSignals \in Nat /\ MaxPending \in Nat

VARIABLES
    mpc,               \* where the main thread is
    exiting,           \* main runs the atexit handler exit_tracing
    tracers,           \* the list of tracers
    tpc,               \* where each tracer thread is
    is_done,           \* struct tracer: told to quit
    done,              \* global: a signal asked for the end
    tracers_run,       \* global: the tracers may start
    nthreads_running, nthreads_error, nthreads_leaving,
    mt_mutex,          \* the holder of mt_mutex
    waiters,           \* the threads asleep on mt_cond
    kstate,            \* the kernel's trace of the devices
    pending,           \* data in each CPU's relay buffer, not yet read
    hpc, victim,       \* handle_sigint: where it is, the thread it runs in
    nsignals           \* signals delivered so far

counters == <<nthreads_running, nthreads_error, nthreads_leaving>>
handler  == <<hpc, victim, nsignals>>
mainvars == <<mpc, exiting>>
flags    == <<is_done, done, tracers_run>>
sync     == <<mt_mutex, waiters>>
tracersvars == <<mainvars, tracers, tpc, flags, counters, sync, kstate,
                 pending, handler>>

Threads == CPUS \cup {Main}

MainStates == {"setup", "create", "ready", "decide", "unblock", "startTrace",
               "mark", "broadcast", "process", "leaving", "join", "finish",
               "release", "atexit", "exited"}
TracerStates == {"none", "open", "ready", "check", "blocking", "waiting",
                 "poll", "drain", "leave", "failed", "exited", "dead"}
KernelStates == {"none", "setup", "running", "stopped", "gone"}

TracersTypeOK ==
    /\ mpc \in MainStates /\ exiting \in BOOLEAN
    /\ tracers \subseteq CPUS
    /\ tpc \in [CPUS -> TracerStates]
    /\ is_done \in [CPUS -> BOOLEAN]
    /\ done \in BOOLEAN /\ tracers_run \in BOOLEAN
    /\ nthreads_running \in Nat /\ nthreads_error \in Nat
    /\ nthreads_leaving \in Nat
    /\ mt_mutex \in CPUS \cup {Nobody}
    /\ waiters \subseteq Threads
    /\ kstate \in KernelStates
    /\ pending \in [CPUS -> 0..MaxPending]
    /\ hpc \in {"idle", "stop", "mark", "broadcast"}
    /\ victim \in Threads /\ nsignals \in 0..MaxSignals

TracersInit ==
    /\ mpc = "setup" /\ exiting = FALSE
    /\ tracers = {}
    /\ tpc = [c \in CPUS |-> "none"]
    /\ is_done = [c \in CPUS |-> FALSE]
    /\ done = FALSE /\ tracers_run = FALSE
    /\ nthreads_running = 0 /\ nthreads_error = 0 /\ nthreads_leaving = 0
    /\ mt_mutex = Nobody /\ waiters = {}
    /\ kstate = "none"
    /\ pending = [c \in CPUS |-> 0]
    /\ hpc = "idle" /\ victim = Main /\ nsignals = 0
-----------------------------------------------------------------------------
(* Helpers.                                                                *)

\* A thread takes no step of its own while the signal handler runs in it.
Runs(t) == hpc = "idle" \/ victim # t

MutexFree == mt_mutex = Nobody

\* pthread_cond_signal(&mt_cond): one sleeping thread, if there is one.
Signal == \/ waiters = {} /\ waiters' = waiters
          \/ \E t \in waiters : waiters' = waiters \ {t}

\* The two ioctls, as the kernel answers them.
StopTrace == IF kstate = "running" THEN "stopped" ELSE kstate
StartTrace == IF kstate \in {"setup", "stopped"} THEN "running" ELSE kstate

\* Mutant: stop_tracers forgets its second loop.
TellNobody == is_done

\* The second loop of stop_tracers reaches the tracers on the list.
TellTracers == [c \in CPUS |-> is_done[c] \/ c \in tracers]

\* Mutant: run_tracers goes on without wait_tracers.
SkipWaitTracers == "finish"

\* The stages of wait_tracers; process_trace_bufs only for buffers that
\* travel through the main thread.
WaitTracers == IF UsePipe THEN "process" ELSE "leaving"
-----------------------------------------------------------------------------
(* The main thread.                                                        *)

\* setup_buts and setup_tracer_devpaths.  BLKTRACESETUP may fail (the trace
\* files are then missing); setup_tracer_devpaths may fail to connect to the
\* server, and run_tracers returns.
MainSetup ==
    /\ mpc = "setup" /\ Runs(Main)
    /\ \/ kstate' = "setup" /\ mpc' = "create"
       \/ MayFail /\ kstate' = "none" /\ mpc' = "create"
       \/ MayFail /\ UsePipe /\ kstate' = "setup" /\ mpc' = "release"
    /\ UNCHANGED <<exiting, tracers, tpc, flags, counters, sync, pending,
                   handler>>

\* start_tracer.
MainCreate(c) ==
    /\ mpc = "create" /\ Runs(Main)
    /\ c \notin tracers
    /\ tracers' = tracers \cup {c}
    /\ tpc' = [tpc EXCEPT ![c] = "open"]
    /\ mpc' = IF tracers' = CPUS THEN "ready" ELSE "create"
    /\ UNCHANGED <<exiting, flags, counters, sync, kstate, pending, handler>>

\* start_tracer fails in pthread_create: the loop of start_tracers ends.
MainCreateFails ==
    /\ mpc = "create" /\ Runs(Main) /\ MayFail
    /\ mpc' = "ready"
    /\ UNCHANGED <<exiting, tracers, tpc, flags, counters, sync, kstate,
                   pending, handler>>

\* Mutant: wait_tracers_ready forgets the tracers that failed.
ReadyOnly == nthreads_running

ReadyOrFailed == nthreads_running + nthreads_error

\* One turn of a wait loop on mt_cond: sleep again, or go on.
MainWaitLoop(stage, satisfied, next) ==
    /\ mpc = stage /\ Runs(Main) /\ MutexFree /\ Main \notin waiters
    /\ IF satisfied
       THEN mpc' = next /\ UNCHANGED waiters
       ELSE waiters' = waiters \cup {Main} /\ UNCHANGED mpc
    /\ UNCHANGED <<exiting, tracers, tpc, flags, counters, mt_mutex, kstate,
                   pending, handler>>

MainWaitReady ==
    MainWaitLoop("ready", ReadyOrFailed >= Cardinality(tracers), "decide")

MainWaitLeaving ==
    MainWaitLoop("leaving", nthreads_leaving >= nthreads_running, "join")

\* pthread_cond_timedwait returns after 50 ms.
MainTimeout ==
    /\ Main \in waiters /\ Runs(Main)
    /\ waiters' = waiters \ {Main}
    /\ UNCHANGED <<mainvars, tracers, tpc, flags, counters, mt_mutex, kstate,
                   pending, handler>>

\* Mutant: run_tracers unblocks as soon as some tracer runs.
DecideOnAny ==
    /\ mpc = "decide" /\ Runs(Main)
    /\ IF nthreads_running > 0
       THEN mpc' = "unblock" /\ UNCHANGED kstate
       ELSE mpc' = "mark" /\ kstate' = StopTrace
    /\ UNCHANGED <<exiting, tracers, tpc, flags, counters, sync, pending,
                   handler>>

\* run_tracers after start_tracers; a start that failed goes through
\* stop_tracers, whose first loop stops the kernel's traces.
MainDecide ==
    /\ mpc = "decide" /\ Runs(Main)
    /\ IF nthreads_running = Cardinality(CPUS)
       THEN mpc' = "unblock" /\ UNCHANGED kstate
       ELSE mpc' = "mark" /\ kstate' = StopTrace
    /\ UNCHANGED <<exiting, tracers, tpc, flags, counters, sync, pending,
                   handler>>

\* unblock_tracers.
MainUnblock ==
    /\ mpc = "unblock" /\ Runs(Main) /\ MutexFree
    /\ tracers_run' = TRUE
    /\ waiters' = {}
    /\ mpc' = "startTrace"
    /\ UNCHANGED <<exiting, tracers, tpc, is_done, done, counters, mt_mutex,
                   kstate, pending, handler>>

\* start_buts, and alarm.
MainStartTrace ==
    /\ mpc = "startTrace" /\ Runs(Main)
    /\ kstate' = StartTrace
    /\ mpc' = WaitTracers
    /\ UNCHANGED <<exiting, tracers, tpc, flags, counters, sync, pending,
                   handler>>

\* stop_tracers in the main thread, its second loop.
MainMark ==
    /\ mpc = "mark" /\ Runs(Main)
    /\ is_done' = TellTracers
    /\ mpc' = "broadcast"
    /\ UNCHANGED <<exiting, tracers, tpc, done, tracers_run, counters, sync,
                   kstate, pending, handler>>

\* stop_tracers in the main thread, the broadcast (without mt_mutex).
MainBroadcast ==
    /\ mpc = "broadcast" /\ Runs(Main)
    /\ waiters' = {}
    /\ mpc' = WaitTracers
    /\ UNCHANGED <<exiting, tracers, tpc, flags, counters, mt_mutex, kstate,
                   pending, handler>>

\* process_trace_bufs goes round, every 50 ms if nothing comes, until
\* wait_empty_entries has seen done.
MainProcess ==
    /\ mpc = "process" /\ Runs(Main)
    /\ mpc' = IF done THEN "leaving" ELSE "process"
    /\ UNCHANGED <<exiting, tracers, tpc, flags, counters, sync, kstate,
                   pending, handler>>

\* The loop of pthread_join, then clean_trace_bufs.
MainJoin ==
    /\ mpc = "join" /\ Runs(Main)
    /\ \A c \in tracers : tpc[c] \in {"exited", "dead"}
    /\ mpc' = "finish"
    /\ UNCHANGED <<exiting, tracers, tpc, flags, counters, sync, kstate,
                   pending, handler>>

\* get_all_drops, show_stats, close_client_connections, del_tracers.
MainFinish ==
    /\ mpc = "finish" /\ Runs(Main)
    /\ tracers' = {}
    /\ mpc' = "release"
    /\ UNCHANGED <<exiting, tpc, flags, counters, sync, kstate, pending,
                   handler>>

\* rel_devpaths: BLKTRACESTOP and BLKTRACETEARDOWN for each device, from
\* main's exit and once more (with no device left) from exit_tracing.
MainRelease ==
    /\ mpc = "release" /\ Runs(Main)
    /\ kstate' = "gone"
    /\ mpc' = IF exiting THEN "exited" ELSE "atexit"
    /\ UNCHANGED <<exiting, tracers, tpc, flags, counters, sync, pending,
                   handler>>

\* exit_tracing: from here on the signals are ignored.
MainExitTracing ==
    /\ mpc = "atexit" /\ Runs(Main)
    /\ exiting' = TRUE
    /\ mpc' = "mark"
    /\ UNCHANGED <<tracers, tpc, flags, counters, sync, kstate, pending,
                   handler>>

MainStep ==
    \/ MainSetup \/ MainCreateFails \/ MainWaitReady \/ MainWaitLeaving
    \/ MainTimeout \/ MainDecide \/ MainUnblock \/ MainStartTrace
    \/ MainMark \/ MainBroadcast \/ MainProcess \/ MainJoin \/ MainFinish
    \/ MainRelease \/ MainExitTracing
    \/ \E c \in CPUS : MainCreate(c)
-----------------------------------------------------------------------------
(* The tracer of CPU c: thread_main.                                       *)

\* lock_on_cpu and open_ios; without a kernel trace open_ios finds no file.
TracerOpen(c) ==
    /\ tpc[c] = "open" /\ Runs(c)
    /\ \/ kstate # "none" /\ tpc' = [tpc EXCEPT ![c] = "ready"]
       \/ MayFail /\ tpc' = [tpc EXCEPT ![c] = "failed"]
    /\ UNCHANGED <<mainvars, tracers, flags, counters, sync, kstate, pending,
                   handler>>

\* Mutant: a tracer that failed is also counted as leaving.
SignalReadyErrorLeaves(c) ==
    /\ Runs(c) /\ MutexFree
    /\ \/ /\ tpc[c] = "ready"
          /\ nthreads_running' = nthreads_running + 1
          /\ UNCHANGED <<nthreads_error, nthreads_leaving>>
          /\ tpc' = [tpc EXCEPT ![c] = "check"]
       \/ /\ tpc[c] \in {"failed", "leave"}
          /\ nthreads_leaving' = nthreads_leaving + 1
          /\ UNCHANGED <<nthreads_running, nthreads_error>>
          /\ tpc' = [tpc EXCEPT ![c] = IF @ = "failed" THEN "dead"
                                                     ELSE "exited"]
    /\ Signal
    /\ UNCHANGED <<mainvars, tracers, flags, mt_mutex, kstate, pending,
                   handler>>

\* tracer_signal_ready, for the three reports a tracer makes.
TracerSignalReady(c) ==
    /\ Runs(c) /\ MutexFree
    /\ \/ /\ tpc[c] = "ready"
          /\ nthreads_running' = nthreads_running + 1
          /\ UNCHANGED <<nthreads_error, nthreads_leaving>>
          /\ tpc' = [tpc EXCEPT ![c] = "check"]
       \/ /\ tpc[c] = "failed"
          /\ nthreads_error' = nthreads_error + 1
          /\ UNCHANGED <<nthreads_running, nthreads_leaving>>
          /\ tpc' = [tpc EXCEPT ![c] = "dead"]
       \/ /\ tpc[c] = "leave"
          /\ nthreads_leaving' = nthreads_leaving + 1
          /\ UNCHANGED <<nthreads_running, nthreads_error>>
          /\ tpc' = [tpc EXCEPT ![c] = "exited"]
    /\ Signal
    /\ UNCHANGED <<mainvars, tracers, flags, mt_mutex, kstate, pending,
                   handler>>

\* tracer_wait_unblock: take mt_mutex and test.
TracerCheck(c) ==
    /\ Runs(c) /\ MutexFree
    /\ tpc[c] = "check" \/ (tpc[c] = "waiting" /\ c \notin waiters)
    /\ IF is_done[c] \/ tracers_run
       THEN tpc' = [tpc EXCEPT ![c] = "poll"] /\ UNCHANGED mt_mutex
       ELSE tpc' = [tpc EXCEPT ![c] = "blocking"] /\ mt_mutex' = c
    /\ UNCHANGED <<mainvars, tracers, flags, counters, waiters, kstate,
                   pending, handler>>

\* tracer_wait_unblock: pthread_cond_wait puts the thread to sleep and frees
\* mt_mutex in one step.
TracerBlock(c) ==
    /\ tpc[c] = "blocking" /\ Runs(c)
    /\ tpc' = [tpc EXCEPT ![c] = "waiting"]
    /\ waiters' = waiters \cup {c}
    /\ mt_mutex' = Nobody
    /\ UNCHANGED <<mainvars, tracers, flags, counters, kstate, pending,
                   handler>>

\* pthread_cond_wait may return without a signal.
SpuriousWakeup(c) ==
    /\ tpc[c] = "waiting" /\ c \in waiters /\ Runs(c)
    /\ waiters' = waiters \ {c}
    /\ UNCHANGED <<mainvars, tracers, tpc, flags, counters, mt_mutex, kstate,
                   pending, handler>>

\* Mutant: a read of an empty buffer is accounted as data.
ReadShort(c) ==
    /\ tpc[c] = "poll" /\ Runs(c)
    /\ pending' = [pending EXCEPT ![c] = @ - 1]
    /\ UNCHANGED <<mainvars, tracers, tpc, flags, counters, sync, kstate,
                   handler>>

\* poll and handle_pfds, while is_done is clear or was when last tested.
TracerRead(c) ==
    /\ tpc[c] = "poll" /\ Runs(c)
    /\ pending[c] > 0
    /\ pending' = [pending EXCEPT ![c] = @ - 1]
    /\ UNCHANGED <<mainvars, tracers, tpc, flags, counters, sync, kstate,
                   handler>>

TracerSeesDone(c) ==
    /\ tpc[c] = "poll" /\ Runs(c) /\ is_done[c]
    /\ tpc' = [tpc EXCEPT ![c] = "drain"]
    /\ UNCHANGED <<mainvars, tracers, flags, counters, sync, kstate, pending,
                   handler>>

\* "Trace is stopped, pull data until we get a short read"; then close_ios.
TracerDrain(c) ==
    /\ tpc[c] = "drain" /\ Runs(c)
    /\ IF pending[c] > 0
       THEN pending' = [pending EXCEPT ![c] = @ - 1] /\ UNCHANGED tpc
       ELSE tpc' = [tpc EXCEPT ![c] = "leave"] /\ UNCHANGED pending
    /\ UNCHANGED <<mainvars, tracers, flags, counters, sync, kstate, handler>>

TracerStep(c) ==
    \/ TracerOpen(c) \/ TracerSignalReady(c) \/ TracerCheck(c)
    \/ TracerBlock(c) \/ TracerRead(c) \/ TracerSeesDone(c) \/ TracerDrain(c)
-----------------------------------------------------------------------------
(* The environment: the kernel's probes, and signals.                      *)

Produce(c) ==
    /\ kstate = "running" /\ pending[c] < MaxPending
    /\ pending' = [pending EXCEPT ![c] = @ + 1]
    /\ UNCHANGED <<mainvars, tracers, tpc, flags, counters, sync, kstate,
                   handler>>

Started == mpc \in {"process", "leaving"} /\ tracers_run

\* SIGINT, SIGTERM, SIGHUP or the stopwatch's SIGALRM is delivered to one of
\* the threads.
SignalArrives(t) ==
    /\ hpc = "idle" /\ nsignals < MaxSignals
    /\ ~exiting /\ mpc # "exited"
    /\ EarlySignal \/ Started
    /\ t \in CPUS => tpc[t] \notin {"none", "exited", "dead"}
    /\ hpc' = "stop" /\ victim' = t /\ nsignals' = nsignals + 1
    /\ UNCHANGED <<mainvars, tracers, tpc, flags, counters, sync, kstate,
                   pending>>

\* Mutant: stop_tracers does not stop the kernel's traces.
HandlerNoStop ==
    /\ hpc = "stop"
    /\ done' = TRUE
    /\ hpc' = "mark"
    /\ UNCHANGED <<mainvars, tracers, tpc, is_done, tracers_run, counters,
                   sync, kstate, pending, victim, nsignals>>

\* handle_sigint: done = 1 and the first loop of stop_tracers.
HandlerStop ==
    /\ hpc = "stop"
    /\ done' = TRUE
    /\ kstate' = StopTrace
    /\ hpc' = "mark"
    /\ UNCHANGED <<mainvars, tracers, tpc, is_done, tracers_run, counters,
                   sync, pending, victim, nsignals>>

HandlerMark ==
    /\ hpc = "mark"
    /\ is_done' = TellTracers
    /\ hpc' = "broadcast"
    /\ UNCHANGED <<mainvars, tracers, tpc, done, tracers_run, counters, sync,
                   kstate, pending, victim, nsignals>>

HandlerBroadcast ==
    /\ hpc = "broadcast"
    /\ waiters' = {}
    /\ hpc' = "idle"
    /\ UNCHANGED <<mainvars, tracers, tpc, flags, counters, mt_mutex, kstate,
                   pending, victim, nsignals>>

HandlerStep == HandlerStop \/ HandlerMark \/ HandlerBroadcast

\* The process is gone.
Exited == mpc = "exited" /\ UNCHANGED tracersvars

TracersNext ==
    \/ MainStep
    \/ \E c \in CPUS : TracerStep(c) \/ SpuriousWakeup(c) \/ Produce(c)
    \/ \E t \in Threads : SignalArrives(t)
    \/ HandlerStep
    \/ Exited

TracersSpec == TracersInit /\ [][TracersNext]_tracersvars

\* Threads are scheduled, and a thread that keeps trying to lock mt_mutex gets
\* it.  Signals, spurious wake-ups and I/O are not promised.
Fairness ==
    /\ WF_tracersvars(MainStep) /\ WF_tracersvars(HandlerStep)
    /\ SF_tracersvars(MainWaitReady \/ MainWaitLeaving \/ MainUnblock)
    /\ \A c \in CPUS :
          /\ WF_tracersvars(TracerStep(c))
          /\ SF_tracersvars(TracerSignalReady(c) \/ TracerCheck(c))

FairSpec == TracersInit /\ [][TracersNext]_tracersvars /\ Fairness
-----------------------------------------------------------------------------
(* Properties.                                                             *)

Reported(c) == tpc[c] \in {"check", "blocking", "waiting", "poll", "drain",
                            "leave", "exited"}

\* The three counters main waits on count what they are named for: the
\* tracers that reported running, that reported an error, and that left
\* (tracer_signal_ready against wait_tracers_ready / wait_tracers_leaving).
CountersExact ==
    /\ nthreads_running = Cardinality({c \in CPUS : Reported(c)})
    /\ nthreads_error = Cardinality({c \in CPUS : tpc[c] = "dead"})
    /\ nthreads_leaving = Cardinality({c \in CPUS : tpc[c] = "exited"})

\* No tracer gets past tracer_wait_unblock on its own: until it is told to
\* quit, it reads only once every CPU's tracer is up (run_tracers unblocks
\* them only if nthreads_running == ncpus).
StartedTogether ==
    \A c \in CPUS :
        tpc[c] \in {"poll", "drain", "leave", "exited"}
            => is_done[c] \/ nthreads_running = Cardinality(CPUS)

\* While a tracer thread lives, its struct tracer is on the list (del_tracers
\* has not freed it) and the kernel's trace it reads has not been torn down
\* by rel_devpaths.
NothingFreedInUse ==
    \A c \in CPUS :
        tpc[c] \notin {"none", "exited", "dead"}
            => c \in tracers /\ kstate # "gone"

\* What run_tracers relies on when it unblocks, waits for and frees tracers:
\* the counters are right, tracers read only together, and nothing a tracer
\* uses is freed.
TracersAccounted ==
    TracersTypeOK /\ CountersExact /\ StartedTogether /\ NothingFreedInUse

\* A tracer that leaves has read all its CPU's data: stop_tracers stops the
\* kernel's trace before it tells the tracers to quit, and a tracer told to
\* quit reads until a short read.
DrainedBeforeLeaving ==
    \A c \in CPUS : tpc[c] \in {"leave", "exited"} => pending[c] = 0

\* start_tracers ends, whichever set-up steps fail and whenever a signal
\* comes: main's timed wait makes up for wake-ups other threads consume.
StartsUp == <>(mpc \notin {"setup", "create", "ready"})

\* After a signal blktrace terminates (handle_sigint, wait_tracers, exit).
Stops == nsignals > 0 ~> mpc = "exited"

\* "Tell each tracer to quit" (stop_tracers): a tracer that was told quits.
\* It does not hold, because stop_tracers does not take mt_mutex; the README
\* says how.
ToldTracersQuit ==
    \A c \in CPUS : is_done[c] ~> tpc[c] \in {"exited", "dead"}
=============================================================================
