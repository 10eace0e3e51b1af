------------------------------ MODULE BtReplay ------------------------------
(***************************************************************************)
(* btreplay's threads (btreplay/btreplay.c).  For every input file a       *)
(* sender maps the packets of each bunch onto free iocbs and submits them, *)
(* and a reaper takes the completed ones back; both sleep on the file's    *)
(* one condition variable.  The main thread starts the iterations and      *)
(* waits for the senders and the reapers through counters, each with a     *)
(* mutex and a condition variable of its own.  SIGINT and SIGTERM set      *)
(* signal_done and wake nobody.                                            *)
(*                                                                         *)
(* What happens under a mutex without a wait is one step.  A wait on one   *)
(* of the counters is a guard: its predicate changes under its mutex only, *)
(* and each change signals.  A wait on a file's condition variable is a    *)
(* state, left when the thread is woken.  A failed assert ends the         *)
(* process.                                                                *)
(***************************************************************************)
EXTENDS Integers, Sequences, FiniteSets

CONSTANTS Files,       \* input_files
          NAios,       \* naios: iocbs per file
          Bunches,     \* per file: the number of packets in each bunch
          Iterations,  \* def_iterations
          MaySignal    \* SIGINT or SIGTERM may come

ASSUME BtReplayAssumption ==
    /\ IsFiniteSet(Files) /\ Files # {}
    /\ NAios \in Nat \ {0}
    /\ Bunches \in [Files -> Seq(Nat \ {0})]
    /\ Iterations \in Nat /\ MaySignal \in BOOLEAN

nfiles == Cardinality(Files)

VARIABLES
    signal_done,
    mpc, round,           \* main, and the iterations it has started
    n_replays_ready, n_iters_done, iter_start, n_replays_done,
    n_reclaims_done,
    naios_out, naios_free, send_wait, reap_wait, send_done, reap_done,
    iterations,           \* per file: iterations the sender has left
    spc, bunch, i, ntodo, \* per file: the sender, and its local variables
    rpc, nreap, ndone,    \* per file: the reaper, and its local variables
    flying,               \* per file: I/Os submitted and not yet returned
    aborted               \* an assert failed

mvars  == <<mpc, round>>
cvs    == <<n_replays_ready, n_iters_done, iter_start, n_replays_done,
            n_reclaims_done>>
aios   == <<naios_out, naios_free>>
waits  == <<send_wait, reap_wait>>
dones  == <<send_done, reap_done>>
sender == <<iterations, spc, bunch, i, ntodo>>
reaper == <<rpc, nreap, ndone>>
vars == <<signal_done, mvars, cvs, aios, waits, dones, sender, reaper, flying,
          aborted>>

SenderStates == {"ready", "top", "start", "bunch", "process", "nfree",
                 "asleep", "map", "submit", "count", "iterdone", "end",
                 "done", "gone"}
ReaperStates == {"check", "wait", "asleep", "get", "reap", "finish", "gone"}

TypeOK ==
    /\ signal_done \in BOOLEAN /\ aborted \in BOOLEAN
    /\ mpc \in {"ready", "start", "iters", "replays", "reclaims", "release",
                "exited"}
    /\ round \in 0..Iterations
    /\ \A n \in {n_replays_ready, n_iters_done, iter_start, n_replays_done,
                 n_reclaims_done} : n \in 0..nfiles
    /\ naios_out \in [Files -> 0..NAios] /\ naios_free \in [Files -> 0..NAios]
    /\ send_wait \in [Files -> BOOLEAN] /\ reap_wait \in [Files -> BOOLEAN]
    /\ send_done \in [Files -> BOOLEAN] /\ reap_done \in [Files -> BOOLEAN]
    /\ iterations \in [Files -> -1..Iterations]
    /\ spc \in [Files -> SenderStates]
    /\ \A f \in Files : bunch[f] \in 1..Len(Bunches[f]) + 1
    /\ i \in [Files -> Nat] /\ ntodo \in [Files -> 0..NAios]
    /\ rpc \in [Files -> ReaperStates]
    /\ nreap \in [Files -> 0..NAios] /\ ndone \in [Files -> 0..NAios]
    /\ flying \in [Files -> 0..NAios]

All(v) == [f \in Files |-> v]

Init ==
    /\ signal_done = FALSE /\ aborted = FALSE
    /\ mpc = "ready" /\ round = 0
    /\ n_replays_ready = 0 /\ n_iters_done = 0 /\ iter_start = 0
    /\ n_replays_done = 0 /\ n_reclaims_done = 0
    /\ naios_out = All(0) /\ naios_free = All(NAios)
    /\ send_wait = All(FALSE) /\ reap_wait = All(FALSE)
    /\ send_done = All(FALSE) /\ reap_done = All(FALSE)
    /\ iterations = All(Iterations)
    /\ spc = All("ready") /\ bunch = All(1) /\ i = All(0) /\ ntodo = All(0)
    /\ rpc = All("check") /\ nreap = All(0) /\ ndone = All(0)
    /\ flying = All(0)
-----------------------------------------------------------------------------
Smaller(a, b) == IF a <= b THEN a ELSE b

Alive == ~aborted /\ mpc # "exited"

\* assert: the process goes on only if it holds.
Asserted(ok) == aborted' = ~ok

\* __set_cv of the counter v, which asserts that it is less than nfiles.
Incremented(v) == IF v < nfiles THEN v + 1 ELSE v
SetCv(v) == Asserted(v < nfiles) /\ v' = Incremented(v)

\* is_send_done and is_reap_done.
SendDone(f) == signal_done \/ send_done[f]
ReapDone(f) == send_done[f] /\ naios_out[f] = 0

npkts(f) == Bunches[f][bunch[f]]

GoS(f, s) == spc' = [spc EXCEPT ![f] = s]
GoR(f, s) == rpc' = [rpc EXCEPT ![f] = s]

\* pthread_cond_signal(&tip->cond) by the other thread of the file: whoever
\* sleeps wakes, and tests again.
WakeReaper(f) == IF rpc[f] = "asleep" THEN GoR(f, "wait") ELSE UNCHANGED rpc
WakeSender(f) == IF spc[f] = "asleep" THEN GoS(f, "nfree") ELSE UNCHANGED spc
-----------------------------------------------------------------------------
(* The sender of file f: replay_sub.                                       *)

SetReplayReady(f) ==
    /\ Alive /\ spc[f] = "ready"
    /\ SetCv(n_replays_ready)
    /\ GoS(f, "top")
    /\ UNCHANGED <<signal_done, mvars, n_iters_done, iter_start,
                   n_replays_done, n_reclaims_done, aios, waits, dones,
                   iterations, bunch, i, ntodo, reaper, flying>>

\* while (!is_send_done(tip) && tip->iterations--)
IterationLoop(f) ==
    /\ Alive /\ spc[f] = "top"
    /\ IF SendDone(f)
       THEN GoS(f, "end") /\ UNCHANGED iterations
       ELSE /\ iterations' = [iterations EXCEPT ![f] = @ - 1]
            /\ GoS(f, IF iterations[f] = 0 THEN "end" ELSE "start")
    /\ UNCHANGED <<signal_done, mvars, cvs, aios, waits, dones, bunch, i,
                   ntodo, reaper, flying, aborted>>

WaitIterStart(f) ==
    /\ Alive /\ spc[f] = "start"
    /\ iter_start # 0
    /\ Asserted(iter_start \in 1..nfiles) /\ iter_start' = iter_start - 1
    /\ bunch' = [bunch EXCEPT ![f] = 1]
    /\ GoS(f, "bunch")
    /\ UNCHANGED <<signal_done, mvars, n_replays_ready, n_iters_done,
                   n_replays_done, n_reclaims_done, aios, waits, dones,
                   iterations, i, ntodo, reaper, flying>>

\* while (!is_send_done(tip) && next_bunch(tip, &bunch))
NextBunch(f) ==
    /\ Alive /\ spc[f] = "bunch"
    /\ i' = [i EXCEPT ![f] = 0]
    /\ GoS(f, IF SendDone(f) \/ bunch[f] > Len(Bunches[f]) THEN "iterdone"
                                                        ELSE "process")
    /\ UNCHANGED <<signal_done, mvars, cvs, aios, waits, dones, iterations,
                   bunch, ntodo, reaper, flying, aborted>>

\* process_bunch: while (!is_send_done(tip) && (i < bunch->hdr.npkts))
ProcessBunch(f) ==
    /\ Alive /\ spc[f] = "process"
    /\ IF SendDone(f) \/ i[f] >= npkts(f)
       THEN GoS(f, "bunch") /\ bunch' = [bunch EXCEPT ![f] = @ + 1]
       ELSE GoS(f, "nfree") /\ UNCHANGED bunch
    /\ UNCHANGED <<signal_done, mvars, cvs, aios, waits, dones, iterations, i,
                   ntodo, reaper, flying, aborted>>

\* nfree_current; it returns 0 if the sender is to quit.
NFreeCurrent(f) ==
    /\ Alive /\ spc[f] = "nfree"
    /\ IF ~SendDone(f) /\ naios_free[f] = 0
       THEN /\ send_wait' = [send_wait EXCEPT ![f] = TRUE]
            /\ GoS(f, "asleep")
            /\ UNCHANGED ntodo
       ELSE /\ ntodo' = [ntodo EXCEPT ![f] =
                            IF SendDone(f) THEN 0
                            ELSE Smaller(naios_free[f], npkts(f) - i[f])]
            /\ GoS(f, "map")
            /\ UNCHANGED send_wait
    /\ UNCHANGED <<signal_done, mvars, cvs, aios, reap_wait, dones,
                   iterations, bunch, i, reaper, flying, aborted>>

\* iocbs_map, with the asserts before it and in it.
IocbsMap(f) ==
    /\ Alive /\ spc[f] = "map"
    /\ Asserted(0 < ntodo[f] /\ ntodo[f] <= naios_free[f])
    /\ naios_free' = [naios_free EXCEPT ![f] = @ - ntodo[f]]
    /\ GoS(f, "submit")
    /\ UNCHANGED <<signal_done, mvars, cvs, naios_out, waits, dones,
                   iterations, bunch, i, ntodo, reaper, flying>>

\* After the stall: io_submit, for all of them.
Submit(f) ==
    /\ Alive /\ spc[f] = "submit"
    /\ flying' = [flying EXCEPT ![f] = @ + ntodo[f]]
    /\ GoS(f, "count")
    /\ UNCHANGED <<signal_done, mvars, cvs, aios, waits, dones, iterations,
                   bunch, i, ntodo, reaper, aborted>>

\* Mutant: the reaper is not told of the I/Os.
CountTellsNobody(f) ==
    /\ Alive /\ spc[f] = "count"
    /\ naios_out' = [naios_out EXCEPT ![f] = @ + ntodo[f]]
    /\ Asserted(naios_out'[f] <= NAios)
    /\ i' = [i EXCEPT ![f] = @ + ntodo[f]]
    /\ GoS(f, "process")
    /\ UNCHANGED <<signal_done, mvars, cvs, naios_free, waits, dones,
                   iterations, bunch, ntodo, reaper, flying>>

\* Mutant: the I/Os of the whole bunch are counted.
CountBunch(f) ==
    /\ Alive /\ spc[f] = "count"
    /\ naios_out' = [naios_out EXCEPT ![f] = @ + (npkts(f) - i[f])]
    /\ Asserted(naios_out'[f] <= NAios)
    /\ reap_wait' = [reap_wait EXCEPT ![f] = FALSE]
    /\ IF reap_wait[f] THEN WakeReaper(f) ELSE UNCHANGED rpc
    /\ i' = [i EXCEPT ![f] = npkts(f)]
    /\ GoS(f, "process")
    /\ UNCHANGED <<signal_done, mvars, cvs, naios_free, send_wait, dones,
                   iterations, bunch, ntodo, nreap, ndone, flying>>

\* The end of process_bunch's loop: the I/Os are counted, which may be after
\* the reaper has got them back.
Count(f) ==
    /\ Alive /\ spc[f] = "count"
    /\ naios_out' = [naios_out EXCEPT ![f] = @ + ntodo[f]]
    /\ Asserted(naios_out'[f] <= NAios)
    /\ reap_wait' = [reap_wait EXCEPT ![f] = FALSE]
    /\ IF reap_wait[f] THEN WakeReaper(f) ELSE UNCHANGED rpc
    /\ i' = [i EXCEPT ![f] = @ + ntodo[f]]
    /\ GoS(f, "process")
    /\ UNCHANGED <<signal_done, mvars, cvs, naios_free, send_wait, dones,
                   iterations, bunch, ntodo, nreap, ndone, flying>>

\* set_iter_done and reset_input_file.
SetIterDone(f) ==
    /\ Alive /\ spc[f] = "iterdone"
    /\ SetCv(n_iters_done)
    /\ GoS(f, "top")
    /\ UNCHANGED <<signal_done, mvars, n_replays_ready, iter_start,
                   n_replays_done, n_reclaims_done, aios, waits, dones,
                   iterations, bunch, i, ntodo, reaper, flying>>

\* tip->send_done = 1, without the mutex and without a signal.
SetSendDone(f) ==
    /\ Alive /\ spc[f] = "end"
    /\ send_done' = [send_done EXCEPT ![f] = TRUE]
    /\ GoS(f, "done")
    /\ UNCHANGED <<signal_done, mvars, cvs, aios, waits, reap_done,
                   iterations, bunch, i, ntodo, reaper, flying, aborted>>

SetReplayDone(f) ==
    /\ Alive /\ spc[f] = "done"
    /\ SetCv(n_replays_done)
    /\ GoS(f, "gone")
    /\ UNCHANGED <<signal_done, mvars, n_replays_ready, n_iters_done,
                   iter_start, n_reclaims_done, aios, waits, dones,
                   iterations, bunch, i, ntodo, reaper, flying>>

SenderStep(f) ==
    \/ SetReplayReady(f) \/ IterationLoop(f) \/ WaitIterStart(f)
    \/ NextBunch(f) \/ ProcessBunch(f) \/ NFreeCurrent(f) \/ IocbsMap(f)
    \/ Submit(f) \/ Count(f) \/ SetIterDone(f) \/ SetSendDone(f)
    \/ SetReplayDone(f)
-----------------------------------------------------------------------------
(* The reaper of file f: replay_rec.                                       *)

\* reap_wait_aios tests, without the mutex, whether there is more to come.
ReapCheck(f) ==
    /\ Alive /\ rpc[f] = "check"
    /\ GoR(f, IF ReapDone(f) THEN "finish" ELSE "wait")
    /\ UNCHANGED <<signal_done, mvars, cvs, aios, waits, dones, sender, nreap,
                   ndone, flying, aborted>>

\* reap_wait_aios waits for AIOs to be counted.
ReapWait(f) ==
    /\ Alive /\ rpc[f] = "wait"
    /\ IF naios_out[f] = 0
       THEN /\ reap_wait' = [reap_wait EXCEPT ![f] = TRUE]
            /\ GoR(f, "asleep")
            /\ UNCHANGED nreap
       ELSE /\ nreap' = [nreap EXCEPT ![f] = naios_out[f]]
            /\ GoR(f, "get")
            /\ UNCHANGED reap_wait
    /\ UNCHANGED <<signal_done, mvars, cvs, aios, send_wait, dones, sender,
                   ndone, flying, aborted>>

\* io_getevents returns some of the I/Os that have completed.
GetEvents(f) ==
    /\ Alive /\ rpc[f] = "get"
    /\ \E n \in 1..Smaller(nreap[f], flying[f]) :
          /\ ndone' = [ndone EXCEPT ![f] = n]
          /\ flying' = [flying EXCEPT ![f] = @ - n]
    /\ GoR(f, "reap")
    /\ UNCHANGED <<signal_done, mvars, cvs, aios, waits, dones, sender, nreap,
                   aborted>>

\* Mutant: naios_out is not looked at again after the I/Os are taken back.
ReclaimStale(f) ==
    /\ Alive /\ rpc[f] = "reap"
    /\ naios_free' = [naios_free EXCEPT ![f] = @ + ndone[f]]
    /\ naios_out' = [naios_out EXCEPT ![f] = @ - ndone[f]]
    /\ GoR(f, IF naios_out'[f] # 0 THEN "get" ELSE "check")
    /\ send_wait' = [send_wait EXCEPT ![f] = FALSE]
    /\ IF send_wait[f] THEN WakeSender(f) ELSE UNCHANGED spc
    /\ ndone' = [ndone EXCEPT ![f] = 0]
    /\ UNCHANGED <<signal_done, mvars, cvs, reap_wait, dones, iterations,
                   bunch, i, ntodo, nreap, flying, aborted>>

\* reclaim_ios takes the I/Os back, and goes on if more are known to be out.
ReclaimIos(f) ==
    /\ Alive /\ rpc[f] = "reap"
    /\ naios_free' = [naios_free EXCEPT ![f] = @ + ndone[f]]
    /\ naios_out' = [naios_out EXCEPT ![f] = @ - ndone[f]]
    /\ nreap' = [nreap EXCEPT ![f] = Smaller(@, naios_out'[f])]
    /\ GoR(f, IF nreap'[f] # 0 THEN "get" ELSE "check")
    /\ send_wait' = [send_wait EXCEPT ![f] = FALSE]
    /\ IF send_wait[f] THEN WakeSender(f) ELSE UNCHANGED spc
    /\ ndone' = [ndone EXCEPT ![f] = 0]
    /\ UNCHANGED <<signal_done, mvars, cvs, reap_wait, dones, iterations,
                   bunch, i, ntodo, flying, aborted>>

\* The end of replay_rec.
SetReclaimDone(f) ==
    /\ Alive /\ rpc[f] = "finish"
    /\ Asserted(send_done[f] /\ n_reclaims_done < nfiles)
    /\ reap_done' = [reap_done EXCEPT ![f] = TRUE]
    /\ n_reclaims_done' = Incremented(n_reclaims_done)
    /\ GoR(f, "gone")
    /\ UNCHANGED <<signal_done, mvars, n_replays_ready, n_iters_done,
                   iter_start, n_replays_done, aios, waits, send_done, sender,
                   nreap, ndone, flying>>

ReaperStep(f) ==
    \/ ReapCheck(f) \/ ReapWait(f) \/ GetEvents(f) \/ ReclaimIos(f)
    \/ SetReclaimDone(f)

\* pthread_cond_wait may return without a signal.
SpuriousWakeup(f) ==
    /\ Alive
    /\ \/ spc[f] = "asleep" /\ GoS(f, "nfree") /\ UNCHANGED rpc
       \/ rpc[f] = "asleep" /\ GoR(f, "wait") /\ UNCHANGED spc
    /\ UNCHANGED <<signal_done, mvars, cvs, aios, waits, dones, iterations,
                   bunch, i, ntodo, nreap, ndone, flying, aborted>>
-----------------------------------------------------------------------------
(* The main thread.                                                        *)

\* Where main's loop over the iterations goes when r have been started.
AfterRound(r) == IF r < Iterations THEN "start" ELSE "replays"

MainReady ==
    /\ Alive /\ mpc = "ready" /\ n_replays_ready >= nfiles
    /\ n_replays_ready' = 0
    /\ mpc' = AfterRound(round)
    /\ UNCHANGED <<signal_done, round, n_iters_done, iter_start,
                   n_replays_done, n_reclaims_done, aios, waits, dones,
                   sender, reaper, flying, aborted>>

\* Mutant: one sender is left without a start.
StartIterShort ==
    /\ Alive /\ mpc = "start"
    /\ Asserted(iter_start = 0) /\ iter_start' = nfiles - 1
    /\ mpc' = "iters" /\ round' = round + 1
    /\ UNCHANGED <<signal_done, n_replays_ready, n_iters_done, n_replays_done,
                   n_reclaims_done, aios, waits, dones, sender, reaper,
                   flying>>

StartIter ==
    /\ Alive /\ mpc = "start"
    /\ Asserted(iter_start = 0) /\ iter_start' = nfiles
    /\ mpc' = "iters" /\ round' = round + 1
    /\ UNCHANGED <<signal_done, n_replays_ready, n_iters_done, n_replays_done,
                   n_reclaims_done, aios, waits, dones, sender, reaper,
                   flying>>

\* Mutant: wait_iters_done is satisfied by one file.
WaitAnyIterDone ==
    /\ Alive /\ mpc = "iters" /\ n_iters_done >= 1
    /\ n_iters_done' = 0
    /\ mpc' = AfterRound(round)
    /\ UNCHANGED <<signal_done, round, n_replays_ready, iter_start,
                   n_replays_done, n_reclaims_done, aios, waits, dones,
                   sender, reaper, flying, aborted>>

WaitItersDone ==
    /\ Alive /\ mpc = "iters" /\ n_iters_done >= nfiles
    /\ n_iters_done' = 0
    /\ mpc' = AfterRound(round)
    /\ UNCHANGED <<signal_done, round, n_replays_ready, iter_start,
                   n_replays_done, n_reclaims_done, aios, waits, dones,
                   sender, reaper, flying, aborted>>

WaitReplaysDone ==
    /\ Alive /\ mpc = "replays" /\ n_replays_done >= nfiles
    /\ n_replays_done' = 0 /\ mpc' = "reclaims"
    /\ UNCHANGED <<signal_done, round, n_replays_ready, n_iters_done,
                   iter_start, n_reclaims_done, aios, waits, dones, sender,
                   reaper, flying, aborted>>

WaitReclaimsDone ==
    /\ Alive /\ mpc = "reclaims" /\ n_reclaims_done >= nfiles
    /\ n_reclaims_done' = 0 /\ mpc' = "release"
    /\ UNCHANGED <<signal_done, round, n_replays_ready, n_iters_done,
                   iter_start, n_replays_done, aios, waits, dones, sender,
                   reaper, flying, aborted>>

\* rem_input_files: tip_release asserts that the file's work is over, and
\* joins its threads.
RemInputFiles ==
    /\ Alive /\ mpc = "release"
    /\ \A f \in Files : spc[f] = "gone" /\ rpc[f] = "gone"
    /\ Asserted(\A f \in Files :
                 send_done[f] /\ reap_done[f] /\ naios_free[f] = NAios)
    /\ mpc' = "exited"
    /\ UNCHANGED <<signal_done, round, cvs, aios, waits, dones, sender,
                   reaper, flying>>

MainStep == \/ MainReady \/ StartIter \/ WaitItersDone \/ WaitReplaysDone
            \/ WaitReclaimsDone \/ RemInputFiles

\* set_signal_done
SetSignalDone ==
    /\ MaySignal /\ Alive /\ ~signal_done
    /\ signal_done' = TRUE
    /\ UNCHANGED <<mvars, cvs, aios, waits, dones, sender, reaper, flying,
                   aborted>>

Ended == ~Alive /\ UNCHANGED vars

Next ==
    \/ MainStep
    \/ \E f \in Files : SenderStep(f) \/ ReaperStep(f) \/ SpuriousWakeup(f)
    \/ SetSignalDone
    \/ Ended

\* The threads are scheduled, and the device completes what is submitted.
Spec == Init /\ [][Next]_vars

FairSpec ==
    /\ Spec
    /\ WF_vars(MainStep)
    /\ \A f \in Files : WF_vars(SenderStep(f)) /\ WF_vars(ReaperStep(f))
-----------------------------------------------------------------------------
(* Properties.                                                             *)

\* Each iocb of a file is free, outstanding, or in the sender's hands between
\* iocbs_map and the counting; and the I/Os the kernel or the reaper has are
\* those outstanding and those submitted and not yet counted.  naios_free and
\* naios_out are short cuts for lists two threads change.
AiosAccounted ==
    \A f \in Files :
        LET submitted == IF spc[f] = "count" THEN ntodo[f] ELSE 0
            mapped    == IF spc[f] = "submit" THEN ntodo[f] ELSE submitted
        IN  /\ naios_free[f] + naios_out[f] + mapped = NAios
            /\ flying[f] + ndone[f] = naios_out[f] + submitted

\* The counts of iocbs are those of the lists, and never below zero or above
\* naios.
IosAccounted == TypeOK /\ AiosAccounted

\* The two threads of a file never sleep at the same time on its condition
\* variable: pthread_cond_signal, which wakes one thread, wakes the one that
\* is meant.
NeverBothAsleep == \A f \in Files : spc[f] = "asleep" => rpc[f] # "asleep"

\* Without a signal no assert of btreplay fails: no counter is set more often
\* than there are files, an iteration starts after all of the last one, and
\* the files are released when all iocbs are back.
AssertsHold == aborted => signal_done

\* Unless a signal comes, every sender replays all iterations of its file:
\* free iocbs come back, whatever the order in which the threads sleep.
SendersFinish ==
    <>(signal_done \/ \A f \in Files : send_done[f] /\ iterations[f] = -1)

\* reap_wait_aios "Will return 0 if we are done": a reaper whose sender is
\* done ends, and btreplay with it.  It does not hold: the reaper may go to
\* sleep after the last wake-up; the README says how.
ReapersFinish == \A f \in Files : send_done[f] ~> rpc[f] = "gone"
=============================================================================
