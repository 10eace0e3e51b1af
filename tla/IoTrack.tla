------------------------------- MODULE IoTrack -------------------------------
(***************************************************************************)
(* What blkparse makes of the events of a device (blkparse.c, dump_trace): *)
(* the tracks, by which it tells how long a request has waited, how many   *)
(* are on the device, and what it counts for the device and for each       *)
(* process.  The device is no remapper, and the counts of its CPUs are     *)
(* kept in one: show_device_and_cpu_stats adds them up.                    *)
(***************************************************************************)
EXTENDS Integers, FiniteSets

CONSTANT Processes   \* the tasks events are of

VARIABLES
    tracks,     \* rb_track: at most one for a sector
    cur_depth, max_depth,   \* on the device: reads, writes
    io_stats,   \* of the device
    ppi,        \* of the processes that have one: io_stats and longest waits
    elapsed     \* printed with the last event

iotrack == <<tracks, cur_depth, max_depth, io_stats, ppi, elapsed>>

NoTime == -1
\* A time that was never set, in memory from malloc, and what is reckoned from
\* it: any number at all.
Garbage == -2

Directions == {0, 1}
Counted == {"queue", "merge", "issue", "complete", "requeue", "pc_issue", "pc_complete", "pc_requeue", "unplug"}
NoStats == [of \in Counted |-> [w \in Directions |-> [n |-> 0, len |-> 0]]]
NoWaits == [of \in {"allocation", "dispatch", "completion"} |->
               [w \in Directions |-> 0]]

IoTrackInit ==
    /\ tracks = {} /\ elapsed = NoTime
    /\ cur_depth = [w \in Directions |-> 0] /\ max_depth = [w \in Directions |-> 0]
    /\ io_stats = NoStats /\ ppi = [p \in {} |-> [stats |-> NoStats, waits |-> NoWaits]]
-----------------------------------------------------------------------------
(* Tracks.                                                                 *)

At(sector) == {t \in tracks : t.sector = sector}
TheTrack(sector) == CHOOSE t \in tracks : t.sector = sector

\* find_track: made when there is none, its times as malloc leaves them.
FindTrack(sector, pid) ==
    IF At(sector) # {} THEN TheTrack(sector)
    ELSE [sector |-> sector, pid |-> pid, allocation |-> Garbage,
          queue |-> Garbage, dispatch |-> Garbage]

Set(track) == tracks' = (tracks \ At(track.sector)) \cup {track}

Since(from, to) == IF from = Garbage THEN Garbage ELSE to - from

\* Mutant: a front merge leaves the track where it is.
FrontmergeTrackKept(e) == tracks' = tracks

\* log_track_frontmerge: the track moves to the new first sector, unless there
\* is one already: then it is lost.
FrontmergeTrack(e) ==
    tracks' = IF At(e.sector + e.len) = {} THEN tracks
              ELSE LET t == TheTrack(e.sector + e.len)
                   IN (tracks \ {t}) \cup
                         (IF At(e.sector) = {} THEN {[t EXCEPT !.sector = e.sector]}
                          ELSE {})
-----------------------------------------------------------------------------
(* Accounts.                                                               *)

Account(stats, of, w, n, len) ==
    [stats EXCEPT ![of][w] = [n |-> @.n + n, len |-> @.len + len]]

NewProcess == [stats |-> NoStats, waits |-> NoWaits]
PpiOf(p) == IF p \in DOMAIN ppi THEN ppi[p] ELSE NewProcess
WithPpi(p, info) == [q \in DOMAIN ppi \cup {p} |-> IF q = p THEN info ELSE ppi[q]]

\* account_*: for the device, and for the process of the event, which gets an
\* entry if it has none (find_process_io_stats).
Accounted(e, of) ==
    /\ io_stats' = Account(io_stats, of, e.w, 1, e.len)
    /\ ppi' = WithPpi(e.pid, [PpiOf(e.pid) EXCEPT !.stats =
                                Account(@, of, e.w, 1, e.len)])

\* Mutant: what is requeued still counts as issued.
AccountedRequeueStays(e, of, issue) ==
    LET Both(stats) == Account(stats, of, e.w, 1, 0)
    IN /\ io_stats' = Both(io_stats)
       /\ ppi' = WithPpi(e.pid, [PpiOf(e.pid) EXCEPT !.stats = Both(@)])

\* account_requeue: what was issued has not been.
AccountedRequeue(e, of, issue) ==
    LET Both(stats) == Account(Account(stats, of, e.w, 1, 0), issue, e.w, 0, -e.len)
    IN /\ io_stats' = Both(io_stats)
       /\ ppi' = WithPpi(e.pid, [PpiOf(e.pid) EXCEPT !.stats = Both(@)])

\* The longest wait of the track's process, if that has an entry.
Waited(infos, t, of, w, time) ==
    IF t.pid \notin DOMAIN infos \/ time = Garbage THEN infos
    ELSE [infos EXCEPT ![t.pid].waits[of][w] = IF time > @ THEN time ELSE @]

Deeper(w) ==
    /\ cur_depth' = [cur_depth EXCEPT ![w] = @ + 1]
    /\ max_depth' = [max_depth EXCEPT ![w] = IF cur_depth'[w] > @ THEN cur_depth'[w]
                                             ELSE @]

\* Events can be missing: never below zero.
Shallower(w) ==
    /\ cur_depth' = [cur_depth EXCEPT ![w] = IF @ > 0 THEN @ - 1 ELSE 0]
    /\ UNCHANGED max_depth
-----------------------------------------------------------------------------
(* dump_trace_fs and dump_trace_pc, one disjunct for each kind of event.   *)

TraceQueue(e) ==
    /\ e.act = "Q" /\ Accounted(e, "queue")
    /\ elapsed' = NoTime /\ UNCHANGED <<tracks, cur_depth, max_depth>>

\* log_track_getrq.
TraceGetrq(e) ==
    /\ e.act = "G"
    /\ Set([FindTrack(e.sector, e.pid) EXCEPT !.allocation = e.time])
    /\ elapsed' = NoTime /\ UNCHANGED <<cur_depth, max_depth, io_stats, ppi>>

\* log_track_insert.  Garbage may be zero, which says there was no allocation.
TraceInsert(e) ==
    LET t == FindTrack(e.sector, e.pid)
        time == Since(t.allocation, e.time)
    IN /\ e.act = "I" /\ e.kind = "fs"
       /\ Set([t EXCEPT !.queue = e.time])
       /\ elapsed' = time
       /\ ppi' = Waited(ppi, t, "allocation", e.w, time)
       /\ UNCHANGED <<cur_depth, max_depth, io_stats>>

TraceMerge(e) ==
    /\ e.act \in {"M", "F"} /\ Accounted(e, "merge")
    /\ IF e.act = "F" THEN FrontmergeTrack(e) ELSE UNCHANGED tracks
    /\ elapsed' = NoTime /\ UNCHANGED <<cur_depth, max_depth>>

\* log_track_issue.
TraceIssue(e) ==
    LET t == TheTrack(e.sector)
        time == Since(t.queue, e.time)
        counted == WithPpi(e.pid, [PpiOf(e.pid) EXCEPT !.stats =
                                     Account(@, "issue", e.w, 1, e.len)])
    IN /\ e.act = "D" /\ e.kind = "fs"
       /\ Deeper(e.w) /\ io_stats' = Account(io_stats, "issue", e.w, 1, e.len)
       /\ IF At(e.sector) = {}
          THEN ppi' = counted /\ elapsed' = NoTime /\ UNCHANGED tracks
          ELSE /\ Set([t EXCEPT !.dispatch = e.time])
               /\ elapsed' = time
               /\ ppi' = Waited(counted, t, "dispatch", e.w, time)

\* Mutant: what is requeued stays on the device.
TraceRequeueDeep(e) ==
    /\ e.act = "R" /\ e.kind = "fs" /\ AccountedRequeue(e, "requeue", "issue")
    /\ elapsed' = NoTime /\ UNCHANGED <<tracks, cur_depth, max_depth>>

TraceRequeue(e) ==
    /\ e.act = "R" /\ e.kind = "fs" /\ AccountedRequeue(e, "requeue", "issue")
    /\ Shallower(e.w)
    /\ elapsed' = NoTime /\ UNCHANGED tracks

\* Mutant: the track is not taken out.
TraceCompleteTrackKept(e) ==
    LET t == TheTrack(e.sector)
        time == Since(t.dispatch, e.time)
        counted == WithPpi(e.pid, [PpiOf(e.pid) EXCEPT !.stats =
                                     Account(@, "complete", e.w, 1, e.len)])
    IN /\ e.act = "C" /\ e.kind = "fs"
       /\ Shallower(e.w) /\ io_stats' = Account(io_stats, "complete", e.w, 1, e.len)
       /\ IF At(e.sector) = {}
          THEN ppi' = counted /\ elapsed' = NoTime /\ UNCHANGED tracks
          ELSE /\ UNCHANGED tracks
               /\ elapsed' = time
               /\ ppi' = Waited(counted, t, "completion", e.w, time)

\* log_track_complete: the track is not needed any more.
TraceComplete(e) ==
    LET t == TheTrack(e.sector)
        time == Since(t.dispatch, e.time)
        counted == WithPpi(e.pid, [PpiOf(e.pid) EXCEPT !.stats =
                                     Account(@, "complete", e.w, 1, e.len)])
    IN /\ e.act = "C" /\ e.kind = "fs"
       /\ Shallower(e.w) /\ io_stats' = Account(io_stats, "complete", e.w, 1, e.len)
       /\ IF At(e.sector) = {}
          THEN ppi' = counted /\ elapsed' = NoTime /\ UNCHANGED tracks
          ELSE /\ tracks' = tracks \ {t}
               /\ elapsed' = time
               /\ ppi' = Waited(counted, t, "completion", e.w, time)

\* dump_trace_pc: commands have no tracks.
TraceCommand(e) ==
    /\ e.kind = "pc" /\ elapsed' = NoTime /\ UNCHANGED tracks
    /\ \/ /\ e.act = "I" /\ UNCHANGED <<cur_depth, max_depth, io_stats, ppi>>
       \/ e.act = "D" /\ Deeper(e.w) /\ Accounted(e, "pc_issue")
       \/ /\ e.act = "R" /\ Shallower(e.w)
          /\ AccountedRequeue(e, "pc_requeue", "pc_issue")
       \/ e.act = "C" /\ Shallower(e.w) /\ Accounted(e, "pc_complete")

\* account_unplug: by a task or by the timer.
TraceUnplug(e) ==
    /\ e.act \in {"U", "UT"}
    /\ Accounted([e EXCEPT !.w = IF e.act = "UT" THEN 1 ELSE 0, !.len = 0], "unplug")
    /\ elapsed' = NoTime /\ UNCHANGED <<tracks, cur_depth, max_depth>>

\* Sleeping and plugging are only printed.
TraceOther(e) ==
    /\ e.act \in {"S", "P"}
    /\ elapsed' = NoTime
    /\ UNCHANGED <<tracks, cur_depth, max_depth, io_stats, ppi>>

DumpTrace(e) ==
    \/ TraceQueue(e)
    \/ TraceGetrq(e)
    \/ TraceInsert(e)
    \/ TraceMerge(e)
    \/ TraceIssue(e)
    \/ TraceRequeue(e)
    \/ TraceComplete(e)
    \/ TraceCommand(e)
    \/ TraceUnplug(e)
    \/ TraceOther(e)
=============================================================================
