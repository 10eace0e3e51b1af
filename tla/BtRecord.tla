------------------------------ MODULE BtRecord ------------------------------
(***************************************************************************)
(* From a trace to its replay: btrecord (btreplay/btrecord.c) turns every  *)
(* per-CPU trace file of a device into a file of bunches of packets, and   *)
(* btreplay (btreplay/btreplay.c) opens these files and releases each      *)
(* bunch when its time has come.  What the threads of btreplay do with the *)
(* iocbs is module BtReplay; here a sender is a reader with a clock.       *)
(*                                                                         *)
(* The trace is chosen as it is read: any record may come next, and the    *)
(* file may end, between two records or within one.                        *)
(***************************************************************************)
EXTENDS Integers, Sequences, SequencesExt, FiniteSets

CONSTANTS NFiles,       \* trace files of the device: CPUs 0 .. NFiles-1
          MaxRecords,   \* bound: records in a trace file
          MaxTime,      \* bound: time stamps of the trace
          MayInvert,    \* a record may be older than the one before it
          Directions,   \* bound: of the I/Os, from "R" and "W"
          max_bunch_tm, max_pkts_per_bunch,
          write_enabled, acc_factor,
          naios,
          MaxClock      \* bound: the clock of the replaying machine

BT_MAX_PKTS == 512

ValidArguments == max_bunch_tm >= 1 /\ max_pkts_per_bunch \in 1..BT_MAX_PKTS

ASSUME BtRecordAssumption ==
    /\ {NFiles, MaxTime, acc_factor, naios, max_bunch_tm} \subseteq Nat \ {0}
    /\ {MaxRecords, MaxClock} \subseteq Nat
    /\ {MayInvert, write_enabled} \subseteq BOOLEAN
    /\ Directions \subseteq {"R", "W"}
    /\ ValidArguments

Cpus == 0..NFiles - 1

VARIABLES
    ended,     \* "no", or how the process ended: "fatal", "assert"
    cpu,       \* the trace file in hand; NFiles: btreplay runs
    reading,   \* next_io has not come to the end of the file
    tpkts, genesis, cur, start_time, last_time, bunches, pkts,
    ofile,     \* per file: header and bunches on disk
    queued,    \* per file, history: the Q records read, in order
    files,     \* btreplay: input_files
    first,     \* btreplay: genesis, the smallest of all headers
    at_bunch, at_pkt,  \* btreplay, per file: where its sender is
    clock,     \* gettime() - rgenesis
    issued     \* per file, history: what was submitted, and when

stream == <<start_time, last_time, bunches, pkts>>
recvars == <<cpu, reading, tpkts, genesis, cur, stream, ofile, queued>>
replay == <<files, first, at_bunch, at_pkt, clock, issued>>
allvars == <<ended, recvars, replay>>

NoBunch == [time_stamp |-> 0, pkts |-> <<>>]
NoHdr == [genesis |-> 0, nbunches |-> 0, total_pkts |-> 0]

RecInit ==
    /\ ended = "no" /\ cpu = 0 /\ reading = TRUE
    /\ tpkts = 0 /\ genesis = 0 /\ cur = NoBunch
    /\ start_time = 0 /\ last_time = 0 /\ bunches = 0 /\ pkts = 0
    /\ ofile = [c \in Cpus |-> [hdr |-> NoHdr, bunches |-> <<>>]]
    /\ queued = [c \in Cpus |-> <<>>]
    /\ files = {} /\ first = 0
    /\ at_bunch = [c \in Cpus |-> 1] /\ at_pkt = [c \in Cpus |-> 0]
    /\ clock = 0
    /\ issued = [c \in Cpus |-> <<>>]
-----------------------------------------------------------------------------
(* btrecord.                                                               *)

Recording == ended = "no" /\ cpu < NFiles

\* io_bunch_add, to the bunch b: the packet is known by its place among the
\* Q records of the file.
WithPacket(b, rw) ==
    [b EXCEPT !.pkts = Append(@, [id |-> Len(queued[cpu]) + 1, rw |-> rw])]

\* Mutant: one packet more than the limit.
BunchDoneLate(t) ==
    \/ Len(cur.pkts) > max_pkts_per_bunch
    \/ t - start_time > max_bunch_tm
    \/ t < start_time

\* bunch_done: the bunch is full, or the next I/O comes too late for it.  The
\* times are unsigned: one before the start of the bunch is late as well.
BunchDone(t) ==
    \/ Len(cur.pkts) >= max_pkts_per_bunch
    \/ t - start_time > max_bunch_tm
    \/ t < start_time

\* Mutant: a bunch of one packet is taken for an empty one.
FlushedLong(f) ==
    IF Len(cur.pkts) <= 1 THEN f ELSE [f EXCEPT !.bunches = Append(@, cur)]

\* stream_flush of the current bunch, which io_bunch_create replaces.
Flushed(f) ==
    IF cur.pkts = <<>> THEN f ELSE [f EXCEPT !.bunches = Append(@, cur)]

\* next_io passes over a record that is not a Q.
SkipRecord ==
    /\ Recording /\ reading /\ tpkts < MaxRecords
    /\ tpkts' = tpkts + 1
    /\ UNCHANGED <<ended, cpu, reading, genesis, cur, stream, ofile, queued,
                   replay>>

\* next_io finds no Q at time genesis or later.
TimeInversion(t) ==
    /\ Recording /\ reading /\ tpkts < MaxRecords /\ MayInvert
    /\ t < genesis
    /\ ended' = "fatal"
    /\ UNCHANGED <<recvars, replay>>

\* next_io returns a Q record, and stream_add_io puts it into a bunch, a new
\* one if the current one is done.
StreamAddIo(t, rw) ==
    LET fresh == cur.pkts = <<>> \/ BunchDone(t)
    IN
    /\ Recording /\ reading /\ tpkts < MaxRecords
    /\ t >= genesis /\ (MayInvert \/ t >= last_time)
    /\ tpkts' = tpkts + 1
    /\ genesis' = IF genesis = 0 THEN t ELSE genesis
    /\ start_time' = IF fresh THEN t ELSE start_time
    /\ IF fresh
       THEN /\ ofile' = [ofile EXCEPT ![cpu] = Flushed(@)]
            /\ bunches' = IF cur.pkts = <<>> THEN bunches ELSE bunches + 1
            /\ pkts' = pkts + Len(cur.pkts)
       ELSE UNCHANGED <<ofile, bunches, pkts>>
    /\ IF last_time = 0 \/ last_time <= t
       THEN /\ cur' = WithPacket(IF fresh THEN [NoBunch EXCEPT !.time_stamp = t]
                                          ELSE cur, rw)
            /\ last_time' = t
            /\ queued' = [queued EXCEPT ![cpu] =
                             Append(@, [time |-> t, rw |-> rw])]
            /\ UNCHANGED ended
       ELSE ended' = "assert" /\ UNCHANGED <<cur, last_time, queued>>
    /\ UNCHANGED <<cpu, reading, replay>>

\* next_io returns 0: the end of the file, a short record, or a short PDU.
EndOfInput ==
    /\ Recording /\ reading
    /\ reading' = FALSE
    /\ UNCHANGED <<ended, cpu, tpkts, genesis, cur, stream, ofile, queued,
                   replay>>

\* stream_close: the header takes its counts before the last bunch is flushed.
\* main goes on with the next file, and stream_open starts from nothing.
StreamClose ==
    /\ Recording /\ ~reading
    /\ ofile' = [ofile EXCEPT ![cpu] =
                    [Flushed(@) EXCEPT !.hdr = [genesis |-> genesis,
                                                nbunches |-> bunches,
                                                total_pkts |-> pkts]]]
    /\ cpu' = cpu + 1 /\ reading' = TRUE /\ tpkts' = 0 /\ genesis' = 0
    /\ cur' = NoBunch
    /\ start_time' = 0 /\ last_time' = 0 /\ bunches' = 0 /\ pkts' = 0
    /\ UNCHANGED <<ended, queued, replay>>
-----------------------------------------------------------------------------
(* btreplay.                                                               *)

Replaying == ended = "no" /\ cpu = NFiles

\* find_input_files and add_input_file: a file without bunches is left out,
\* and genesis is the smallest of the others.
Kept == {c \in Cpus : ofile[c].hdr.nbunches # 0}
\* Mutant: genesis is that of the file opened last.
FindInputFilesLast ==
    /\ Replaying /\ files = {} /\ Kept # {}
    /\ files' = Kept
    /\ first' \in {ofile[c].hdr.genesis : c \in Kept}
    /\ UNCHANGED <<ended, recvars, at_bunch, at_pkt, clock, issued>>

FindInputFiles ==
    /\ Replaying /\ files = {} /\ Kept # {}
    /\ files' = Kept
    /\ first' \in {ofile[c].hdr.genesis : c \in Kept}
    /\ \A c \in Kept : first' <= ofile[c].hdr.genesis
    /\ UNCHANGED <<ended, recvars, at_bunch, at_pkt, clock, issued>>

Bunch(c) == ofile[c].bunches[at_bunch[c]]
\* Mutant: the bunches are counted by the header.
HasCountedBunch(c) == c \in files /\ at_bunch[c] <= ofile[c].hdr.nbunches
HasBunch(c) == c \in files /\ at_bunch[c] <= Len(ofile[c].bunches)

\* stall waits for the bunch's offset from genesis, accelerated.
Oclock(b) == (b.time_stamp - first) \div acc_factor

\* iocbs_map turns a write into a read unless writes are enabled.
\* Mutant: -W is not looked at.
DirectionAsRecorded(rw) == rw
Direction(rw) == IF rw = "W" /\ ~write_enabled THEN "R" ELSE rw

\* next_bunch and process_bunch: the sender takes as many packets as it has
\* free iocbs, stalls, and submits them.
SubmitPackets(c, ntodo) ==
    LET b == Bunch(c)
    IN
    /\ Replaying /\ HasBunch(c)
    /\ at_pkt[c] + ntodo <= Len(b.pkts)
    /\ clock >= Oclock(b)
    /\ issued' = [issued EXCEPT ![c] = @ \o
                    [k \in 1..ntodo |->
                        LET p == b.pkts[at_pkt[c] + k]
                        IN  [id |-> p.id, rw |-> Direction(p.rw),
                             at |-> clock]]]
    /\ IF at_pkt[c] + ntodo = Len(b.pkts)
       THEN /\ at_bunch' = [at_bunch EXCEPT ![c] = @ + 1]
            /\ at_pkt' = [at_pkt EXCEPT ![c] = 0]
       ELSE /\ at_pkt' = [at_pkt EXCEPT ![c] = @ + ntodo]
            /\ UNCHANGED at_bunch
    /\ UNCHANGED <<ended, recvars, files, first, clock>>

Tick ==
    /\ Replaying /\ clock < MaxClock /\ \E c \in files : HasBunch(c)
    /\ clock' = clock + 1
    /\ UNCHANGED <<ended, recvars, files, first, at_bunch, at_pkt, issued>>

Record ==
    \/ SkipRecord
    \/ \E t \in 1..MaxTime : TimeInversion(t)
    \/ \E t \in 1..MaxTime, rw \in Directions : StreamAddIo(t, rw)
    \/ EndOfInput
    \/ StreamClose

Replay ==
    \/ FindInputFiles
    \/ \E c \in Cpus, ntodo \in 1..naios : SubmitPackets(c, ntodo)
    \/ Tick

RecNext == Record \/ Replay

RecSpec == RecInit /\ [][RecNext]_allvars

\* A trace file ends, nanosleep returns, and io_submit is called again as long
\* as there are packets.
Fairness ==
    /\ WF_allvars(Replay)
    /\ \A c \in Cpus :
          WF_allvars(\E ntodo \in 1..naios : SubmitPackets(c, ntodo))
    /\ WF_allvars(EndOfInput) /\ WF_allvars(StreamClose)

FairRecSpec == RecSpec /\ Fairness
-----------------------------------------------------------------------------
(* Properties.                                                             *)

AllPkts(bs) == FlattenSeq([k \in DOMAIN bs |-> bs[k].pkts])
Recorded(c) == [k \in DOMAIN queued[c] |-> [id |-> k, rw |-> queued[c][k].rw]]

\* Every Q record of a trace file is in the file of bunches or in the bunch
\* being filled, once and in its order, whatever ends the input: none is lost
\* when a bunch is replaced (stream_add_io) or when the file is closed.
EveryQueueRecorded ==
    ended = "no" =>
    \A c \in Cpus : AllPkts(ofile[c].bunches)
                    \o (IF c = cpu THEN cur.pkts ELSE <<>>) = Recorded(c)

\* What is in a bunch was queued in max_bunch_tm from its time stamp, which is
\* the time of its first packet, and a bunch was closed early only because the
\* next packet would have broken one of the two limits (bunch_done).
BunchesAsLargeAsAllowed ==
    \A c \in Cpus : \A k \in DOMAIN ofile[c].bunches :
        LET b == ofile[c].bunches[k]
            T(p) == queued[c][p.id].time
        IN /\ Len(b.pkts) \in 1..max_pkts_per_bunch
           /\ b.time_stamp = T(b.pkts[1])
           /\ \A p \in Range(b.pkts) : T(p) - b.time_stamp \in 0..max_bunch_tm
           /\ k < Len(ofile[c].bunches) =>
                 \/ Len(b.pkts) = max_pkts_per_bunch
                 \/ T(ofile[c].bunches[k + 1].pkts[1])
                       > b.time_stamp + max_bunch_tm

\* The file of bunches is the recording.
RecordingTrue == EveryQueueRecorded /\ BunchesAsLargeAsAllowed

\* A packet is submitted no earlier than its bunch was recorded to be, counted
\* from the oldest bunch of all the files (add_input_file, stall): with
\* genesis taken from another file than the oldest the first stalls would
\* come out negative or the whole replay be shifted.
NeverEarly ==
    \A c \in Cpus : \A k \in DOMAIN issued[c] :
        \E b \in Range(ofile[c].bunches) :
            /\ issued[c][k].id \in {p.id : p \in Range(b.pkts)}
            /\ issued[c][k].at * acc_factor + acc_factor
                  > b.time_stamp - first
            /\ b.time_stamp >= first

\* The senders submit the packets of a file in order, each once, though they
\* may need several submissions for one bunch; without -W nothing is written.
ReplaysInOrder ==
    \A c \in Cpus : \A k \in DOMAIN issued[c] :
        /\ issued[c][k].id = k
        /\ issued[c][k].rw = IF write_enabled THEN queued[c][k].rw ELSE "R"

\* What is replayed follows the recording, in order and in time.
ReplayTrue == NeverEarly /\ ReplaysInOrder

\* A recording with two or more bunches is replayed to its end, the last bunch
\* included although the header does not count it: next_bunch reads on to the
\* end of the file.
LongRecordingsReplayed ==
    \A c \in Cpus :
        [](Replaying /\ Len(ofile[c].bunches) > 1
              => <>(Len(issued[c]) = Len(queued[c])))
=============================================================================
