---------------------------- MODULE PipedOutput ----------------------------
(***************************************************************************)
(* blktrace's data path when it writes to a pipe (blktrace.c, "-o -"):     *)
(* each tracer reads the relay buffers of its CPU into trace_bufs, puts    *)
(* them on a list per device and CPU and counts them in dp_entries; the    *)
(* main thread takes the lists off and hands the buffers to                *)
(* handle_list_file, which writes the whole events and keeps what is left  *)
(* for the next buffer.                                                    *)
(*                                                                         *)
(* A stream is what one CPU records for one device.  Its bytes are         *)
(* numbered 1, 2, ...; a buffer is a sequence of such numbers, so what is  *)
(* written can be compared with what was recorded.  Lists are protected by *)
(* a mutex each and dp_entries by dp_mutex; no step blocks inside, so each *)
(* critical section is part of one action.  wait_empty_entries sleeps at   *)
(* most 50 ms, so it is a guard here.                                      *)
(***************************************************************************)
EXTENDS Integers, Sequences, SequencesExt

CONSTANTS NDevs, NCPUs,
          EventLens,     \* length of each event a stream may record
          BufSize,       \* buf_size: the most one read returns
          WriteFails     \* writing to the output may fail

ASSUME PipedOutputAssumption ==
    /\ NDevs \in Nat \ {0} /\ NCPUs \in Nat \ {0} /\ BufSize \in Nat \ {0}
    /\ EventLens \in Seq(Nat \ {0})
    /\ WriteFails \in BOOLEAN

Devs == 1..NDevs
CPUs == 0..(NCPUs - 1)
Streams == Devs \X CPUs

\* Ends[n] is the number of bytes of a stream's first n events.
Ends[n \in 0..Len(EventLens)] ==
    IF n = 0 THEN 0 ELSE Ends[n - 1] + EventLens[n]

VARIABLES
    recorded,    \* per stream: events in the relay buffer or read from it
    rd,          \* per stream: bytes the tracer has read
    list,        \* per stream: hd->head, the trace_bufs not taken yet
    prev,        \* per stream: hd->prev, the bytes left over
    dp_entries,
    tdev,        \* per tracer: the next device of its pass
    nentries,    \* per tracer: buffers added in this pass, not yet counted
    forced,      \* per tracer: the pass is one after is_done was seen
    tlive,       \* per tracer: not yet left
    stop,        \* "no", "stopped" (done, traces stopped), "told" (is_done)
    mpc,         \* where the main thread is
    final,       \* the main thread is in clean_trace_bufs
    at,          \* the position of __process_trace_bufs' two loops
    taken,       \* the list handle_list works on
    handled,     \* buffers handled in this pass
    out,         \* per stream: the bytes written
    nevents      \* per stream: stats[cpu].nevents

tvars == <<tdev, nentries, forced, tlive>>
mvars == <<mpc, final, at, taken, handled>>
vars == <<recorded, rd, list, prev, dp_entries, tvars, stop, mvars, out,
          nevents>>

Init ==
    /\ recorded = [s \in Streams |-> 0] /\ rd = [s \in Streams |-> 0]
    /\ list = [s \in Streams |-> <<>>] /\ prev = [s \in Streams |-> <<>>]
    /\ dp_entries = 0
    /\ tdev = [c \in CPUs |-> 1] /\ nentries = [c \in CPUs |-> 0]
    /\ forced = [c \in CPUs |-> FALSE] /\ tlive = [c \in CPUs |-> TRUE]
    /\ stop = "no"
    /\ mpc = "wait" /\ final = FALSE /\ at = 1
    /\ taken = <<>> /\ handled = 0
    /\ out = [s \in Streams |-> <<>>] /\ nevents = [s \in Streams |-> 0]

Buffers ==
    {[i \in 1..n |-> lo + i] : n \in 1..BufSize, lo \in 0..Ends[Len(EventLens)]}

TypeOK ==
    /\ recorded \in [Streams -> 0..Len(EventLens)]
    /\ rd \in [Streams -> 0..Ends[Len(EventLens)]]
    /\ \A s \in Streams : \A i \in DOMAIN list[s] : list[s][i] \in Buffers
    /\ prev \in [Streams -> Seq(1..Ends[Len(EventLens)])]
    /\ dp_entries \in Int
    /\ tdev \in [CPUs -> 1..NDevs + 1] /\ nentries \in [CPUs -> 0..NDevs]
    /\ forced \in [CPUs -> BOOLEAN] /\ tlive \in [CPUs -> BOOLEAN]
    /\ stop \in {"no", "stopped", "told"}
    /\ mpc \in {"wait", "scan", "handle", "leaving", "clean", "closed"}
    /\ final \in BOOLEAN
    /\ at \in 1..NDevs * NCPUs + 1
    /\ \A i \in DOMAIN taken : taken[i] \in Buffers
    /\ handled \in Nat
    /\ out \in [Streams -> Seq(1..Ends[Len(EventLens)])]
    /\ nevents \in [Streams -> Nat]
-----------------------------------------------------------------------------
(* The kernel, and the request to stop.                                    *)

Record(s) ==
    /\ stop = "no" /\ recorded[s] < Len(EventLens)
    /\ recorded' = [recorded EXCEPT ![s] = @ + 1]
    /\ UNCHANGED <<rd, list, prev, dp_entries, tvars, stop, mvars, out,
                   nevents>>

\* handle_sigint: done is set and the traces are stopped, then the tracers
\* are told.
StopTraces ==
    /\ \/ stop = "no" /\ stop' = "stopped"
       \/ stop = "stopped" /\ stop' = "told"
    /\ UNCHANGED <<recorded, rd, list, prev, dp_entries, tvars, mvars, out,
                   nevents>>
-----------------------------------------------------------------------------
(* The tracer of CPU c: handle_pfds_entries, over the devices.             *)

\* Unread bytes of a stream.
Unread(s) == Ends[recorded[s]] - rd[s]

Bytes(lo, n) == [i \in 1..n |-> lo + i]

\* add_trace_buf after a read that returned data.
TracerRead(c) ==
    LET s == <<tdev[c], c>> IN
    /\ tlive[c] /\ tdev[c] <= NDevs
    /\ \E n \in 1..BufSize :
          /\ n <= Unread(s)
          /\ rd' = [rd EXCEPT ![s] = @ + n]
          /\ list' = [list EXCEPT ![s] = Append(@, Bytes(rd[s], n))]
    /\ tdev' = [tdev EXCEPT ![c] = @ + 1]
    /\ nentries' = [nentries EXCEPT ![c] = @ + 1]
    /\ UNCHANGED <<recorded, prev, dp_entries, forced, tlive, stop, mvars, out,
                   nevents>>

\* A read that finds nothing.
TracerSkip(c) ==
    /\ tlive[c] /\ tdev[c] <= NDevs
    /\ Unread(<<tdev[c], c>>) = 0
    /\ tdev' = [tdev EXCEPT ![c] = @ + 1]
    /\ UNCHANGED <<recorded, rd, list, prev, dp_entries, nentries, forced,
                   tlive, stop, mvars, out, nevents>>

\* Mutant: a tracer leaves as soon as it has seen is_done.
PassEndsAtOnce(c) ==
    /\ tlive[c] /\ tdev[c] = NDevs + 1
    /\ dp_entries' = dp_entries + nentries[c]
    /\ nentries' = [nentries EXCEPT ![c] = 0]
    /\ tdev' = [tdev EXCEPT ![c] = 1]
    /\ tlive' = [tlive EXCEPT ![c] = stop # "told"]
    /\ UNCHANGED <<recorded, rd, list, prev, forced, stop, mvars, out,
                   nevents>>

\* Mutant: nentries is not reset for the next pass.
PassKeepsCount(c) ==
    /\ tlive[c] /\ tdev[c] = NDevs + 1
    /\ dp_entries' = dp_entries + nentries[c]
    /\ tdev' = [tdev EXCEPT ![c] = 1]
    /\ forced' = [forced EXCEPT ![c] = stop = "told"]
    /\ tlive' = [tlive EXCEPT ![c] = ~forced[c] \/ nentries[c] > 0]
    /\ UNCHANGED <<recorded, rd, list, prev, nentries, stop, mvars, out,
                   nevents>>

\* The end of a pass: incr_entries, and the loops of thread_main: passes go
\* on until is_done is seen, then until one found nothing.
TracerPassEnds(c) ==
    /\ tlive[c] /\ tdev[c] = NDevs + 1
    /\ dp_entries' = dp_entries + nentries[c]
    /\ nentries' = [nentries EXCEPT ![c] = 0]
    /\ tdev' = [tdev EXCEPT ![c] = 1]
    /\ forced' = [forced EXCEPT ![c] = stop = "told"]
    /\ tlive' = [tlive EXCEPT ![c] = ~forced[c] \/ nentries[c] > 0]
    /\ UNCHANGED <<recorded, rd, list, prev, stop, mvars, out, nevents>>

TracerStep(c) == TracerRead(c) \/ TracerSkip(c) \/ TracerPassEnds(c)
-----------------------------------------------------------------------------
(* The main thread.                                                        *)

done == stop # "no"

\* The order of the two loops of __process_trace_bufs.
StreamAt(i) == <<((i - 1) \div NCPUs) + 1, (i - 1) % NCPUs>>

\* process_trace_bufs, one turn: wait_empty_entries, then a pass or the end.
MainWait ==
    /\ mpc = "wait" /\ (done \/ dp_entries # 0)
    /\ mpc' = IF done THEN "leaving" ELSE "scan"
    /\ at' = 1 /\ handled' = 0
    /\ UNCHANGED <<recorded, rd, list, prev, dp_entries, tvars, stop, final,
                   taken, out, nevents>>

\* __process_trace_bufs at one list: take all of it, or go on.
MainTake ==
    LET s == StreamAt(at) IN
    /\ mpc = "scan" /\ at <= NDevs * NCPUs
    /\ IF list[s] = <<>>
       THEN /\ at' = at + 1
            /\ UNCHANGED <<mpc, taken, list>>
       ELSE /\ taken' = list[s]
            /\ list' = [list EXCEPT ![s] = <<>>]
            /\ mpc' = "handle"
            /\ UNCHANGED at
    /\ UNCHANGED <<recorded, rd, prev, dp_entries, tvars, stop, final,
                   handled, out, nevents>>

\* Where the loop of handle_list_file over the headers may stop, with the
\* events counted on the way.  In a buffer that starts with an event it is
\* after the last whole one; in any other the pdu_len read is arbitrary.
Cuts(buf) ==
    LET first == {n \in 0..Len(EventLens) : buf[1] = Ends[n] + 1}
        last  == {n \in 0..Len(EventLens) : Ends[n] <= buf[Len(buf)]}
        whole == {[off |-> Ends[m] - Ends[n], n |-> m - n] :
                     n \in first, m \in last}
    IN  IF first = {}
        THEN {[off |-> o, n |-> o] : o \in 0..Len(buf)}
        ELSE {c \in whole : \A d \in whole : d.off <= c.off}

NextBuffer ==
    /\ handled' = handled + 1
    /\ taken' = Tail(taken)
    /\ IF Len(taken) = 1 THEN mpc' = "scan" /\ at' = at + 1
                         ELSE UNCHANGED <<mpc, at>>

\* Mutant: what is left of a buffer is not kept.
HandleFileDropsRest ==
    LET s == StreamAt(at) IN
    /\ mpc = "handle"
    /\ \E cut \in Cuts(prev[s] \o Head(taken)) :
          /\ out' = [out EXCEPT ![s] =
                        @ \o SubSeq(prev[s] \o Head(taken), 1, cut.off)]
          /\ nevents' = [nevents EXCEPT ![s] = @ + cut.n]
    /\ prev' = [prev EXCEPT ![s] = <<>>]
    /\ NextBuffer
    /\ UNCHANGED <<recorded, rd, list, dp_entries, tvars, stop, final>>

\* handle_list_file for the next buffer of the list: tb_combine, the whole
\* events, write_data.  A failed write may have written some bytes.
HandleFile ==
    LET s   == StreamAt(at)
        buf == prev[s] \o Head(taken)
    IN
    /\ mpc = "handle"
    /\ \E cut \in Cuts(buf) :
        \E wr \in IF WriteFails THEN 0..cut.off ELSE {cut.off} :
          /\ out' = [out EXCEPT ![s] = @ \o SubSeq(buf, 1, wr)]
          /\ nevents' = [nevents EXCEPT ![s] = @ + cut.n]
          /\ prev' = [prev EXCEPT ![s] =
                         IF wr < cut.off THEN <<>>
                         ELSE SubSeq(buf, cut.off + 1, Len(buf))]
    /\ NextBuffer
    /\ UNCHANGED <<recorded, rd, list, dp_entries, tvars, stop, final>>

\* Mutant: the entries are counted down by one a pass.
DecrByOne ==
    /\ mpc = "scan" /\ at > NDevs * NCPUs
    /\ dp_entries' = dp_entries - (IF handled > 0 THEN 1 ELSE 0)
    /\ handled' = 0
    /\ mpc' = IF final THEN "clean" ELSE "wait"
    /\ UNCHANGED <<recorded, rd, list, prev, tvars, stop, final, at, taken,
                   out, nevents>>

\* The end of __process_trace_bufs: decr_entries.
MainDecr ==
    /\ mpc = "scan" /\ at > NDevs * NCPUs
    /\ dp_entries' = dp_entries - handled
    /\ handled' = 0
    /\ mpc' = IF final THEN "clean" ELSE "wait"
    /\ UNCHANGED <<recorded, rd, list, prev, tvars, stop, final, at, taken,
                   out, nevents>>

\* wait_tracers_leaving and the joins.
MainLeaving ==
    /\ mpc = "leaving" /\ \A c \in CPUs : ~tlive[c]
    /\ mpc' = "clean" /\ final' = TRUE
    /\ UNCHANGED <<recorded, rd, list, prev, dp_entries, tvars, stop, at,
                   taken, handled, out, nevents>>

\* clean_trace_bufs, one turn; at its end free_tracer_heads frees the lists
\* and what is left over.
MainClean ==
    /\ mpc = "clean"
    /\ mpc' = IF dp_entries # 0 THEN "scan" ELSE "closed"
    /\ at' = 1
    /\ UNCHANGED <<recorded, rd, list, prev, dp_entries, tvars, stop, final,
                   taken, handled, out, nevents>>

MainStep == \/ MainWait \/ MainTake \/ HandleFile \/ MainDecr
            \/ MainLeaving \/ MainClean

Closed == mpc = "closed" /\ UNCHANGED vars

Next ==
    \/ \E s \in Streams : Record(s)
    \/ StopTraces
    \/ \E c \in CPUs : TracerStep(c)
    \/ MainStep
    \/ Closed

\* The threads are scheduled; the handler, once running, finishes.
Spec ==
    /\ Init /\ [][Next]_vars
    /\ WF_vars(MainStep) /\ WF_vars(stop = "stopped" /\ StopTraces)
    /\ \A c \in CPUs : WF_vars(TracerStep(c))
-----------------------------------------------------------------------------
(* Properties.                                                             *)

SumOver(f, S) == FoldSet(LAMBDA x, acc : f[x] + acc, 0, S)

\* dp_entries counts the buffers on the lists: each is counted once, between
\* the moments its tracer (incr_entries) and the main thread (decr_entries)
\* get round to it.  clean_trace_bufs relies on it to empty the lists.
EntriesAccounted ==
    dp_entries + SumOver(nentries, CPUs)
        = SumOver([s \in Streams |-> Len(list[s])], Streams)
          + Len(taken) + handled

\* A left-over kept in hd->prev starts with an event: "any remaining data is
\* kept for the next pass".  It holds while no write fails.
LeftoverStartsAtEvent ==
    \A s \in Streams :
        prev[s] # <<>> => \E n \in DOMAIN Ends : prev[s][1] = Ends[n] + 1

\* The statistics show_stats prints are the events that were recorded.
StatsExact == mpc = "closed" => nevents = recorded

\* No buffer and no event is counted twice or forgotten between the tracers
\* and the main thread, up to what show_stats prints at the end.
BuffersAccounted == TypeOK /\ EntriesAccounted /\ StatsExact

\* After the signal, blktrace terminates once the tracers have drained their
\* buffers.
Terminates == done ~> mpc = "closed"

\* What has come out of a stream, in events; one too many if it is not a
\* sequence of whole events from the first on.
EventsOut(s) ==
    LET whole == {n \in DOMAIN Ends : out[s] = Bytes(0, Ends[n])}
    IN  IF whole = {} THEN Len(EventLens) + 1 ELSE CHOOSE n \in whole : TRUE

\* The piped output implements EventStream: whole events, each once, in
\* order, and all of them by the time blktrace has ended.
EventStreamAbs == INSTANCE EventStream
    WITH emitted <- [s \in Streams |-> EventsOut(s)],
         ended <- mpc = "closed"
ImplementsEventStream == EventStreamAbs!Spec
=============================================================================
