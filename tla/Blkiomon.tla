------------------------------ MODULE Blkiomon ------------------------------
(***************************************************************************)
(* blkiomon (blkiomon.c).  The main thread reads traces, pairs every issue *)
(* (D) with its completion (C) through a hash table, and adds each pair to *)
(* the statistics of its device.  The interval thread takes the finished   *)
(* statistics, prints them and hands their memory back.  The two share     *)
(* two trees of statistics and the list of vacant ones under dstat_mutex,  *)
(* but a statistic found under the mutex is updated after it is released.  *)
(*                                                                         *)
(* What is done under the mutex is one step; so is each half of an update  *)
(* (the minima and maxima, then the histograms) and each statistic         *)
(* printed.  A pair is a number, and a statistic the set of pairs that     *)
(* were added to it.                                                       *)
(***************************************************************************)
EXTENDS Integers, Sequences, SequencesExt, FiniteSets, FiniteSetsExt

CONSTANTS Requests,    \* device, sector and kind of an I/O: what is matched
          Device,      \* the device of a request
          Traces,      \* memory: struct trace
          Dstats,      \* memory: struct dstat
          MaxVacant,   \* traces kept for reuse: 256
          MaxTime,     \* bound: time stamps
          Usec,        \* time stamps per microsecond
          MaxTraces    \* bound: traces read

NoDstat == 0

ASSUME BlkiomonAssumption ==
    /\ DOMAIN Device = Requests /\ Requests # {}
    /\ NoDstat \notin Dstats
    /\ {MaxVacant, MaxTime, MaxTraces} \subseteq Nat
    /\ Usec \in Nat \ {0}

VARIABLES
    bit,              \* contents of every struct trace
    thash,            \* the stored traces
    vacant_traces, t, \* traces kept for reuse; the one of blkiomon_do_fifo
    dstat_curr, dstat_tree, dstat_list, vacant_dstats,
    stat,             \* per dstat: device, and the pairs added
    gpc, p, pair,     \* the main thread: blkiomon_account
    ipc, finished, out,  \* the interval thread
    reads, pairs,     \* history: traces read; the D and the C of each pair
    printed,          \* history: what was printed
    late              \* history: pairs whose statistic was taken meanwhile

gvars == <<bit, thash, vacant_traces, t>>
trees == <<dstat_curr, dstat_tree, dstat_list, vacant_dstats>>
ivars == <<ipc, finished, out>>
vars == <<gvars, trees, stat, gpc, p, pair, ivars, reads, pairs, printed, late>>

NoBit == [req |-> CHOOSE r \in Requests : TRUE, what |-> "none", time |-> 0,
          sequence |-> 0]
Empty(dev) == [device |-> dev, minmax |-> {}, hist |-> {}]
AnyDevice == Device[CHOOSE r \in Requests : TRUE]

Init ==
    /\ bit = [x \in Traces |-> NoBit] /\ thash = {} /\ vacant_traces = <<>>
    /\ t = CHOOSE x \in Traces : TRUE
    /\ dstat_curr = 0 /\ dstat_tree = [n \in 0..1 |-> {}]
    /\ dstat_list = [n \in 0..1 |-> <<>>] /\ vacant_dstats = <<>>
    /\ stat = [d \in Dstats |-> Empty(AnyDevice)]
    /\ gpc = "read" /\ p = NoDstat /\ pair = 0
    /\ ipc = "sleep" /\ finished = 0 /\ out = <<>>
    /\ reads = <<>> /\ pairs = <<>> /\ printed = <<>> /\ late = {}
-----------------------------------------------------------------------------
(* The main thread.                                                        *)

\* malloc gives memory that is not in use.
Fresh(S, used) == CHOOSE x \in S : x \notin used
TracesInUse == thash \cup Range(vacant_traces) \cup {t}
DstatsInUse == Range(dstat_list[0]) \cup Range(dstat_list[1])
               \cup Range(vacant_dstats) \cup Range(out)

\* blkiomon_alloc_trace and blkiomon_free_trace: the head of the vacant list.
AllocTrace ==
    IF vacant_traces # <<>>
    THEN t' = Head(vacant_traces) /\ vacant_traces' = Tail(vacant_traces)
    ELSE t' = Fresh(Traces, TracesInUse) /\ UNCHANGED vacant_traces
FreeTrace(x) ==
    vacant_traces' = IF Len(vacant_traces) < MaxVacant
                     THEN <<x>> \o vacant_traces ELSE vacant_traces

\* blkiomon_fetch_trace: the stored traces of the same request.
Stored(req) == {x \in thash : bit[x].req = req}

\* blkiomon_do_fifo reads a trace into t, and blkiomon_do_trace finds none to
\* match: the trace is stored.
StoreTrace(b) ==
    /\ gpc = "read" /\ Len(reads) < MaxTraces
    /\ Stored(b.req) = {}
    /\ reads' = Append(reads, b)
    /\ thash' = thash \cup {t}
    /\ AllocTrace
    /\ bit' = [bit EXCEPT ![t] = b, ![t'] = NoBit]
    /\ UNCHANGED <<trees, stat, gpc, p, pair, ivars, pairs, printed, late>>

\* The older of two traces; of traces of the same time, the one just read.
Matches(b, x) == bit[x].time < b.time /\ bit[x].what = "D" /\ b.what = "C"
Reversed(b, x) == bit[x].time >= b.time /\ b.what = "D" /\ bit[x].what = "C"

\* Mutant: the stored trace stays in the table.
MatchTraceKept(b) ==
    /\ gpc = "read" /\ Len(reads) < MaxTraces
    /\ \E x \in Stored(b.req) :
         LET d == IF Matches(b, x) THEN bit[x] ELSE b
             c == IF Matches(b, x) THEN b ELSE bit[x]
         IN
         /\ Matches(b, x) \/ Reversed(b, x)
         /\ thash' = thash
         /\ pairs' = Append(pairs, [d |-> d.sequence, c |-> c.sequence])
         /\ gpc' = IF (c.time - d.time) \div Usec = 0 THEN "killed" ELSE "get"
         /\ FreeTrace(x)
    /\ pair' = Len(pairs) + 1
    /\ reads' = Append(reads, b)
    /\ bit' = [bit EXCEPT ![t] = b]
    /\ UNCHANGED <<t, trees, stat, p, ivars, printed, late>>

\* The stored trace and the one read are the D and the C of one I/O: the pair
\* is accounted, unless it took less than a microsecond: blkiomon_account
\* divides by its time, which ends the process.
MatchTrace(b) ==
    /\ gpc = "read" /\ Len(reads) < MaxTraces
    /\ \E x \in Stored(b.req) :
         LET d == IF Matches(b, x) THEN bit[x] ELSE b
             c == IF Matches(b, x) THEN b ELSE bit[x]
         IN
         /\ Matches(b, x) \/ Reversed(b, x)
         /\ thash' = thash \ {x}
         /\ pairs' = Append(pairs, [d |-> d.sequence, c |-> c.sequence])
         /\ gpc' = IF (c.time - d.time) \div Usec = 0 THEN "killed" ELSE "get"
         /\ FreeTrace(x)
    /\ pair' = Len(pairs) + 1
    /\ reads' = Append(reads, b)
    /\ bit' = [bit EXCEPT ![t] = b]
    /\ UNCHANGED <<t, trees, stat, p, ivars, printed, late>>

\* Mutant: the older trace is kept.
MismatchOlderKept(b) ==
    /\ gpc = "read" /\ Len(reads) < MaxTraces
    /\ \E x \in Stored(b.req) :
         /\ ~Matches(b, x) /\ ~Reversed(b, x)
         /\ IF bit[x].time > b.time
            THEN thash' = (thash \ {x}) \cup {t} /\ t' = x
            ELSE UNCHANGED <<thash, t>>
    /\ reads' = Append(reads, b)
    /\ bit' = [bit EXCEPT ![t] = b]
    /\ UNCHANGED <<vacant_traces, trees, stat, gpc, p, pair, ivars, pairs,
                   printed, late>>

\* They are not: the younger one is kept.
MismatchTrace(b) ==
    /\ gpc = "read" /\ Len(reads) < MaxTraces
    /\ \E x \in Stored(b.req) :
         /\ ~Matches(b, x) /\ ~Reversed(b, x)
         /\ IF bit[x].time < b.time
            THEN thash' = (thash \ {x}) \cup {t} /\ t' = x
            ELSE UNCHANGED <<thash, t>>
    /\ reads' = Append(reads, b)
    /\ bit' = [bit EXCEPT ![t] = b]
    /\ UNCHANGED <<vacant_traces, trees, stat, gpc, p, pair, ivars, pairs,
                   printed, late>>

\* Mutant: a recycled statistic is not initialised.
GetDstatStale ==
    LET dev == Device[reads[pairs[pair].d].req]
        there == {d \in dstat_tree[dstat_curr] : stat[d].device = dev}
        new == IF vacant_dstats # <<>> THEN Head(vacant_dstats)
               ELSE Fresh(Dstats, DstatsInUse)
    IN
    /\ gpc = "get"
    /\ gpc' = "minmax"
    /\ IF there # {}
       THEN p' \in there /\ UNCHANGED <<trees, stat>>
       ELSE /\ p' = new
            /\ vacant_dstats' = IF vacant_dstats = <<>> THEN <<>>
                                ELSE Tail(vacant_dstats)
            /\ stat' = [stat EXCEPT ![new].device = dev]
            /\ dstat_tree' = [dstat_tree EXCEPT ![dstat_curr] = @ \cup {new}]
            /\ dstat_list' = [dstat_list EXCEPT ![dstat_curr] = <<new>> \o @]
            /\ UNCHANGED dstat_curr
    /\ UNCHANGED <<gvars, pair, ivars, reads, pairs, printed, late>>

\* blkiomon_get_dstat, under the mutex: the device's statistic in the current
\* tree, or one allocated, initialised, and put into the tree and the list.
GetDstat ==
    LET dev == Device[reads[pairs[pair].d].req]
        there == {d \in dstat_tree[dstat_curr] : stat[d].device = dev}
        new == IF vacant_dstats # <<>> THEN Head(vacant_dstats)
               ELSE Fresh(Dstats, DstatsInUse)
    IN
    /\ gpc = "get"
    /\ gpc' = "minmax"
    /\ IF there # {}
       THEN p' \in there /\ UNCHANGED <<trees, stat>>
       ELSE /\ p' = new
            /\ vacant_dstats' = IF vacant_dstats = <<>> THEN <<>>
                                ELSE Tail(vacant_dstats)
            /\ stat' = [stat EXCEPT ![new] = Empty(dev)]
            /\ dstat_tree' = [dstat_tree EXCEPT ![dstat_curr] = @ \cup {new}]
            /\ dstat_list' = [dstat_list EXCEPT ![dstat_curr] = <<new>> \o @]
            /\ UNCHANGED dstat_curr
    /\ UNCHANGED <<gvars, pair, ivars, reads, pairs, printed, late>>

\* blkiomon_account, without the mutex: minmax_account, then histlog2_account.
AccountMinmax ==
    /\ gpc = "minmax"
    /\ stat' = [stat EXCEPT ![p].minmax = @ \cup {pair}]
    /\ gpc' = "hist"
    /\ UNCHANGED <<gvars, trees, p, pair, ivars, reads, pairs, printed, late>>

AccountHist ==
    /\ gpc = "hist"
    /\ stat' = [stat EXCEPT ![p].hist = @ \cup {pair}]
    /\ gpc' = "read" /\ p' = NoDstat /\ pair' = 0
    /\ UNCHANGED <<gvars, trees, ivars, reads, pairs, printed, late>>

\* A signal or the end of the input: main returns, and the interval thread
\* ends with the process.
Exit ==
    /\ gpc = "read" /\ gpc' = "exited"
    /\ UNCHANGED <<gvars, trees, stat, p, pair, ivars, reads, pairs, printed,
                   late>>

Bits == [req : Requests, what : {"D", "C"}, time : 1..MaxTime,
         sequence : {Len(reads) + 1}]

Gather ==
    \/ \E b \in Bits : StoreTrace(b) \/ MatchTrace(b) \/ MismatchTrace(b)
    \/ GetDstat
    \/ AccountMinmax
    \/ AccountHist
    \/ Exit
-----------------------------------------------------------------------------
(* The interval thread.                                                    *)

Up == gpc \notin {"exited", "killed"}

\* The interval is over: from here on the other tree is current.
SwapTrees ==
    /\ Up /\ ipc = "sleep"
    /\ finished' = dstat_curr
    /\ dstat_curr' = 1 - dstat_curr
    /\ ipc' = "take"
    /\ late' = late \cup (IF p = NoDstat THEN {} ELSE {pair})
    /\ UNCHANGED <<gvars, dstat_tree, dstat_list, vacant_dstats, stat, gpc, p,
                   pair, out, reads, pairs, printed>>

\* Mutant: the tree is left as it is.
TakeListOnly ==
    /\ Up /\ ipc = "take"
    /\ out' = dstat_list[finished]
    /\ dstat_list' = [dstat_list EXCEPT ![finished] = <<>>]
    /\ dstat_tree' = [dstat_tree EXCEPT
                        ![finished] = @]
    /\ ipc' = IF out' = <<>> THEN "sleep" ELSE "print"
    /\ printed' = printed \o
                  (IF out' = <<>> THEN <<>> ELSE <<<<>>>>)
    /\ UNCHANGED <<gvars, dstat_curr, vacant_dstats, stat, gpc, p, pair,
                   finished, reads, pairs, late>>

\* Without the mutex: the list and the tree are emptied, or there is nothing.
TakeList ==
    /\ Up /\ ipc = "take"
    /\ out' = dstat_list[finished]
    /\ dstat_list' = [dstat_list EXCEPT ![finished] = <<>>]
    /\ dstat_tree' = [dstat_tree EXCEPT
                        ![finished] = IF out' = <<>> THEN @ ELSE {}]
    /\ ipc' = IF out' = <<>> THEN "sleep" ELSE "print"
    /\ printed' = printed \o
                  (IF out' = <<>> THEN <<>> ELSE <<<<>>>>)
    /\ UNCHANGED <<gvars, dstat_curr, vacant_dstats, stat, gpc, p, pair,
                   finished, reads, pairs, late>>

\* blkiomon_output: one statistic after the other.
Batch == printed[Len(printed)]
PrintStat ==
    /\ Up /\ ipc = "print" /\ Len(Batch) < Len(out)
    /\ printed' = [printed EXCEPT ![Len(printed)] =
                      Append(@, stat[out[Len(@) + 1]])]
    /\ UNCHANGED <<gvars, trees, stat, gpc, p, pair, ivars, reads, pairs, late>>

\* Mutant: the thread does not come back.
RecycleAndStop ==
    /\ Up /\ ipc = "print" /\ Len(Batch) = Len(out)
    /\ vacant_dstats' = out \o vacant_dstats
    /\ out' = <<>>
    /\ ipc' = "done"
    /\ UNCHANGED <<gvars, dstat_curr, dstat_tree, dstat_list, stat, gpc, p,
                   pair, finished, reads, pairs, printed, late>>

\* Under the mutex: the statistics are vacant again.
Recycle ==
    /\ Up /\ ipc = "print" /\ Len(Batch) = Len(out)
    /\ vacant_dstats' = out \o vacant_dstats
    /\ out' = <<>>
    /\ ipc' = "sleep"
    /\ UNCHANGED <<gvars, dstat_curr, dstat_tree, dstat_list, stat, gpc, p,
                   pair, finished, reads, pairs, printed, late>>

Interval == SwapTrees \/ TakeList \/ PrintStat \/ Recycle

Next == Gather \/ Interval

Spec == Init /\ [][Next]_vars

\* Both threads run; the input need neither go on nor end.
Fairness ==
    /\ WF_vars(Interval)
    /\ WF_vars(GetDstat \/ AccountMinmax \/ AccountHist)

FairSpec == Spec /\ Fairness
-----------------------------------------------------------------------------
(* Properties.                                                             *)

\* No struct trace is in two places: the hash table, the vacant list, the hand
\* of blkiomon_do_fifo; and the table has one trace of a request at most, as
\* blkiomon_fetch_trace takes the stored one out before another is stored.
TracesOwned ==
    /\ t \notin thash \cup Range(vacant_traces)
    /\ thash \cap Range(vacant_traces) = {}
    /\ IsInjective(vacant_traces) /\ Len(vacant_traces) <= MaxVacant
    /\ \A x, y \in thash : bit[x].req = bit[y].req => x = y

\* The trees and the lists agree, except while the interval thread empties
\* them; no struct dstat is in both trees, or vacant or being printed at the
\* same time, and a tree has one for a device.
DstatsOwned ==
    /\ \A n \in 0..1 : Range(dstat_list[n]) = dstat_tree[n]
    /\ IsInjective(dstat_list[0] \o dstat_list[1] \o vacant_dstats \o out)
    /\ \A n \in 0..1 : \A d, e \in dstat_tree[n] :
           stat[d].device = stat[e].device => d = e

\* Memory that is recycled is in one place at a time.
MemoryOwned == TracesOwned /\ DstatsOwned

\* No trace is in two pairs.  As long as the traces of a request come in the
\* order of their times, no two at the same time, its pairs are exactly each C
\* with the trace before it where that is a D: a D without a completion, or a
\* C without an issue, is replaced and never paired with a later I/O's trace.
Before(k) == {j \in 1..k - 1 : reads[j].req = reads[k].req}
InOrder(r) ==
    \A k \in DOMAIN reads : reads[k].req = r =>
        \A j \in Before(k) : reads[j].time < reads[k].time
PairsAreRequests ==
    /\ \A m, n \in DOMAIN pairs : m # n =>
           {pairs[m].d, pairs[m].c} \cap {pairs[n].d, pairs[n].c} = {}
    /\ \A r \in Requests : InOrder(r) =>
           {x \in Range(pairs) : reads[x.d].req = r} =
               {[d |-> Max(Before(k)), c |-> k] :
                   k \in {n \in DOMAIN reads :
                            /\ reads[n].req = r /\ reads[n].what = "C"
                            /\ Before(n) # {}
                            /\ reads[Max(Before(n))].what = "D"}}

PrintedStats == UNION {Range(printed[n]) : n \in DOMAIN printed}
Unprinted == IF ipc = "print"
             THEN {out[k] : k \in Len(Batch) + 1..Len(out)} ELSE {}
Gathered == dstat_tree[0] \cup dstat_tree[1] \cup Unprinted

\* A pair whose statistic was not taken between its lookup and its update is
\* in the statistics that are printed or still to be printed once, under its
\* device; one whose statistic was may be lost, but is never in two.
PairsReportedOnce ==
    \A k \in DOMAIN pairs :
        LET has(s) == k \in s.minmax
            nprinted == Cardinality({x \in (1..Len(printed)) \X (1..MaxTraces) :
                            /\ x[2] \in DOMAIN printed[x[1]]
                            /\ has(printed[x[1]][x[2]])})
            ngathered == Cardinality({d \in Gathered : has(stat[d])})
        IN /\ nprinted + ngathered <= 1
           /\ k \notin late /\ k # pair /\ Up => nprinted + ngathered = 1
           /\ \A s \in PrintedStats \cup {stat[d] : d \in Gathered} :
                 has(s) => s.device = Device[reads[pairs[k].d].req]

\* What is printed is the requests that were read, each once.
ReportTrue == PairsAreRequests /\ PairsReportedOnce

\* What was gathered is printed in the end, unless blkiomon ends first: the
\* statistics of the last interval are never printed.
GatheredIsPrinted ==
    \A k \in 1..MaxTraces :
        k \in DOMAIN pairs ~>
            \/ ~Up
            \/ k \in late
            \/ \E s \in PrintedStats : k \in s.minmax /\ k \in s.hist
=============================================================================
