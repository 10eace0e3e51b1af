------------------------------ MODULE Analysis ------------------------------
(***************************************************************************)
(* One device traced from an idle start, and the two programs that read    *)
(* the trace: blkparse with its statistics and btt.  Events may be missing *)
(* from the trace: the kernel refuses them when its buffers are full.      *)
(***************************************************************************)
EXTENDS BlockEvents, IoTrack, Btt

ASSUME AnalysisAssumption ==
    /\ range_delta \in Nat /\ interval \in Nat \ {0}
    /\ Tasks = Processes /\ Kernel \in Tasks
    /\ \A work \in Workloads : \A k \in DOMAIN work.bios : work.bios[k].pid \in Tasks

VARIABLES lost,   \* events that are missing
          spans   \* history: when the bios btt took out were on the device

analysisvars == <<block, iotrack, btt, lost, spans>>

AnalysisInit == BlockInit /\ IoTrackInit /\ BttInit /\ lost = 0 /\ spans = {}

\* From issue to completion, of the bios the last event took out of btt's tree.
TakenOut ==
    {<<q.d, event'.time>> : q \in {x \in qs \ qs' : x.d # Never /\ event'.act = "C"}}

\* The last event comes to both, or is missing.
Read ==
    /\ lost <= workload'.odd /\ UNCHANGED lost
    /\ DumpTrace(event') /\ AddTrace(event') /\ spans' = spans \cup TakenOut
Missing == lost < workload'.odd /\ lost' = lost + 1 /\ UNCHANGED <<iotrack, btt, spans>>

AnalysisNext ==
    \/ BlockNext /\ Read
    \/ BlockNext /\ Missing

AnalysisSpec == AnalysisInit /\ [][AnalysisNext]_analysisvars
-----------------------------------------------------------------------------
(* Properties.                                                             *)

FsRequests == {r \in requests : r.kind = "fs"}
Issued == {r \in requests : r.state = "issued"}
NotIssued == {r \in FsRequests : r.state # "issued"}

\* Nothing is missing, and no two bios had sectors in common while both were
\* on their way: then either program can tell them apart.
Plain == lost = 0 /\ ~overlapped

\* A command leaves a track at sector 0 behind, in which a request that begins
\* there, or is merged to begin there, finds times and an owner not its own.
NoCommand == commands = 0

\* The depths: blkparse's are the requests on the device, in each direction,
\* commands too, and its maximum was reached; btt's queue is the bios that wait
\* for a request or a merge and the requests that wait for the device; its
\* device has those that are on it, and one more for each requeue, which aqd.c
\* does not know of; iostat's have a bio for each request, so that merged bios
\* take one too many off.
DepthsExact ==
    Plain =>
        /\ \A w \in Directions :
              /\ cur_depth[w] = Cardinality({r \in Issued : r.w = w})
              /\ cur_depth[w] <= max_depth[w]
        /\ n_act_q = Cardinality(waiting) + Cardinality(NotIssued)
        /\ na = Cardinality(Issued \cap FsRequests)
                  + (io_stats["requeue"][0].n + io_stats["requeue"][1].n)
        /\ LET merged == Cardinality(completed) - Cardinality({b.request : b \in completed})
           IN /\ iostat.cur_qusz = Cardinality(FsRequests) - merged
              /\ iostat.cur_dev = na - merged

\* The times: blkparse tells how long a request has waited for its insertion,
\* its issue and its completion, though it may have been merged in between, and
\* the longest of a process that only ever read and wrote; btt's totals are
\* those of the bios that are done, from queue and from the last issue.
TimesTrue ==
    Plain =>
        /\ event.act = "C" /\ event.kind = "fs" /\ NoCommand =>
              \E b \in completed : b.c = now /\ elapsed = b.c - b.d
        /\ event.act \in {"I", "D"} /\ event.kind = "fs" /\ NoCommand =>
              \E r \in FsRequests :
                  /\ r.start = event.sector
                  /\ elapsed = IF event.act = "I" THEN r.i - r.g ELSE r.d - r.i
        /\ avgs[All]["q2c"] = [n |-> Cardinality(completed),
                               total |-> Total([b \in completed |-> b.c - b.q])]
        /\ avgs[All]["d2c"] = [n |-> Cardinality(completed),
                               total |-> Total([b \in completed |-> b.c - b.d])]
        /\ \A p \in DOMAIN ppi : NoCommand =>
              \A w \in Directions :
                  LET mine == {b \in completed : b.owner = p /\ b.w = w}
                      longest == ppi[p].waits["completion"][w]
                  IN IF mine = {} THEN longest = 0
                     ELSE /\ \A b \in mine : b.c - b.d <= longest
                          /\ \E b \in mine : b.c - b.d = longest

\* What is kept of what is over: blkparse has a track for each request of bios
\* on its way and no other, but for sector 0, where the request of a command is
\* entered and never taken out; btt knows the bios on their way, and no other.
NothingKept ==
    Plain =>
        /\ {t.sector : t \in tracks} \ {0} = {r.start : r \in FsRequests} \ {0}
        /\ NoCommand => Cardinality(tracks) = Cardinality(FsRequests)
        /\ {<<q.sector, q.q>> : q \in qs} = {<<b.start, b.q>> : b \in InFlight}

\* The ranges of time.  Whatever is missing or overlaps, those with a bio on the
\* device do not touch, and they cover the times from issue to completion of the
\* bios btt took out as complete and nothing else; those of queueing and
\* completing are in order and apart by range_delta.  If nothing is missing and
\* nothing overlaps, what they cover is also the truth: the times the bios
\* really were on the device.
Apart(ranges) ==
    \A k \in 2..Len(ranges) :
        /\ ranges[k - 1].start <= ranges[k - 1].end
        /\ ranges[k].start - ranges[k - 1].end >= range_delta
RangesTrue ==
    /\ \A a, b \in lives : a # b => a.end < b.start \/ b.end < a.start
    /\ UNION {r.start..r.end : r \in lives} = UNION {s[1]..s[2] : s \in spans}
    /\ Plain =>
          UNION {r.start..r.end : r \in lives} = UNION {b.d..b.c : b \in completed}
    /\ Apart(qranges) /\ Apart(cranges)

\* The lines of iostat and what has come since add up to the whole, and so do
\* the processes to the device, whatever is missing.
SumsAgree ==
    /\ Plus(iostat.printed, iostat.stats) = iostat.all
    /\ \A of \in Counted : \A w \in Directions :
          /\ io_stats[of][w].n = Total([p \in DOMAIN ppi |-> ppi[p].stats[of][w].n])
          /\ io_stats[of][w].len =
                Total([p \in DOMAIN ppi |-> ppi[p].stats[of][w].len])
    /\ lost = 0 => \A w \in Directions :
          io_stats["issue"][w].len =
              io_stats["complete"][w].len
                + Total([r \in {x \in FsRequests \cap Issued : x.w = w} |-> r.len])

\* Nothing of what is over stays, and the sums add up.
BooksBalance == NothingKept /\ SumsAgree
=============================================================================
