--------------------------------- MODULE Btt ---------------------------------
(***************************************************************************)
(* What btt makes of the events of a device (btt/trace*.c and what they    *)
(* call): the bios it knows, kept by their first sector, what it averages, *)
(* and the ranges of time in which something went on.  One device that is  *)
(* no remapper; commands are passed over (trace.c:88).                     *)
(***************************************************************************)
EXTENDS Integers, Sequences, FiniteSets, FiniteSetsExt

CONSTANTS Tasks,         \* the tasks events are of
          range_delta,   \* option -d
          interval       \* option -S: time between two lines of iostat

VARIABLES
    pre_culling,   \* no bio has been queued yet
    qs,            \* the tree of bios
    n_act_q, t_act_q, n_qs, n_ds,   \* of the device
    na,            \* aqd.c: active on the device
    iostat,        \* iostat.c: since the last line, in all, and printed
    avgs,          \* of the device and of the processes
    last_q,        \* of the device and of the processes
    lives,         \* p_live.c: ranges of time with a bio on the device
    qranges, cranges,   \* the ranges of queueing and completing
    plug           \* devs.c

btt == <<pre_culling, qs, n_act_q, t_act_q, n_qs, n_ds, na, iostat, avgs, last_q,
         lives, qranges, cranges, plug>>

Never == -1
All == 0   \* the device's own, next to those of the tasks
NoAvg == [n |-> 0, total |-> 0]
Averaged == {"q2q", "q2g", "s2g", "g2i", "q2m", "i2d", "m2d", "q2d", "d2c", "q2c",
             "blks"}
NoLine == [rqm |-> 0, ios |-> 0, sec |-> 0, wait |-> 0, svctm |-> 0]

BttInit ==
    /\ pre_culling = TRUE /\ qs = {}
    /\ n_act_q = 0 /\ t_act_q = 0 /\ n_qs = 0 /\ n_ds = 0 /\ na = 0
    /\ iostat = [stats |-> NoLine, all |-> NoLine, printed |-> NoLine,
                 start |-> Never, cur_qusz |-> 0, tot_qusz |-> 0, qu_change |-> 0,
                 cur_dev |-> 0, idle |-> 0, dev_change |-> 0]
    /\ avgs = [t \in Tasks \cup {All} |-> [of \in Averaged |-> NoAvg]]
    /\ last_q = [t \in Tasks \cup {All} |-> Never]
    /\ lives = {} /\ qranges = <<>> /\ cranges = <<>>
    /\ plug = [on |-> FALSE, since |-> 0, time |-> 0, n |-> 0, known |-> FALSE]
-----------------------------------------------------------------------------
(* The tree of bios.                                                       *)

End(x) == x.sector + x.len

\* rb_find_sec: a bio that holds the sector.  If bios overlap it may be any of
\* them, or none, as the tree happens to have grown.
Holding(sector) == {q \in qs : q.sector <= sector /\ sector < End(q)}
SomeOverlap == \E p, q \in qs : p # q /\ p.sector < End(q) /\ q.sector < End(p)
FoundAt(sector) ==
    {{q} : q \in Holding(sector)}
      \cup (IF Holding(sector) = {} \/ SomeOverlap THEN {{}} ELSE {})

\* rb_foreach: the bios within the sectors of the event.  One that overlaps a
\* bio before it, which reaches the end of the event, may be missed.
Within(e) == {q \in qs : e.sector <= q.sector /\ End(q) <= End(e)}
Missable(e) ==
    {q \in Within(e) : \E p \in qs : p.sector < q.sector /\ End(p) >= End(e)}
FoundWithin(e) == {Within(e) \ missed : missed \in SUBSET Missable(e)}

\* tdelta: never nothing.
Tdelta(from, to) == IF from < to THEN to - from ELSE 1
-----------------------------------------------------------------------------
(* Averages: avg_update, for the device and the task of the bio.           *)

Total(f) == FoldSet(LAMBDA x, sum : f[x] + sum, 0, DOMAIN f)

Sampled(avg, time) == [n |-> avg.n + 1, total |-> avg.total + time]
Update(all, of, task, time) ==
    [t \in DOMAIN all |->
        IF t \in {All, task} THEN [all[t] EXCEPT ![of] = Sampled(@, time)]
        ELSE all[t]]

\* The same for each bio of a set.
UpdateAll(all, of, found, times) ==
    [t \in DOMAIN all |->
        LET mine == {q \in found : t \in {All, q.pid}}
        IN [all[t] EXCEPT ![of] = [n |-> @.n + Cardinality(mine),
                                   total |-> @.total
                                              + Total([q \in mine |-> times[q]])]]]
-----------------------------------------------------------------------------
(* Ranges of time.                                                         *)

\* update_range.
InRange(ranges, time) ==
    LET n == Len(ranges)
    IN IF n > 0 /\ time < ranges[n].end THEN ranges
       ELSE IF n > 0 /\ time - ranges[n].end < range_delta
       THEN [ranges EXCEPT ![n].end = time]
       ELSE Append(ranges, [start |-> time, end |-> time])

\* Mutant: a range within the new one is taken to be outside.
InsideNotWithin(live, dt, ct) ==
    \/ live.start <= dt /\ dt <= live.end
    \/ live.start <= ct /\ ct <= live.end

Inside(live, dt, ct) ==
    \/ live.start <= dt /\ dt <= live.end
    \/ live.start <= ct /\ ct <= live.end
    \/ dt < live.start /\ live.end < ct

\* __p_live_add: a range the new one touches is taken out, and both put in as
\* one.  Those in the tree do not touch each other, so each that the result
\* touches has touched the new one.
WithLive(ranges, dt, ct) ==
    LET met == {r \in ranges : Inside(r, dt, ct)}
    IN (ranges \ met) \cup
          {[start |-> Min({dt} \cup {r.start : r \in met}),
            end |-> Max({ct} \cup {r.end : r \in met})]}

-----------------------------------------------------------------------------
(* iostat.                                                                 *)

Plus(a, b) == [f \in DOMAIN a |-> a[f] + b[f]]

\* INC_STAT and ADD_STAT, both since the last line and in all.
Add(io, what) == [io EXCEPT !.stats = Plus(@, what), !.all = Plus(@, what)]

\* update_tot_qusz, update_idle_time, of the times in all.
QueueTime(io, time) ==
    [io EXCEPT !.tot_qusz = @ + (time - io.qu_change) * io.cur_qusz,
               !.qu_change = time]
IdleTime(io, time, force) ==
    [io EXCEPT !.idle = IF io.cur_dev = 0 \/ force THEN @ + time - io.dev_change
                        ELSE @,
               !.dev_change = time]

\* __dump_stats: a line is printed of a device that is known, and what it counts
\* begins anew.  The time since the last change is idle even if the device is not.
Dumped(io, time) ==
    IF ~plug.known THEN io
    ELSE [QueueTime(IdleTime(io, time, TRUE), time) EXCEPT
            !.printed = Plus(@, io.stats), !.stats = NoLine]

\* iostat_check_time: when the interval is over.
Checked(io, time) ==
    IF io.start = Never THEN [io EXCEPT !.start = time]
    ELSE IF time - io.start >= interval
    THEN [Dumped(io, time) EXCEPT !.start = time]
    ELSE io

IostatGetrq(io, e) == LET q == QueueTime(io, e.time)
                      IN [q EXCEPT !.cur_qusz = @ + 1]
IostatMerge(io) == Add(io, [NoLine EXCEPT !.rqm = 1])
IostatIssue(io, e) ==
    LET i == IdleTime(Add(io, [NoLine EXCEPT !.ios = 1, !.sec = e.len]), e.time, FALSE)
    IN [i EXCEPT !.cur_dev = @ + 1]

\* iostat_complete, once for each bio that was seen going to the device.
IostatComplete(io, e, found) ==
    LET Wait(q) == IF q.i # Never THEN Tdelta(q.i, e.time)
                   ELSE IF q.m # Never THEN Tdelta(q.m, e.time) ELSE 0
        Service(q) == Tdelta(q.q, e.time)
        n == Cardinality(found)
        once == IdleTime(QueueTime(Add(io, [NoLine EXCEPT
                    !.wait = Total([q \in found |-> Wait(q)]),
                    !.svctm = Total([q \in found |-> Service(q)])]), e.time), e.time,
                        FALSE)
    IN IF n = 0 THEN io
       ELSE [once EXCEPT !.cur_qusz = @ - n, !.cur_dev = @ - n]
-----------------------------------------------------------------------------
(* The events.  iostat_check_time comes before each; before the first bio  *)
(* is queued io_setup lets no other event through.                         *)

Passed(e) == e.len > 0 /\ ~pre_culling
NewQ(e) == [sector |-> e.sector, len |-> e.len, pid |-> e.pid, w |-> e.w,
            q |-> e.time, g |-> Never, s |-> 0, i |-> Never, m |-> Never,
            d |-> Never]
Known(e) == IF e.len > 0 THEN [plug EXCEPT !.known = TRUE] ELSE plug

\* update_lq.
LastQ(all, task, time) ==
    IF last_q[task] = Never THEN all
    ELSE [all EXCEPT ![task]["q2q"] = Sampled(@, IF time > last_q[task]
                                                 THEN time - last_q[task] ELSE 1)]

\* trace_queue: a bio that begins where another does is let go.
BttQueue(e) ==
    /\ e.act = "Q"
    /\ pre_culling' = FALSE /\ plug' = Known(e) /\ iostat' = Checked(iostat, e.time)
    /\ IF \E q \in qs : q.sector = e.sector
       THEN UNCHANGED <<qs, n_act_q, t_act_q, n_qs, avgs, last_q, qranges>>
       ELSE /\ qs' = qs \cup {NewQ(e)}
            /\ qranges' = InRange(qranges, e.time)
            /\ avgs' = LastQ(LastQ(avgs, All, e.time), e.pid, e.time)
            /\ last_q' = [last_q EXCEPT ![All] = e.time, ![e.pid] = e.time]
            /\ n_qs' = n_qs + 1 /\ t_act_q' = t_act_q + n_act_q
            /\ n_act_q' = n_act_q + 1
    /\ UNCHANGED <<n_ds, na, lives, cranges>>

\* handle_g, handle_s, handle_i, handle_m: the time is put down at the bio that
\* holds the first sector of the event.
Marked(found, marked) == qs' = (qs \ found) \cup {marked[q] : q \in found}

BttGetrq(e) ==
    /\ e.act = "G" /\ Passed(e)
    /\ \E found \in FoundAt(e.sector) :
          LET times == [q \in found |-> Tdelta(q.q, e.time)]
              slept == [q \in found |-> Tdelta(q.s, e.time)]
          IN /\ Marked(found, [q \in found |-> [q EXCEPT !.g = e.time]])
             /\ avgs' = UpdateAll(UpdateAll(avgs, "q2g", found, times), "s2g",
                                  {q \in found : q.s # 0}, slept)
    /\ iostat' = IostatGetrq(Checked(iostat, e.time), e)
    /\ UNCHANGED <<pre_culling, n_act_q, t_act_q, n_qs, n_ds, na, last_q, lives,
                   qranges, cranges, plug>>

BttSleep(e) ==
    /\ e.act = "S" /\ Passed(e)
    /\ \E found \in FoundAt(e.sector) :
          Marked(found, [q \in found |-> [q EXCEPT !.s = e.time]])
    /\ iostat' = Checked(iostat, e.time)
    /\ UNCHANGED <<pre_culling, n_act_q, t_act_q, n_qs, n_ds, na, avgs, last_q,
                   lives, qranges, cranges, plug>>

BttInsert(e) ==
    /\ e.act = "I" /\ e.kind = "fs" /\ Passed(e)
    /\ \E found \in FoundAt(e.sector) :
          LET times == [q \in found |-> Tdelta(q.g, e.time)]
          IN /\ Marked(found, [q \in found |-> [q EXCEPT !.i = e.time]])
             /\ avgs' = UpdateAll(avgs, "g2i", {q \in found : q.g # Never}, times)
    /\ iostat' = Checked(iostat, e.time)
    /\ UNCHANGED <<pre_culling, n_act_q, t_act_q, n_qs, n_ds, na, last_q, lives,
                   qranges, cranges, plug>>

\* Mutant: a merged bio goes on being counted as waiting.
BttMergeStillQueued(e) ==
    /\ e.act \in {"M", "F"} /\ Passed(e)
    /\ \E found \in FoundAt(e.sector) :
          LET times == [q \in found |-> Tdelta(q.q, e.time)]
          IN /\ Marked(found, [q \in found |-> [q EXCEPT !.m = e.time]])
             /\ avgs' = UpdateAll(avgs, "q2m", found, times)
    /\ iostat' = IostatMerge(Checked(iostat, e.time))
    /\ UNCHANGED <<pre_culling, n_act_q, t_act_q, n_qs, n_ds, na, last_q, lives,
                   qranges, cranges, plug>>

LessOne(n) == IF n > 0 THEN n - 1 ELSE 0

BttMerge(e) ==
    /\ e.act \in {"M", "F"} /\ Passed(e)
    /\ \E found \in FoundAt(e.sector) :
          LET times == [q \in found |-> Tdelta(q.q, e.time)]
          IN /\ Marked(found, [q \in found |-> [q EXCEPT !.m = e.time]])
             /\ avgs' = UpdateAll(avgs, "q2m", found, times)
    /\ iostat' = IostatMerge(Checked(iostat, e.time))
    /\ n_act_q' = LessOne(n_act_q)
    /\ UNCHANGED <<pre_culling, t_act_q, n_qs, n_ds, na, last_q, lives, qranges,
                   cranges, plug>>

\* handle_issue.
BttIssue(e) ==
    /\ e.act = "D" /\ e.kind = "fs" /\ Passed(e)
    /\ \E found \in FoundWithin(e) :
          LET inserted == [q \in found |-> Tdelta(q.i, e.time)]
              merged == [q \in found |-> Tdelta(q.m, e.time)]
              queued == [q \in found |-> e.time - q.q]
              i == {q \in found : q.i # Never}
              m == {q \in found \ i : q.m # Never}
          IN /\ Marked(found, [q \in found |-> [q EXCEPT !.d = e.time]])
             /\ avgs' = UpdateAll(UpdateAll(UpdateAll(avgs, "i2d", i, inserted),
                                            "m2d", m, merged),
                                  "q2d", found, queued)
    /\ iostat' = IostatIssue(Checked(iostat, e.time), e)
    /\ n_act_q' = LessOne(n_act_q) /\ n_ds' = n_ds + 1 /\ na' = na + 1
    /\ UNCHANGED <<pre_culling, t_act_q, n_qs, last_q, lives, qranges, cranges,
                   plug>>

\* handle_requeue.
BttRequeue(e) ==
    /\ e.act = "R" /\ e.kind = "fs" /\ ~pre_culling
    /\ n_qs' = n_qs + 1 /\ t_act_q' = t_act_q + n_act_q /\ n_act_q' = n_act_q + 1
    /\ iostat' = Checked(iostat, e.time)
    /\ UNCHANGED <<pre_culling, qs, n_ds, na, avgs, last_q, lives, qranges, cranges,
                   plug>>

\* handle_complete: the bios are done with.  p_live_add is called for each, and
\* all end now: the ranges that begin later are within the one that begins first.
BttComplete(e) ==
    /\ e.act = "C" /\ e.kind = "fs" /\ Passed(e)
    /\ \E found \in FoundWithin(e) :
          LET times == [q \in found |-> Tdelta(q.q, e.time)]
              issued == {q \in found : q.d # Never}
              onDevice == [q \in found |-> Tdelta(q.d, e.time)]
          IN /\ qs' = qs \ found
             /\ avgs' = UpdateAll(UpdateAll(Update(avgs, "blks", e.pid, e.len),
                                            "q2c", found, times),
                                  "d2c", issued, onDevice)
             /\ lives' = IF issued = {} THEN lives
                         ELSE WithLive(lives, Min({q.d : q \in issued}), e.time)
             /\ iostat' = IostatComplete(Checked(iostat, e.time), e, issued)
    /\ cranges' = InRange(cranges, e.time)
    /\ na' = LessOne(na)
    /\ UNCHANGED <<pre_culling, n_act_q, t_act_q, n_qs, n_ds, last_q, qranges, plug>>

\* dip_plug, dip_unplug, dip_unplug_tm: of a device that is known.
BttPlug(e) ==
    /\ e.act \in {"P", "U", "UT"}
    /\ plug' = IF ~plug.known \/ plug.on = (e.act = "P") THEN plug
               ELSE IF e.act = "P" THEN [plug EXCEPT !.on = TRUE, !.since = e.time]
               ELSE [plug EXCEPT !.on = FALSE, !.n = @ + 1,
                                 !.time = @ + e.time - plug.since]
    /\ iostat' = Checked(iostat, e.time)
    /\ UNCHANGED <<pre_culling, qs, n_act_q, t_act_q, n_qs, n_ds, na, avgs, last_q,
                   lives, qranges, cranges>>

\* What add_trace and the handlers let go: commands, events without a size, and
\* all that comes before the first bio is queued, which makes the device known.
BttLetGo(e) ==
    /\ e.act \notin {"Q", "P", "U", "UT"}
    /\ \/ e.kind = "pc"
       \/ e.act # "R" /\ ~Passed(e)
       \/ e.act = "R" /\ pre_culling
    /\ iostat' = IF e.kind = "pc" THEN iostat ELSE Checked(iostat, e.time)
    /\ plug' = IF e.kind = "pc" THEN plug ELSE Known(e)
    /\ UNCHANGED <<pre_culling, qs, n_act_q, t_act_q, n_qs, n_ds, na, avgs, last_q,
                   lives, qranges, cranges>>

AddTrace(e) ==
    \/ BttQueue(e)
    \/ BttGetrq(e)
    \/ BttSleep(e)
    \/ BttInsert(e)
    \/ BttMerge(e)
    \/ BttIssue(e)
    \/ BttRequeue(e)
    \/ BttComplete(e)
    \/ BttPlug(e)
    \/ BttLetGo(e)
=============================================================================
