------------------------------ MODULE Blkparse ------------------------------
(***************************************************************************)
(* How blkparse puts the records of a device's CPUs in order               *)
(* (blkparse.c).  From a pipe it reads up to rb_batch records at a time    *)
(* into a tree sorted by time, and shows from the tree as long as the      *)
(* numbers of each CPU run on; when the pipe has ended it shows the rest.  *)
(* From files it merges the streams of the CPUs, each read rb_batch        *)
(* records ahead.                                                          *)
(*                                                                         *)
(* Where the records come from is module LiveTrace; what showing one does  *)
(* to the statistics is module IoTrack.                                    *)
(***************************************************************************)
EXTENDS Integers, Sequences, FiniteSets

CONSTANTS ParsedCpus,  \* CPUs of the device, from 0 on
          rb_batch,
          Windows,     \* possible options -w: [start, end)
          TimeMod,     \* time is 64 bits wide: 2^64
          modes        \* "pipe", "files"

ASSUME BlkparseAssumption ==
    /\ ParsedCpus \subseteq Nat /\ 0 \in ParsedCpus
    /\ rb_batch \in Nat \ {0} /\ TimeMod \in Nat \ {0}
    /\ Windows \subseteq [start : Nat, end : Nat]
    /\ modes \subseteq {"pipe", "files"}

VARIABLES
    pipe, files,   \* what blkparse reads, all of it: one sequence of records,
                   \* or one per CPU; a record's state tells if it is damaged
    mode, stopwatch,   \* options
    bpc,        \* where blkparse is
    done,       \* a signal has come
    taken,      \* records read: of the pipe, or per CPU of its file
    genesis_time,
    ppm,        \* tasks whose names are known
    shown,      \* history: what has been shown
    tree, last_sequence, skips,   \* pipe: rb_sort_root, and per CPU
    opened, primed, ms_head       \* files: CPUs set up, first..last, the order

pipevars == <<tree, last_sequence, skips>>
filevars == <<opened, primed, ms_head>>
blkparse == <<mode, stopwatch, bpc, done, taken, genesis_time, ppm, shown,
              pipevars, filevars>>

Unset == -1
NotYet == -1    \* last_sequence of a CPU before its first record

BlkparseInit ==
    /\ pipe = <<>> /\ files = [c \in ParsedCpus |-> <<>>]
    /\ mode \in modes /\ stopwatch \in Windows
    /\ bpc = "start" /\ done = FALSE /\ taken = [c \in ParsedCpus |-> 0]
    /\ genesis_time = Unset /\ ppm = {} /\ shown = <<>>
    /\ tree = <<>> /\ last_sequence = [c \in ParsedCpus |-> NotYet]
    /\ skips = [c \in ParsedCpus |-> <<>>]
    /\ opened = {} /\ primed = [c \in ParsedCpus |-> <<>>] /\ ms_head = <<>>

\* verify_trace and the test of the magic.
IsTrace(r) == r.kind \in {"event", "message"}
FirstWhere(s, Test(_)) ==
    CHOOSE k \in 1..Len(s) + 1 : /\ k <= Len(s) => Test(s[k])
                                 /\ \A j \in 1..k - 1 : ~Test(s[j])

\* The elements of s at the positions K, in their order.
Those(s, K) ==
    LET those[k \in 0..Len(s)] ==
            IF k = 0 THEN <<>>
            ELSE IF k \in K THEN Append(those[k - 1], s[k]) ELSE those[k - 1]
    IN those[Len(s)]

\* A record of another version is left out.
Usable(r) == r.state = "good"
Traces(s) == Those(s, {k \in DOMAIN s : Usable(s[k]) /\ IsTrace(s[k])})

\* handle_notify: the first name of a task is kept.
Names(s) == {s[k].pid : k \in {j \in DOMAIN s : Usable(s[j])
                                               /\ s[j].kind = "process"}}
Adjusted(r) == [r EXCEPT !.time = (@ - genesis_time') % TimeMod]
Known(r) == r.pid \in ppm
-----------------------------------------------------------------------------
(* From a pipe.                                                            *)

\* The tree, first record first; one goes behind those that are not later.
Later(r, s) == r.time > s.time \/ (r.time = s.time /\ r.seq > s.seq)
Inserted(s, r) ==
    LET n == Cardinality({k \in DOMAIN s : ~Later(s[k], r)})
    IN SubSeq(s, 1, n) \o <<r>> \o SubSeq(s, n + 1, Len(s))

\* read_events: the next k records.  A record with a bad magic ends the batch,
\* one of another version is left out, a note is taken care of at once; the
\* batch ends too when it has rb_batch traces, or some and nothing more is
\* there yet, or with the pipe.
Batch(k) == SubSeq(pipe, taken[0] + 1, taken[0] + k)
BatchEnds(k) ==
    LET b == Batch(k)
        n == Len(Traces(b))
    IN /\ \A j \in 1..k - 1 : b[j].state # "magic"
       /\ k > 0 => Len(Traces(Batch(k - 1))) < rb_batch
       /\ \/ n = rb_batch
          \/ k > 0 /\ b[k].state = "magic"
          \/ n > 0
          \/ taken[0] + k = Len(pipe)

\* sort_entries: the youngest of records looked at in the order of times; a
\* time of zero counts as none so far.
Youngest(times) ==
    LET least[j \in 0..Len(times)] ==
            IF j = 0 THEN 0
            ELSE IF least[j - 1] = 0 \/ times[j] < least[j - 1] THEN times[j]
            ELSE least[j - 1]
    IN least[Len(times)]

\* check_stopwatch.
InStopwatch(r) == r.time < stopwatch.end /\ r.time >= stopwatch.start

\* sort_entries: the records go into the tree one by one.
InsertedAll(s, records) ==
    LET sorted[j \in 0..Len(records)] ==
            IF j = 0 THEN s
            ELSE IF InStopwatch(records[j])
            THEN Inserted(sorted[j - 1], records[j]) ELSE sorted[j - 1]
    IN sorted[Len(records)]

\* do_pipe: a batch is read and sorted, the records read last first.  Times
\* count from the first batch's smallest; records outside the stopwatch are
\* left out, and a batch whose youngest is later ends the reading.
ReadBatch(k) ==
    LET t == Traces(Batch(k))
        first == CHOOSE m \in {t[j].time : j \in DOMAIN t} :
                    \A j \in DOMAIN t : m <= t[j].time
        adjusted == [j \in DOMAIN t |-> Adjusted(t[Len(t) + 1 - j])]
    IN /\ bpc = "read" /\ ~done /\ BatchEnds(k)
       /\ taken' = [taken EXCEPT ![0] = @ + k]
       /\ ppm' = ppm \cup Names(Batch(k))
       /\ genesis_time' = IF t # <<>> /\ genesis_time = Unset THEN first
                          ELSE genesis_time
       /\ tree' = InsertedAll(tree, adjusted)
       /\ bpc' = IF t = <<>> THEN "force"
                 ELSE IF Youngest([j \in DOMAIN t |-> adjusted[j].time]) > stopwatch.end
                 THEN "force" ELSE "show"
       /\ UNCHANGED <<pipe, files, mode, stopwatch, done, shown,
                      last_sequence, skips, filevars>>

\* insert_skip: a skip next to one that is known extends it, the last first.
WithSkip(s, first, last) ==
    LET near == {k \in DOMAIN s : last = s[k].start - 1 \/ first = s[k].end + 1}
        k == CHOOSE n \in near : \A j \in near : j <= n
    IN IF near = {} THEN Append(s, [start |-> first, end |-> last])
       ELSE IF last = s[k].start - 1 THEN [s EXCEPT ![k].start = first]
       ELSE [s EXCEPT ![k].end = last]

\* check_current_skips: the skip that a number is in.
InSkip(s, n) == {k \in DOMAIN s : s[k].start <= n /\ n <= s[k].end}
WithoutSkip(s, n) ==
    LET k == CHOOSE j \in InSkip(s, n) : \A i \in InSkip(s, n) : i <= j
    IN IF s[k].start = n /\ s[k].end = n
       THEN SubSeq(s, 1, k - 1) \o SubSeq(s, k + 1, Len(s))
       ELSE IF s[k].start = n THEN [s EXCEPT ![k].start = n + 1]
       ELSE IF s[k].end = n THEN [s EXCEPT ![k].end = n - 1]
       ELSE WithSkip([s EXCEPT ![k].end = n - 1], n + 1, n - 1)

\* check_sequence.  smallest_seq_read is zero and stays so, which leaves out
\* the look into the records already shown; and no CPU is marked online when
\* there are no files, which lets any first number pass.
Expected(c) == last_sequence[c] + 1
InSequence(r) == r.kind = "message" \/ Expected(r.cpu) \in {0, r.seq}
\* Mutant: a skip includes the record that shows it.
SkipsOneMore(r) ==
    IF InSequence(r) THEN skips
    ELSE [skips EXCEPT ![r.cpu] =
            IF InSkip(@, r.seq) # {} THEN WithoutSkip(@, r.seq)
            ELSE IF Expected(r.cpu) < r.seq
            THEN WithSkip(@, Expected(r.cpu), r.seq) ELSE @]

Skips(r) ==
    IF InSequence(r) THEN skips
    ELSE [skips EXCEPT ![r.cpu] =
            IF InSkip(@, r.seq) # {} THEN WithoutSkip(@, r.seq)
            ELSE IF Expected(r.cpu) < r.seq
            THEN WithSkip(@, Expected(r.cpu), r.seq - 1) ELSE @]

\* show_entries_rb, one record: in sequence, or forced.
ShowFirst ==
    LET r == tree[1]
    IN /\ bpc \in {"show", "force"} /\ tree # <<>>
       /\ bpc = "show" => InSequence(r)
       /\ tree' = Tail(tree)
       /\ skips' = Skips(r)
       /\ last_sequence' = IF r.kind = "message" THEN last_sequence
                           ELSE [last_sequence EXCEPT ![r.cpu] = r.seq]
       /\ shown' = Append(shown, [rec |-> r, known |-> Known(r)])
       /\ UNCHANGED <<pipe, files, mode, stopwatch, bpc, done, taken,
                      genesis_time, ppm, filevars>>

\* Mutant: the pass that shows all does not end.
ShowNoMoreReadsOn ==
    /\ bpc \in {"show", "force"}
    /\ tree # <<>> => bpc = "show" /\ ~InSequence(tree[1])
    /\ bpc' = "read"
    /\ UNCHANGED <<pipe, files, mode, stopwatch, done, taken, genesis_time,
                   ppm, shown, pipevars, filevars>>

\* The first record of the tree has to wait, or there is none.
ShowNoMore ==
    /\ bpc \in {"show", "force"}
    /\ tree # <<>> => bpc = "show" /\ ~InSequence(tree[1])
    /\ bpc' = IF bpc = "show" THEN "read" ELSE "end"
    /\ UNCHANGED <<pipe, files, mode, stopwatch, done, taken, genesis_time,
                   ppm, shown, pipevars, filevars>>

\* is_done: read_events reads no more.
GiveUpPipe ==
    /\ bpc = "read" /\ done /\ bpc' = "force"
    /\ UNCHANGED <<pipe, files, mode, stopwatch, done, taken, genesis_time,
                   ppm, shown, pipevars, filevars>>
-----------------------------------------------------------------------------
(* From files.                                                             *)

\* ms_prime: the next rb_batch traces of the file, the notes before them taken
\* care of; at a bad record or its end the file is closed.  What is read, and
\* the position after it.
Prime(c) ==
    LET f == files[c]
        bad == FirstWhere(f, LAMBDA r : r.state # "good")
        Read(k) == SubSeq(f, taken[c] + 1, k)
        ends == {k \in taken[c]..bad - 1 : Len(Traces(Read(k))) = rb_batch}
        k == IF ends = {} THEN bad - 1
             ELSE CHOOSE e \in ends : \A d \in ends : e <= d
    IN [traces |-> Traces(Read(k)), names |-> Names(Read(k)),
        position |-> IF ends = {} THEN Len(f) ELSE k]

HeadTime(c) == primed[c][1].time

\* Mutant: the stream goes to the end of the list.
SortedAtEnd(order, c, t) == Append(order, c)

\* ms_sort: behind the streams whose first record is earlier.
Sorted(order, c, t) ==
    LET n == FirstWhere(order, LAMBDA d : t <= HeadTime(d)) - 1
        \* only the first stream gives way to one of the same time
        m == IF n = 0 /\ order # <<>> /\ HeadTime(order[1]) = t THEN 1 ELSE n
    IN SubSeq(order, 1, m) \o <<c>> \o SubSeq(order, m + 1, Len(order))

\* Mutant: the notes before a file's first records are passed over.
SetupFileNotesUnread(c) ==
    LET p == Prime(c)
    IN /\ bpc = "setup" /\ c \notin opened
       /\ \A d \in ParsedCpus : d < c => d \in opened
       /\ opened' = opened \cup {c}
       /\ primed' = [primed EXCEPT ![c] = p.traces]
       /\ ppm' = ppm
       /\ taken' = [taken EXCEPT ![c] = p.position]
       /\ ms_head' = IF p.traces = <<>> THEN ms_head
                     ELSE Sorted(ms_head, c, p.traces[1].time)
       /\ UNCHANGED <<pipe, files, mode, stopwatch, bpc, done, genesis_time,
                      shown, pipevars>>

\* setup_file for each CPU in turn.
SetupFile(c) ==
    LET p == Prime(c)
    IN /\ bpc = "setup" /\ c \notin opened
       /\ \A d \in ParsedCpus : d < c => d \in opened
       /\ opened' = opened \cup {c}
       /\ primed' = [primed EXCEPT ![c] = p.traces]
       /\ ppm' = ppm \cup p.names
       /\ taken' = [taken EXCEPT ![c] = p.position]
       /\ ms_head' = IF p.traces = <<>> THEN ms_head
                     ELSE Sorted(ms_head, c, p.traces[1].time)
       /\ UNCHANGED <<pipe, files, mode, stopwatch, bpc, done, genesis_time,
                      shown, pipevars>>

\* do_file: times count from the first record of all.
Merge ==
    /\ bpc = "setup" /\ opened = ParsedCpus
    /\ bpc' = "merge"
    /\ genesis_time' = IF ms_head = <<>> THEN Unset ELSE HeadTime(ms_head[1])
    /\ UNCHANGED <<pipe, files, mode, stopwatch, done, taken, ppm, shown,
                   pipevars, filevars>>

\* ms_deq and ms_resort: the stream reads on when it has given its last record
\* away, and goes where its next record belongs.
Dequeue(c) ==
    LET rest == Tail(primed[c])
        p == Prime(c)
        left == IF rest = <<>> THEN p.traces ELSE rest
        others == Tail(ms_head)
    IN /\ primed' = [primed EXCEPT ![c] = left]
       /\ taken' = IF rest = <<>> THEN [taken EXCEPT ![c] = p.position] ELSE taken
       /\ ppm' = IF rest = <<>> THEN ppm \cup p.names ELSE ppm
       /\ ms_head' = IF left = <<>> THEN others
                     ELSE IF others # <<>> /\ left[1].time > HeadTime(others[1])
                     THEN Sorted(others, c, left[1].time)
                     ELSE ms_head

\* handle: the first record of the first stream; one behind the stopwatch ends
\* it all.
Handle(c) ==
    LET r == Adjusted(primed[c][1])
    IN /\ bpc = "merge" /\ ~done /\ ms_head # <<>> /\ c = ms_head[1]
       /\ UNCHANGED <<pipe, files, mode, stopwatch, done, genesis_time,
                      pipevars, opened>>
       /\ IF r.time > stopwatch.end
          THEN bpc' = "end" /\ UNCHANGED <<taken, ppm, shown, primed, ms_head>>
          ELSE /\ shown' = IF r.time < stopwatch.start THEN shown
                           ELSE Append(shown, [rec |-> r, known |-> Known(r)])
               /\ Dequeue(c) /\ UNCHANGED bpc

MergeEnds ==
    /\ bpc = "merge" /\ (done \/ ms_head = <<>>) /\ bpc' = "end"
    /\ UNCHANGED <<pipe, files, mode, stopwatch, done, taken, genesis_time,
                   ppm, shown, pipevars, filevars>>
-----------------------------------------------------------------------------
\* main: do_fifo or do_file.  What blkparse does with a pipe depends on the
\* records and on where its batches end, and not on when they arrive: it starts
\* when all are there, and a batch may end as if no more were.
StartParsing ==
    /\ bpc = "start"
    /\ bpc' = IF mode = "files" THEN "setup" ELSE "read"
    /\ UNCHANGED <<pipe, files, mode, stopwatch, done, taken, genesis_time,
                   ppm, shown, pipevars, filevars>>

\* handle_sigint; done is only looked at where blkparse reads on.
Interrupt ==
    /\ ~done /\ bpc \in {"read", "merge"} /\ done' = TRUE
    /\ UNCHANGED <<pipe, files, mode, stopwatch, bpc, taken, genesis_time,
                   ppm, shown, pipevars, filevars>>

ParseStep ==
    \/ \E k \in 0..Len(pipe) - taken[0] : ReadBatch(k)
    \/ ShowFirst
    \/ ShowNoMore
    \/ GiveUpPipe
    \/ \E c \in ParsedCpus : SetupFile(c) \/ Handle(c)
    \/ Merge
    \/ MergeEnds
    \/ StartParsing
=============================================================================
