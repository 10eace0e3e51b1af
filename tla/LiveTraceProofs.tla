-------------------------- MODULE LiveTraceProofs --------------------------
(***************************************************************************)
(* Proofs about LiveTrace: for any CPUs, tasks, buffers, batches and       *)
(* windows, whatever is lost or damaged on the way.                        *)
(*                                                                         *)
(* The invariant has a part for the kernel and the wire (KernelInv), one   *)
(* for a pipe (PipeInv) and one for files (FilesInv).                      *)
(***************************************************************************)
EXTENDS LiveTrace, SequenceTheorems, FiniteSetTheorems, WellFoundedInduction,
        TLAPS

\* Records as the kernel writes them, and as they arrive.
KernelRecords ==
    [kind : {"event", "process", "message"}, cpu : Cpus, pid : Nat, seq : Nat,
     time : Nat, named : BOOLEAN]
Records ==
    [kind : {"event", "process", "message"}, cpu : Cpus, pid : Nat, seq : Nat,
     time : Nat, named : BOOLEAN, state : {"good", "version", "magic"}]

KernelTypes ==
    /\ trace_state \in {"setup", "running", "stopped"} /\ starting \in BOOLEAN
    /\ blktrace_seq \in Nat /\ btrace_seq \in [Tasks -> Nat]
    /\ events \in 0..MaxEvents /\ now \in Nat /\ now <= events + 1
    /\ sequence \in [Cpus -> 0..events]
    /\ relay \in [Cpus -> Seq(KernelRecords)]
    /\ dropped \in Nat /\ named \subseteq Tasks
    /\ pipe \in Seq(Records) /\ files \in [Cpus -> Seq(Records)]
    /\ wireEnded \in BOOLEAN /\ mode \in {"pipe", "files"}

\* What of the records of a CPU has passed through blktrace is in the pipe or
\* in its file.
Wire(c) == IF mode = "pipe" THEN pipe ELSE files[c]

IsEvent(r) == r.kind = "event"
Before(r, s) == r.time <= s.time /\ (IsEvent(r) /\ IsEvent(s) => r.seq < s.seq)
InOrder(s) == \A j, k \in DOMAIN s :
    j < k /\ s[j].cpu = s[k].cpu => Before(s[j], s[k])
AllBefore(s, t) == \A j \in DOMAIN s : \A k \in DOMAIN t :
    s[j].cpu = t[k].cpu => Before(s[j], t[k])
Possible(r, time, numbers) ==
    /\ r.time <= time
    /\ IsEvent(r) => r.seq \in 1..numbers[r.cpu]
AllPossible(s, time, numbers) ==
    \A k \in DOMAIN s : Possible(s[k], time, numbers)
AllOf(s, c) == \A k \in DOMAIN s : s[k].cpu = c
Has(s, c, q) == \E k \in DOMAIN s : IsEvent(s[k]) /\ s[k].cpu = c /\ s[k].seq = q

\* The records of c are in order, from what has passed to what has not, and no
\* event with a number is missing.
StreamOK(c) ==
    /\ AllOf(relay[c], c) /\ AllOf(files[c], c)
    /\ AllPossible(relay[c], now, sequence) /\ AllPossible(Wire(c), now, sequence)
    /\ InOrder(Wire(c)) /\ InOrder(relay[c]) /\ AllBefore(Wire(c), relay[c])
    /\ \A q \in 1..sequence[c] : Has(Wire(c), c, q) \/ Has(relay[c], c, q)

\* Until a record is refused, a task that counts as named is.
AllNamed(s) == \A k \in DOMAIN s : s[k].named
NamingOK ==
    /\ \A t \in Tasks : btrace_seq[t] <= blktrace_seq
    /\ dropped = 0 =>
          /\ \A t \in Tasks : btrace_seq[t] = blktrace_seq => t \in named
          /\ AllNamed(pipe)
          /\ \A c \in Cpus : AllNamed(files[c]) /\ AllNamed(relay[c])

\* Notes in the files.
NoteOf(r, pid) == r.kind = "process" /\ r.pid = pid
Noted(s, pid, time) == \E j \in DOMAIN s : NoteOf(s[j], pid) /\ s[j].time <= time
NotedAt(s, k) == \E j \in DOMAIN s : j < k /\ NoteOf(s[j], s[k].pid)
NotedElsewhere(passed, waiting, c, pid, time) ==
    \E d \in Cpus \ {c} :
       Noted(passed[d], pid, time) \/ Noted(waiting[d], pid, time)
NamedNoted ==
    \A t \in named : \E d \in Cpus : Noted(files[d], t, now) \/ Noted(relay[d], t, now)
FileNotes(c) ==
    \A k \in DOMAIN files[c] :
       IsEvent(files[c][k]) /\ files[c][k].named =>
          \/ NotedAt(files[c], k)
          \/ NotedElsewhere(files, relay, c, files[c][k].pid, files[c][k].time)
RelayNotes(c) ==
    \A k \in DOMAIN relay[c] :
       IsEvent(relay[c][k]) /\ relay[c][k].named =>
          \/ NotedAt(relay[c], k)
          \/ Noted(files[c], relay[c][k].pid, relay[c][k].time)
          \/ NotedElsewhere(files, relay, c, relay[c][k].pid, relay[c][k].time)
NotesOK ==
    mode = "files" =>
        NamedNoted /\ \A c \in Cpus : FileNotes(c) /\ RelayNotes(c)

\* What blktrace does not use stays empty; when it has ended the buffers are.
WireOK ==
    /\ mode = "pipe" => \A c \in Cpus : files[c] = <<>>
    /\ mode = "files" => pipe = <<>>
    /\ wireEnded => \A c \in Cpus : relay[c] = <<>>

KernelInv ==
    KernelTypes /\ NamingOK /\ (\A c \in Cpus : StreamOK(c)) /\ NotesOK /\ WireOK

-----------------------------------------------------------------------------
(* blkparse.                                                               *)

\* Nothing has been read yet.
Unstarted ==
    /\ bpc = "start" /\ done = FALSE /\ taken = [c \in Cpus |-> 0]
    /\ genesis_time = Unset /\ ppm = {} /\ shown = <<>>
    /\ tree = <<>> /\ last_sequence = [c \in Cpus |-> NotYet]
    /\ skips = [c \in Cpus |-> <<>>]
    /\ opened = {} /\ primed = [c \in Cpus |-> <<>>] /\ ms_head = <<>>

Shown == [rec : Records, known : BOOLEAN]
Skip == [start : Nat, end : Nat]
ParseTypes ==
    /\ stopwatch \in [start : Nat, end : Nat]
    /\ bpc \in {"start", "read", "show", "force", "end", "setup", "merge"}
    /\ done \in BOOLEAN
    /\ bpc \in {"setup", "merge"} => mode = "files"
    /\ bpc \in {"read", "show", "force"} => mode = "pipe"
    /\ bpc # "start" => wireEnded
    /\ bpc = "start" => Unstarted

\* From a pipe: a record is one of the pipe, its time counted from g.
Shifted(r, g) == [r EXCEPT !.time = @ - g]
Origin(r, m, g) ==
    /\ Usable(pipe[m]) /\ IsTrace(pipe[m]) /\ g <= pipe[m].time
    /\ r = Shifted(pipe[m], g) /\ InStopwatch(r)
OriginsOK ==
    /\ \A k \in DOMAIN tree : /\ genesis_time # Unset
          /\ \E m \in 1..taken[0] : Origin(tree[k], m, genesis_time)
    /\ \A k \in DOMAIN shown : /\ genesis_time # Unset
          /\ \E m \in 1..taken[0] : Origin(shown[k].rec, m, genesis_time)
    /\ genesis_time = Unset => \A m \in 1..taken[0] :
          ~(Usable(pipe[m]) /\ IsTrace(pipe[m]))

\* The tree is in order, its events differ, and none comes before one shown.
Ordered(s) == \A j, k \in DOMAIN s : j < k => ~Later(s[j], s[k])
Distinct(s) ==
    \A j, k \in DOMAIN s :
       j # k /\ IsEvent(s[j]) /\ IsEvent(s[k]) /\ s[j].cpu = s[k].cpu
       => s[j].seq # s[k].seq
Earlier(r, s) == IsEvent(r) /\ IsEvent(s) /\ r.cpu = s.cpu => r.seq < s.seq
TreeOK ==
    /\ Ordered(tree) /\ Distinct(tree)
    /\ \A j \in DOMAIN shown : \A k \in DOMAIN tree : Earlier(shown[j].rec, tree[k])

\* Events are shown in their order; last_sequence is the last of a CPU.
EventOf(r, c) == IsEvent(r) /\ r.cpu = c
Numbers(c) == {shown[k].rec.seq : k \in {j \in DOMAIN shown : EventOf(shown[j].rec, c)}}
LastOK(c) ==
    IF Numbers(c) = {} THEN last_sequence[c] = NotYet
    ELSE last_sequence[c] \in Numbers(c) /\ \A n \in Numbers(c) : n <= last_sequence[c]
ShownOK ==
    /\ \A j, k \in DOMAIN shown : j < k => Earlier(shown[j].rec, shown[k].rec)
    /\ \A c \in Cpus : LastOK(c)

\* While nothing damaged has been read every event read, if it is within the
\* stopwatch, is in the tree or has been shown.
NoneLost ==
    (\A m \in 1..taken[0] : Usable(pipe[m])) =>
        /\ \A m \in 1..taken[0] :
             IsEvent(pipe[m]) /\ InStopwatch(Shifted(pipe[m], genesis_time)) =>
                \/ \E k \in DOMAIN tree : tree[k] = Shifted(pipe[m], genesis_time)
                \/ \E k \in DOMAIN shown : shown[k].rec = Shifted(pipe[m], genesis_time)
        /\ bpc = "read" => tree = <<>>

Gaps(numbers) ==
    {n \in Nat : n \notin numbers /\ \E a, b \in numbers : a < n /\ n < b}
SkipsBelow(c) == \A k \in DOMAIN skips[c] :
    skips[c][k].start <= skips[c][k].end /\ skips[c][k].end < last_sequence[c]
GapsOK == \A c \in Cpus : SkipsBelow(c) /\ Covered(c) = Gaps(Numbers(c))

PipeTypes ==
    /\ tree \in Seq(Records) /\ shown \in Seq(Shown)
    /\ last_sequence \in [Cpus -> Nat \cup {NotYet}]
    /\ skips \in [Cpus -> Seq(Skip)]
PipeInv ==
    mode = "pipe" =>
        /\ taken \in [Cpus -> Nat] /\ taken[0] <= Len(pipe)
        /\ genesis_time \in Nat \cup {Unset}
        /\ ~Early => PipeTypes /\ OriginsOK /\ TreeOK /\ ShownOK /\ NoneLost /\ GapsOK
\* From files.
BadAt(c) == FirstWhere(files[c], LAMBDA r : r.state # "good")
Rest(c) == Traces(SubSeq(files[c], taken[c] + 1, BadAt(c) - 1))
ShownFrom(c) == Those(shown, {k \in DOMAIN shown : shown[k].rec.cpu = c})
Within(s) == Those(s, {k \in DOMAIN s : InWindow(s[k])})
SameNumbers(u, v) == Len(u) = Len(v) /\ \A k \in DOMAIN v : u[k].rec.seq = v[k].seq
FilePart(c) ==
    \E h \in Seq(Records) :
        /\ GoodPart(c) = h \o (primed[c] \o Rest(c))
        /\ SameNumbers(ShownFrom(c), Within(h))
        /\ bpc \in {"start", "setup"} => h = <<>>
\* The records primed have been read from the file.
FromFile(c) == \A k \in DOMAIN primed[c] : \E m \in 1..taken[c] : primed[c][k] = files[c][m]
\* The streams with records are in the list, in the order of their times.
HeadsOK ==
    /\ \A j, k \in DOMAIN ms_head : j # k => ms_head[j] # ms_head[k]
    /\ \A c \in Cpus : primed[c] # <<>> <=> \E k \in DOMAIN ms_head : ms_head[k] = c
    /\ \A j, k \in DOMAIN ms_head : j < k => HeadTime(ms_head[j]) <= HeadTime(ms_head[k])
TimesOK ==
    /\ \A j, k \in DOMAIN shown : j < k => shown[j].rec.time <= shown[k].rec.time
    /\ \A k \in DOMAIN shown : \A c \in Cpus : primed[c] # <<>> =>
          shown[k].rec.time + genesis_time <= HeadTime(c)
    /\ bpc = "merge" => \A c \in Cpus : primed[c] # <<>> =>
          genesis_time # Unset /\ genesis_time <= HeadTime(c)
FilesTypes ==
    /\ taken \in [Cpus -> Nat] /\ genesis_time \in Nat \cup {Unset}
    /\ shown \in Seq(Shown)
    /\ opened \subseteq Cpus /\ primed \in [Cpus -> Seq(Records)]
    /\ ms_head \in Seq(Cpus)
    /\ bpc \in {"merge", "end"} => opened = Cpus
    /\ bpc \in {"start", "setup"} => shown = <<>>
NotesRead(c) ==
    \A k \in 1..taken[c] : k < BadAt(c) /\ files[c][k].kind = "process" =>
       files[c][k].pid \in ppm
NothingLeft(c) ==
    bpc = "end" /\ ~done => \A k \in DOMAIN (primed[c] \o Rest(c)) :
       ~InWindow((primed[c] \o Rest(c))[k])
FileOK(c) ==
    /\ taken[c] <= Len(files[c])
    /\ c \notin opened => taken[c] = 0 /\ primed[c] = <<>>
    /\ c \in opened /\ primed[c] = <<>> => taken[c] = Len(files[c])
    /\ NotesRead(c) /\ FilePart(c) /\ FromFile(c) /\ NothingLeft(c)
FilesInv ==
    mode = "files" =>
        /\ FilesTypes /\ (\A c \in Cpus : FileOK(c)) /\ HeadsOK /\ TimesOK
        /\ NamesKnown

-----------------------------------------------------------------------------
(* Induction and recursion.                                                *)

\* A set of naturals that is not empty has a least element.
LEMMA LeastOf ==
    ASSUME NEW T, T \subseteq Nat, T # {}
    PROVE  \E x \in T : \A y \in T : ~(y < x)
<1> DEFINE R == OpToRel(<, Nat)
<1>1. IsWellFoundedOn(R, Nat)
    BY NatLessThanWellFounded, Zenon
<1>2. \E x \in T : \A y \in T : <<y, x>> \notin R
  <2> HIDE DEF R
  <2> QED BY <1>1, WFMin
<1>3. \A x, y \in Nat : y < x => <<y, x>> \in R
    BY SMT DEF OpToRel
<1> QED BY <1>2, <1>3

\* Induction up to m: a set that holds 0 and, with each n below m, n + 1.
LEMMA InductionUpTo ==
    ASSUME NEW S, NEW m \in Nat, 0 \in S, \A n \in 0..m - 1 : n \in S
        => n + 1 \in S
    PROVE  0..m \subseteq S
<1> SUFFICES ASSUME 0..m \ S # {} PROVE FALSE
    OBVIOUS
<1>1. PICK x \in 0..m \ S : \A y \in 0..m \ S : ~(y < x)
  <2>1. 0..m \ S \subseteq Nat
    OBVIOUS
  <2> QED BY <2>1, LeastOf
<1>2. x - 1 \in 0..m - 1 /\ x - 1 < x
    BY <1>1
<1>3. x - 1 \in S
    BY <1>1, <1>2
<1> QED BY <1>1, <1>2, <1>3

\* f takes the steps up to N, from x.
Recursion(f, S, N, x, step) ==
    /\ f \in [0..N -> S] /\ f[0] = x
    /\ \A n \in 1..N : f[n] = step[<<n, f[n - 1]>>]

\* A function may be defined step by step.
LEMMA RecursionExists ==
    ASSUME NEW S, NEW N \in Nat, NEW x \in S, NEW step \in [(1..N) \X S -> S]
    PROVE  \E f : Recursion(f, S, N, x, step)
<1> DEFINE K == {k \in 0..N : \E g \in [0..N -> S] :
                    g[0] = x /\ \A n \in 1..k : g[n] = step[<<n, g[n - 1]>>]}
<1>1. 0 \in K
  <2> DEFINE g == [n \in 0..N |-> x]
  <2>1. g \in [0..N -> S] /\ g[0] = x
    OBVIOUS
  <2>2. \A n \in 1..0 : FALSE
    OBVIOUS
  <2>3. \E f \in [0..N -> S] :
           f[0] = x /\ \A n \in 1..0 : f[n] = step[<<n, f[n - 1]>>]
    <3> HIDE DEF g
    <3> QED BY <2>1, <2>2
  <2> QED BY <2>3
<1>2. ASSUME NEW k \in 0..N - 1, k \in K
      PROVE  k + 1 \in K
  <2>1. PICK g \in [0..N -> S] :
           g[0] = x /\ \A n \in 1..k : g[n] = step[<<n, g[n - 1]>>]
    BY <1>2
  <2>2. k + 1 \in 1..N /\ k + 1 \in 0..N /\ k \in 0..N
    OBVIOUS
  <2> DEFINE h == [g EXCEPT ![k + 1] = step[<<k + 1, g[k]>>]]
  <2>3. step[<<k + 1, g[k]>>] \in S
    BY <2>2
  <2>4. h \in [0..N -> S] /\ h[0] = x
    BY <2>1, <2>2, <2>3
  <2>5. ASSUME NEW n \in 1..k + 1
        PROVE  h[n] = step[<<n, h[n - 1]>>]
    <3>1. CASE n = k + 1
      <4>1. n - 1 = k /\ h[k] = g[k] /\ h[n] = step[<<k + 1, g[k]>>]
        BY <3>1, <2>2
      <4> QED BY <4>1, <3>1
    <3>2. CASE n # k + 1
      <4>1. n \in 1..k /\ n - 1 # k + 1 /\ n - 1 \in 0..N /\ n \in 0..N
        BY <3>2
      <4>2. h[n] = g[n] /\ h[n - 1] = g[n - 1]
        BY <4>1, <3>2
      <4> QED BY <4>1, <4>2, <2>1
    <3> QED BY <3>1, <3>2
  <2>6. \E f \in [0..N -> S] :
           f[0] = x /\ \A n \in 1..k + 1 : f[n] = step[<<n, f[n - 1]>>]
    <3> HIDE DEF h
    <3> QED BY <2>4, <2>5
  <2> QED BY <2>2, <2>6
<1>3. N \in K
  <2> HIDE DEF K
  <2>1. 0..N \subseteq K
    BY <1>1, <1>2, InductionUpTo
  <2> QED BY <2>1
<1>4. \E g \in [0..N -> S] :
         g[0] = x /\ \A n \in 1..N : g[n] = step[<<n, g[n - 1]>>]
  BY <1>3
<1> QED BY <1>4 DEF Recursion

-----------------------------------------------------------------------------
(* The elements at some positions of a sequence.                           *)

\* g follows what Those makes of the first elements of s.
Follows(g, S, s, K) ==
    /\ g \in [0..Len(s) -> Seq(S)]
    /\ Those(s, K) = g[Len(s)] /\ g[0] = <<>>
    /\ \A n \in 1..Len(s) :
          g[n] = IF n \in K THEN Append(g[n - 1], s[n]) ELSE g[n - 1]

\* Those, which is defined by recursion, step by step.
LEMMA ThoseSteps ==
    ASSUME NEW S, NEW s \in Seq(S), NEW K
    PROVE  \E g : Follows(g, S, s, K)
<1> DEFINE N == Len(s)
           Def(g) == [n \in 0..N |->
                         IF n = 0 THEN <<>>
                         ELSE IF n \in K THEN Append(g[n - 1], s[n])
                         ELSE g[n - 1]]
           those == CHOOSE g : g = Def(g)
           step == [p \in (1..N) \X Seq(S) |->
                       IF p[1] \in K THEN Append(p[2], s[p[1]]) ELSE p[2]]
<1>1. N \in Nat /\ <<>> \in Seq(S) /\ \A n \in 1..N : s[n] \in S
  OBVIOUS
<1>2. step \in [(1..N) \X Seq(S) -> Seq(S)]
  <2>1. ASSUME NEW n \in 1..N, NEW u \in Seq(S)
        PROVE  (IF n \in K THEN Append(u, s[n]) ELSE u) \in Seq(S)
    BY <1>1, AppendProperties
  <2> QED BY <2>1
<1>3. PICK g \in [0..N -> Seq(S)] :
         g[0] = <<>> /\ \A n \in 1..N : g[n] = step[<<n, g[n - 1]>>]
  <2> HIDE DEF N, step
  <2>1. \E f : Recursion(f, Seq(S), N, <<>>, step)
    BY <1>1, <1>2, RecursionExists
  <2> QED BY <2>1 DEF Recursion
<1>4. ASSUME NEW n \in 1..N
      PROVE  g[n] = IF n \in K THEN Append(g[n - 1], s[n]) ELSE g[n - 1]
  <2>1. n - 1 \in 0..N
    BY <1>1
  <2>2. g[n - 1] \in Seq(S) /\ g[n] = step[<<n, g[n - 1]>>]
    BY <1>3, <2>1
  <2> QED BY <2>2
<1>5. g = Def(g)
  <2>1. \A n \in 0..N : g[n] = IF n = 0 THEN <<>>
                               ELSE IF n \in K THEN Append(g[n - 1], s[n])
                               ELSE g[n - 1]
    <3> SUFFICES ASSUME NEW n \in 0..N
                 PROVE  g[n] = IF n = 0 THEN <<>>
                               ELSE IF n \in K THEN Append(g[n - 1], s[n])
                               ELSE g[n - 1]
      OBVIOUS
    <3>1. n = 0 \/ n \in 1..N
      BY <1>1
    <3>2. n \in 1..N => n # 0
      BY <1>1
    <3> HIDE DEF N
    <3> QED BY <1>3, <1>4, <3>1, <3>2, Zenon
  <2> HIDE DEF N
  <2> QED BY <2>1
<1> DEFINE Is(f) == f \in [0..N -> Seq(S)] /\ f = Def(f)
<1>6. those = Def(those)
  <2> HIDE DEF Def
  <2> QED BY <1>5
<1>7. Those(s, K) = those[N]
  BY DEF Those
<1> HIDE DEF those, step
<1>8. those = g
  <2> DEFINE J == {n \in 0..N : those[n] = g[n]}
  <2>1. 0 \in J
    <3>1. 0 \in 0..N
      BY <1>1
    <3>2. those[0] = <<>> /\ g[0] = <<>>
      BY <1>6, <1>3, <3>1
    <3> QED BY <3>1, <3>2
  <2>2. ASSUME NEW n \in 0..N - 1, n \in J
        PROVE  n + 1 \in J
    <3>1. n + 1 \in 0..N /\ n + 1 \in 1..N /\ n + 1 # 0 /\ (n + 1) - 1 = n
      BY <1>1
    <3>2. those[n + 1] = IF n + 1 \in K THEN Append(those[n], s[n + 1])
                         ELSE those[n]
      BY <1>6, <3>1
    <3>3. g[n + 1] = IF n + 1 \in K THEN Append(g[n], s[n + 1]) ELSE g[n]
      BY <1>4, <3>1
    <3> QED BY <2>2, <3>1, <3>2, <3>3
  <2>3. 0..N \subseteq J
    <3> HIDE DEF J, N
    <3> QED BY <1>1, <2>1, <2>2, InductionUpTo
  <2>4. those = [n \in 0..N |-> those[n]] /\ g = [n \in 0..N |-> g[n]]
    BY <1>6
  <2>5. \A n \in 0..N : those[n] = g[n]
    BY <2>3
  <2> HIDE DEF N
  <2> QED BY <2>4, <2>5
<1>9. Follows(g, S, s, K)
  BY <1>3, <1>4, <1>7, <1>8 DEF Follows
<1> QED BY <1>9

\* Those are a sequence of the same elements.
LEMMA ThoseType ==
    ASSUME NEW S, NEW s \in Seq(S), NEW K
    PROVE  Those(s, K) \in Seq(S)
<1>1. Len(s) \in 0..Len(s)
  OBVIOUS
<1>2. PICK g : Follows(g, S, s, K)
  BY ThoseSteps, Zenon
<1> QED BY <1>1, <1>2 DEF Follows

\* Of no elements there are none.
LEMMA ThoseOfNothing ==
    ASSUME NEW K
    PROVE  Those(<<>>, K) = <<>>
<1>1. <<>> \in Seq({}) /\ Len(<<>>) = 0
  OBVIOUS
<1>2. \A S : \A s \in Seq(S) : \E g : Follows(g, S, s, K)
  BY ThoseSteps, Zenon
<1>3. PICK g : Follows(g, {}, <<>>, K)
  BY <1>1, <1>2, Zenon
<1> QED BY <1>1, <1>3 DEF Follows

\* K has of the first n numbers those of L.
Upto(n, K, L) == \A j \in 1..n : j \in K <=> j \in L

\* One element more.
LEMMA ThoseAppend ==
    ASSUME NEW S, NEW s \in Seq(S), NEW x \in S, NEW K, NEW L,
           Upto(Len(s), K, L)
    PROVE  Those(Append(s, x), K) = IF Len(s) + 1 \in K
                                    THEN Append(Those(s, L), x)
                                    ELSE Those(s, L)
<1> USE DEF Upto
<1> DEFINE N == Len(s)
           t == Append(s, x)
<1>1. /\ t \in Seq(S) /\ Len(t) = N + 1 /\ t[N + 1] = x /\ N \in Nat
      /\ \A n \in 1..N : t[n] = s[n]
  OBVIOUS
<1>2. PICK g : Follows(g, S, s, L)
  BY ThoseSteps, Zenon
<1>3. PICK h : Follows(h, S, t, K)
  <2>1. \A u \in Seq(S) : \E f : Follows(f, S, u, K)
    BY ThoseSteps, Zenon
  <2> HIDE DEF t
  <2> QED BY <1>1, <2>1, Zenon
<1> HIDE DEF t
<1> DEFINE J == {n \in 0..N : g[n] = h[n]}
<1>4. 0..N \subseteq J
  <2>1. 0 \in J
    BY <1>1, <1>2, <1>3 DEF Follows
  <2>2. ASSUME NEW n \in 0..N - 1, n \in J
        PROVE  n + 1 \in J
    <3>1. n + 1 \in 1..N /\ n + 1 \in 1..Len(t) /\ (n + 1) - 1 = n
          /\ n + 1 \in 0..N
      BY <1>1
    <3>2. g[n + 1] = IF n + 1 \in L THEN Append(g[n], s[n + 1]) ELSE g[n]
      BY <1>2, <3>1 DEF Follows
    <3>3. h[n + 1] = IF n + 1 \in K THEN Append(h[n], t[n + 1]) ELSE h[n]
      BY <1>3, <3>1 DEF Follows
    <3>4. t[n + 1] = s[n + 1] /\ (n + 1 \in K <=> n + 1 \in L)
      BY <1>1, <3>1 DEF N
    <3> QED BY <2>2, <3>1, <3>2, <3>3, <3>4
  <2> HIDE DEF J, N
  <2> QED BY <1>1, <2>1, <2>2, InductionUpTo
<1>5. g[N] = h[N]
  BY <1>1, <1>4
<1>6. h[N + 1] = IF N + 1 \in K THEN Append(h[N], x) ELSE h[N]
  <2>1. N + 1 \in 1..Len(t) /\ (N + 1) - 1 = N
    BY <1>1
  <2> QED BY <2>1, <1>1, <1>3 DEF Follows
<1>7. Those(s, L) = g[N] /\ Those(t, K) = h[N + 1]
  BY <1>1, <1>2, <1>3 DEF Follows
<1> QED BY <1>1, <1>5, <1>6, <1>7 DEF t, N

\* s and the first elements of t are dealt with alike.
LEMMA ThosePrefix ==
    ASSUME NEW S, NEW s \in Seq(S), NEW t \in Seq(S), NEW K, NEW L,
           NEW g, NEW h, Follows(g, S, s, L), Follows(h, S, t, K),
           Len(s) <= Len(t),
           \A n \in 1..Len(s) : t[n] = s[n] /\ (n \in K <=> n \in L)
    PROVE  h[Len(s)] = Those(s, L)
<1> DEFINE N == Len(s)
           J == {n \in 0..N : g[n] = h[n]}
<1>1. N \in Nat /\ Len(t) \in Nat
  BY LenProperties
<1>2. g[0] = <<>> /\ h[0] = <<>> /\ Those(s, L) = g[N]
  BY DEF Follows
<1>3. \A n \in 1..N : g[n] = IF n \in L THEN Append(g[n - 1], s[n]) ELSE g[n - 1]
  BY DEF Follows
<1>4. \A n \in 1..Len(t) :
         h[n] = IF n \in K THEN Append(h[n - 1], t[n]) ELSE h[n - 1]
  BY DEF Follows
<1>5. 0 \in J
  BY <1>1, <1>2
<1>6. ASSUME NEW n \in 0..N - 1, n \in J
      PROVE  n + 1 \in J
  <2>1. n + 1 \in 1..N /\ n + 1 \in 1..Len(t) /\ (n + 1) - 1 = n
        /\ n + 1 \in 0..N
    BY <1>1
  <2>2. g[n + 1] = IF n + 1 \in L THEN Append(g[n], s[n + 1]) ELSE g[n]
    BY <1>3, <2>1
  <2>3. h[n + 1] = IF n + 1 \in K THEN Append(h[n], t[n + 1]) ELSE h[n]
    BY <1>4, <2>1
  <2>4. t[n + 1] = s[n + 1] /\ (n + 1 \in K <=> n + 1 \in L)
    BY <2>1
  <2> QED BY <1>6, <2>1, <2>2, <2>3, <2>4
<1>7. 0..N \subseteq J
  <2> HIDE DEF J, N
  <2> QED BY <1>1, <1>5, <1>6, InductionUpTo
<1> QED BY <1>1, <1>2, <1>7

\* K has of the n numbers behind d those of M.
Behind(d, n, K, M) == \A j \in 1..n : d + j \in K <=> j \in M

\* Two sequences behind each other.
LEMMA ThoseConcat ==
    ASSUME NEW S, NEW s \in Seq(S), NEW t \in Seq(S), NEW K, NEW L, NEW M,
           Upto(Len(s), K, L), Behind(Len(s), Len(t), K, M)
    PROVE  Those(s \o t, K) = Those(s, L) \o Those(t, M)
<1> USE DEF Upto, Behind
<1> DEFINE N == Len(s)
           u == s \o t
<1>1. /\ u \in Seq(S) /\ Len(u) = N + Len(t) /\ N \in Nat /\ Len(t) \in Nat
      /\ \A n \in 1..N : u[n] = s[n]
      /\ \A n \in 1..Len(t) : u[N + n] = t[n]
  BY ConcatProperties, LenProperties
<1>2. \A r \in Seq(S) : \A J : \E g : Follows(g, S, r, J)
  BY ThoseSteps, Zenon
<1>3. PICK g : Follows(g, S, t, M)
  BY <1>2
<1>4. PICK h : Follows(h, S, u, K)
  <2> HIDE DEF u
  <2> QED BY <1>1, <1>2
<1>5. PICK f : Follows(f, S, s, L)
  BY <1>2
<1>6. h[N] = Those(s, L)
  <2>1. N <= Len(u) /\ \A n \in 1..N : u[n] = s[n] /\ (n \in K <=> n \in L)
    BY <1>1
  <2> HIDE DEF u
  <2> QED BY <1>1, <1>4, <1>5, <2>1, ThosePrefix
<1> DEFINE J == {n \in 0..Len(t) : h[N + n] = Those(s, L) \o g[n]}
<1>7. Those(s, L) \in Seq(S)
  BY ThoseType
<1>8. /\ g \in [0..Len(t) -> Seq(S)] /\ g[0] = <<>> /\ Those(t, M) = g[Len(t)]
      /\ \A n \in 1..Len(t) :
            g[n] = IF n \in M THEN Append(g[n - 1], t[n]) ELSE g[n - 1]
  BY <1>3 DEF Follows
<1>9. /\ Those(u, K) = h[Len(u)]
      /\ \A n \in 1..Len(u) :
            h[n] = IF n \in K THEN Append(h[n - 1], u[n]) ELSE h[n - 1]
  <2> HIDE DEF u
  <2> QED BY <1>4 DEF Follows
<1>10. 0 \in J
  <2>1. Those(s, L) \o <<>> = Those(s, L)
    BY <1>7, ConcatEmptySeq
  <2>2. 0 \in 0..Len(t) /\ N + 0 = N
    BY <1>1
  <2> QED BY <1>6, <1>8, <2>1, <2>2
<1>11. ASSUME NEW n \in 0..Len(t) - 1, n \in J
       PROVE  n + 1 \in J
  <2> HIDE DEF u
  <2>1. n + 1 \in 1..Len(t) /\ (n + 1) - 1 = n /\ n + 1 \in 0..Len(t)
        /\ N + (n + 1) \in 1..Len(u) /\ (N + (n + 1)) - 1 = N + n
        /\ n \in 0..Len(t)
    BY <1>1
  <2>2. g[n + 1] = IF n + 1 \in M THEN Append(g[n], t[n + 1]) ELSE g[n]
    BY <1>8, <2>1
  <2>3. h[N + (n + 1)] = IF N + (n + 1) \in K
                         THEN Append(h[N + n], u[N + (n + 1)]) ELSE h[N + n]
    BY <1>9, <2>1
  <2>4. u[N + (n + 1)] = t[n + 1] /\ (N + (n + 1) \in K <=> n + 1 \in M)
    BY <1>1, <2>1
  <2>5. h[N + n] = Those(s, L) \o g[n]
    BY <1>11
  <2>6. Append(Those(s, L) \o g[n], t[n + 1]) = Those(s, L) \o Append(g[n], t[n + 1])
    <3>1. g[n] \in Seq(S) /\ t[n + 1] \in S
      BY <1>8, <2>1, ElementOfSeq
    <3>2. \A a, b \in Seq(S) : \A x \in S :
             Append(a \o b, x) = a \o Append(b, x)
      <4> SUFFICES ASSUME NEW a \in Seq(S), NEW b \in Seq(S), NEW x \in S
                   PROVE  Append(a \o b, x) = a \o Append(b, x)
        OBVIOUS
      <4>1. <<x>> \in Seq(S) /\ a \o b \in Seq(S)
        BY ConcatProperties
      <4>2. /\ Append(a \o b, x) = (a \o b) \o <<x>>
            /\ Append(b, x) = b \o <<x>>
        BY <4>1, AppendIsConcat
      <4>3. (a \o b) \o <<x>> = a \o (b \o <<x>>)
        BY <4>1, ConcatAssociative
      <4> QED BY <4>2, <4>3
    <3> HIDE DEF J
    <3> QED BY <1>7, <3>1, <3>2
  <2> QED BY <2>1, <2>2, <2>3, <2>4, <2>5, <2>6
<1>12. 0..Len(t) \subseteq J
  <2> HIDE DEF J, N
  <2> QED BY <1>1, <1>10, <1>11, InductionUpTo
<1>13. h[N + Len(t)] = Those(s, L) \o g[Len(t)]
  <2>1. Len(t) \in 0..Len(t)
    BY <1>1
  <2> QED BY <2>1, <1>12
<1>14. Those(u, K) = h[N + Len(t)]
  <2> HIDE DEF u
  <2> QED BY <1>1, <1>9
<1> QED BY <1>8, <1>13, <1>14

\* p tells the positions of the elements of u, which are those of s at K.
PositionsIn(p, u, s, K) ==
    /\ p \in [1..Len(u) -> 1..Len(s)]
    /\ \A i, j \in 1..Len(u) : i < j => p[i] < p[j]
    /\ \A i \in 1..Len(u) : p[i] \in K /\ u[i] = s[p[i]]
    /\ \A k \in 1..Len(s) : k \in K => \E i \in 1..Len(u) : p[i] = k

\* Each of Those stands at a position of its own, in order, and none is left out.
LEMMA ThosePositions ==
    ASSUME NEW S, NEW s \in Seq(S), NEW K
    PROVE  \E p : PositionsIn(p, Those(s, K), s, K)
<1> DEFINE N == Len(s)
           At(p, u, m) == /\ p \in [1..Len(u) -> 1..m]
                          /\ \A i, j \in 1..Len(u) : i < j => p[i] < p[j]
                          /\ \A i \in 1..Len(u) : p[i] \in K /\ u[i] = s[p[i]]
                          /\ \A k \in 1..m :
                                k \in K => \E i \in 1..Len(u) : p[i] = k
<1>1. N \in Nat /\ \A n \in 1..N : s[n] \in S
  BY LenProperties, ElementOfSeq
<1>2. PICK g : Follows(g, S, s, K)
  BY ThoseSteps, Zenon
<1>3. /\ g \in [0..N -> Seq(S)] /\ g[0] = <<>> /\ Those(s, K) = g[N]
      /\ \A n \in 1..N :
            g[n] = IF n \in K THEN Append(g[n - 1], s[n]) ELSE g[n - 1]
  BY <1>2 DEF Follows
<1> DEFINE J == {n \in 0..N : \E p : At(p, g[n], n)}
<1>4. 0 \in J
  <2> DEFINE p == [i \in 1..0 |-> 0]
  <2>1. Len(<<>>) = 0 /\ 0 \in 0..N
    BY <1>1
  <2>2. \A i \in 1..0 : FALSE
    OBVIOUS
  <2>3. p \in [1..0 -> 1..0]
    BY <2>2
  <2>4. At(p, <<>>, 0)
    <3> HIDE DEF p
    <3> QED BY <2>1, <2>2, <2>3
  <2> HIDE DEF p, At
  <2> QED BY <1>3, <2>1, <2>4
<1>5. ASSUME NEW n \in 0..N - 1, n \in J
      PROVE  n + 1 \in J
  <2>1. n + 1 \in 1..N /\ (n + 1) - 1 = n /\ n + 1 \in 0..N /\ n \in 0..N
    BY <1>1
  <2>2. PICK p : At(p, g[n], n)
    BY <1>5
  <2> DEFINE u == g[n]
             l == Len(u)
  <2>3. u \in Seq(S) /\ l \in Nat /\ s[n + 1] \in S
    BY <1>1, <1>3, <2>1, LenProperties
  <2>4. g[n + 1] = IF n + 1 \in K THEN Append(u, s[n + 1]) ELSE u
    BY <1>3, <2>1
  <2>5. CASE n + 1 \notin K
    <3>1. At(p, u, n + 1)
      <4> HIDE DEF u
      <4>1. \A k \in 1..n + 1 : k \in 1..n \/ k = n + 1
        BY <2>1
      <4>2. 1..n \subseteq 1..n + 1
        BY <2>1
      <4>3. p \in [1..Len(u) -> 1..n + 1]
        BY <2>2, <4>2 DEF u
      <4>4. /\ \A i, j \in 1..Len(u) : i < j => p[i] < p[j]
            /\ \A i \in 1..Len(u) : p[i] \in K /\ u[i] = s[p[i]]
        BY <2>2 DEF u
      <4>5. \A k \in 1..n : k \in K => \E i \in 1..Len(u) : p[i] = k
        BY <2>2 DEF u
      <4>6. \A k \in 1..n + 1 : k \in K => \E i \in 1..Len(u) : p[i] = k
        BY <4>1, <4>5, <2>5
      <4> QED BY <4>3, <4>4, <4>6
    <3> HIDE DEF At, u
    <3>2. g[n + 1] = u
      BY <2>4, <2>5
    <3> QED BY <2>1, <3>1, <3>2
  <2>6. CASE n + 1 \in K
    <3> DEFINE q == [i \in 1..l + 1 |-> IF i = l + 1 THEN n + 1 ELSE p[i]]
               v == Append(u, s[n + 1])
    <3>1. Len(v) = l + 1 /\ v[l + 1] = s[n + 1] /\ \A i \in 1..l : v[i] = u[i]
      <4> HIDE DEF u
      <4> QED BY <2>3, AppendProperties
    <3>2. \A i \in 1..l : p[i] \in 1..n /\ p[i] \in K /\ u[i] = s[p[i]]
      BY <2>2
    <3>3. \A i, j \in 1..l : i < j => p[i] < p[j]
      BY <2>2
    <3>4. \A k \in 1..n : k \in K => \E i \in 1..l : p[i] = k
      BY <2>2
    <3> HIDE DEF u
    <3>5. \A i \in 1..l + 1 : i \in 1..l \/ i = l + 1
      BY <2>3
    <3>6. /\ \A i \in 1..l : q[i] = p[i] /\ i \in 1..l + 1 /\ i # l + 1 /\ i < l + 1
                             /\ ~(l + 1 < i)
          /\ q[l + 1] = n + 1 /\ l + 1 \in 1..l + 1
      BY <2>3
    <3> HIDE DEF At, v, l
    <3>7. q \in [1..l + 1 -> 1..n + 1]
      <4>1. \A i \in 1..l + 1 : q[i] \in 1..n + 1
        <5>1. n + 1 \in 1..n + 1 /\ \A k \in 1..n : k \in 1..n + 1
          BY <2>1
        <5> HIDE DEF q
        <5> QED BY <5>1, <3>2, <3>5, <3>6
      <4> QED BY <4>1
    <3> HIDE DEF q
    <3>8. \A i, j \in 1..l + 1 : i < j => q[i] < q[j]
      <4> SUFFICES ASSUME NEW i \in 1..l + 1, NEW j \in 1..l + 1, i < j
                   PROVE  q[i] < q[j]
        OBVIOUS
      <4>1. i \in 1..l
        BY <3>5, <2>3
      <4>2. CASE j \in 1..l
        BY <4>1, <4>2, <3>3, <3>6
      <4>3. CASE j = l + 1
        <5>1. p[i] \in 1..n
          BY <4>1, <3>2
        <5> QED BY <4>1, <4>3, <5>1, <3>6
      <4> QED BY <4>2, <4>3, <3>5
    <3>9. \A i \in 1..l + 1 : q[i] \in K /\ v[i] = s[q[i]]
      BY <3>1, <3>2, <3>5, <3>6, <2>6
    <3>10. \A k \in 1..n + 1 : k \in K => \E i \in 1..l + 1 : q[i] = k
      <4>1. \A k \in 1..n + 1 : k \in 1..n \/ k = n + 1
        BY <2>1
      <4> QED BY <4>1, <3>4, <3>6
    <3>11. At(q, v, n + 1)
      BY <3>1, <3>7, <3>8, <3>9, <3>10 DEF At
    <3>12. g[n + 1] = v
      BY <2>4, <2>6 DEF v
    <3> QED BY <2>1, <3>11, <3>12
  <2> QED BY <2>5, <2>6
<1>6. 0..N \subseteq J
  <2> HIDE DEF J, N
  <2> QED BY <1>1, <1>4, <1>5, InductionUpTo
<1>7. PICK p : At(p, g[N], N)
  <2>1. N \in 0..N
    BY <1>1
  <2> HIDE DEF At
  <2> QED BY <2>1, <1>6
<1>8. PositionsIn(p, Those(s, K), s, K)
  BY <1>3, <1>7 DEF PositionsIn
<1> QED BY <1>8

-----------------------------------------------------------------------------
(* Sequences of records behind each other.                                 *)

\* The elements of u are those of s and then those of t.
Joins(u, s, t) ==
    /\ Len(s) \in Nat /\ Len(t) \in Nat
    /\ DOMAIN s = 1..Len(s) /\ DOMAIN t = 1..Len(t)
    /\ \A k \in DOMAIN s : k \in DOMAIN u /\ u[k] = s[k]
    /\ \A k \in DOMAIN t : Len(s) + k \in DOMAIN u /\ u[Len(s) + k] = t[k]
    /\ \A k \in DOMAIN u :
          k \in DOMAIN s \/ \E j \in DOMAIN t : k = Len(s) + j

\* One sequence behind the other is both joined.
LEMMA ConcatJoins ==
    ASSUME NEW S, NEW T, NEW s \in Seq(S), NEW t \in Seq(T)
    PROVE  Joins(s \o t, s, t)
<1>1. s \in Seq(S \cup T) /\ t \in Seq(S \cup T)
  BY SeqMonotonic
<1>2. /\ s \o t \in Seq(S \cup T) /\ Len(s \o t) = Len(s) + Len(t)
      /\ \A k \in 1..Len(s) + Len(t) :
            (s \o t)[k] = IF k <= Len(s) THEN s[k] ELSE t[k - Len(s)]
  BY <1>1, ConcatProperties
<1>3. /\ Len(s) \in Nat /\ Len(t) \in Nat
      /\ DOMAIN s = 1..Len(s) /\ DOMAIN t = 1..Len(t)
      /\ DOMAIN (s \o t) = 1..Len(s) + Len(t)
  <2>1. \A r \in Seq(S \cup T) : Len(r) \in Nat /\ DOMAIN r = 1..Len(r)
    BY LenProperties
  <2> QED BY <1>1, <1>2, <2>1, Zenon
<1>4. \A k \in 1..Len(s) : k \in DOMAIN (s \o t) /\ (s \o t)[k] = s[k]
  BY <1>2, <1>3
<1>5. \A k \in 1..Len(t) :
         Len(s) + k \in DOMAIN (s \o t) /\ (s \o t)[Len(s) + k] = t[k]
  <2> SUFFICES ASSUME NEW k \in 1..Len(t)
               PROVE  /\ Len(s) + k \in DOMAIN (s \o t)
                      /\ (s \o t)[Len(s) + k] = t[k]
    OBVIOUS
  <2>1. Len(s) + k \in 1..Len(s) + Len(t) /\ ~(Len(s) + k <= Len(s))
        /\ (Len(s) + k) - Len(s) = k
    BY <1>3
  <2> QED BY <2>1, <1>2, <1>3
<1>6. \A k \in DOMAIN (s \o t) :
         k \in 1..Len(s) \/ \E j \in 1..Len(t) : k = Len(s) + j
  <2> SUFFICES ASSUME NEW k \in 1..Len(s) + Len(t), k \notin 1..Len(s)
               PROVE  \E j \in 1..Len(t) : k = Len(s) + j
    BY <1>3
  <2>1. k - Len(s) \in 1..Len(t) /\ k = Len(s) + (k - Len(s))
    BY <1>3
  <2> QED BY <2>1
<1> QED BY <1>3, <1>4, <1>5, <1>6, Zenon DEF Joins

\* What is in order stays so when what is joined to it comes after it.
LEMMA InOrderJoined ==
    ASSUME NEW u, NEW s, NEW t, Joins(u, s, t),
           InOrder(s), InOrder(t), AllBefore(s, t)
    PROVE  InOrder(u)
<1> SUFFICES ASSUME NEW j \in DOMAIN u, NEW k \in DOMAIN u,
                    j < k, u[j].cpu = u[k].cpu
             PROVE  Before(u[j], u[k])
  BY DEF InOrder
<1>1. CASE k \in DOMAIN s
  <2>1. j \in DOMAIN s
    BY <1>1 DEF Joins
  <2>2. u[j] = s[j] /\ u[k] = s[k]
    BY <1>1, <2>1 DEF Joins
  <2> QED BY <1>1, <2>1, <2>2 DEF InOrder
<1>2. CASE k \notin DOMAIN s /\ j \in DOMAIN s
  <2>1. PICK n \in DOMAIN t : k = Len(s) + n
    BY <1>2 DEF Joins
  <2>2. u[j] = s[j] /\ u[k] = t[n]
    BY <1>2, <2>1 DEF Joins
  <2> QED BY <1>2, <2>1, <2>2 DEF AllBefore
<1>3. CASE k \notin DOMAIN s /\ j \notin DOMAIN s
  <2>1. PICK m \in DOMAIN t : j = Len(s) + m
    BY <1>3 DEF Joins
  <2>2. PICK n \in DOMAIN t : k = Len(s) + n
    BY <1>3 DEF Joins
  <2>3. m < n
    BY <2>1, <2>2 DEF Joins
  <2>4. u[j] = t[m] /\ u[k] = t[n]
    BY <2>1, <2>2 DEF Joins
  <2> QED BY <2>3, <2>4 DEF InOrder
<1> QED BY <1>1, <1>2, <1>3

\* All of two sequences are before what each of them is before.
LEMMA AllBeforeJoined ==
    ASSUME NEW u, NEW s, NEW t, Joins(u, s, t), NEW v
    PROVE  /\ AllBefore(s, v) /\ AllBefore(t, v) => AllBefore(u, v)
           /\ AllBefore(v, s) /\ AllBefore(v, t) => AllBefore(v, u)
<1>1. AllBefore(s, v) /\ AllBefore(t, v) => AllBefore(u, v)
  BY DEF Joins, AllBefore
<1>2. AllBefore(v, s) /\ AllBefore(v, t) => AllBefore(v, u)
  BY DEF Joins, AllBefore
<1> QED BY <1>1, <1>2

\* What holds of all records, and what holds of some.
LEMMA EachJoined ==
    ASSUME NEW u, NEW s, NEW t, Joins(u, s, t)
    PROVE  /\ \A n, q : AllPossible(s, n, q) /\ AllPossible(t, n, q)
                        => AllPossible(u, n, q)
           /\ AllNamed(s) /\ AllNamed(t) => AllNamed(u)
           /\ \A c : AllOf(s, c) /\ AllOf(t, c) => AllOf(u, c)
           /\ \A c, q : Has(s, c, q) \/ Has(t, c, q) <=> Has(u, c, q)
           /\ \A p, n : Noted(s, p, n) \/ Noted(t, p, n) <=> Noted(u, p, n)
<1>3. \A n, q : AllPossible(s, n, q) /\ AllPossible(t, n, q)
                => AllPossible(u, n, q)
  BY DEF Joins, AllPossible
<1>4. AllNamed(s) /\ AllNamed(t) => AllNamed(u)
  BY DEF Joins, AllNamed
<1>5. \A c : AllOf(s, c) /\ AllOf(t, c) => AllOf(u, c)
  BY DEF Joins, AllOf
<1>6. ASSUME NEW c, NEW q
      PROVE  Has(s, c, q) \/ Has(t, c, q) <=> Has(u, c, q)
  <2>1. Has(s, c, q) => Has(u, c, q)
    BY DEF Joins, Has
  <2>2. Has(t, c, q) => Has(u, c, q)
    BY DEF Joins, Has
  <2>3. Has(u, c, q) => Has(s, c, q) \/ Has(t, c, q)
    BY DEF Joins, Has
  <2> QED BY <2>1, <2>2, <2>3
<1>7. ASSUME NEW p, NEW n
      PROVE  Noted(s, p, n) \/ Noted(t, p, n) <=> Noted(u, p, n)
  <2>1. Noted(s, p, n) => Noted(u, p, n)
    BY DEF Joins, Noted
  <2>2. Noted(t, p, n) => Noted(u, p, n)
    BY DEF Joins, Noted
  <2>3. Noted(u, p, n) => Noted(s, p, n) \/ Noted(t, p, n)
    BY DEF Joins, Noted
  <2> QED BY <2>1, <2>2, <2>3
<1> QED BY <1>3, <1>4, <1>5, <1>6, <1>7

-----------------------------------------------------------------------------
(* What the kernel writes.                                                 *)

\* The fields of records have their types.
LEMMA RecordFields ==
    /\ \A r \in Records :
          /\ r.kind \in {"event", "process", "message"} /\ r.cpu \in Cpus
          /\ r.pid \in Nat /\ r.seq \in Nat /\ r.time \in Nat
          /\ r.named \in BOOLEAN /\ r.state \in {"good", "version", "magic"}
    /\ \A r \in KernelRecords :
          /\ r.kind \in {"event", "process", "message"} /\ r.cpu \in Cpus
          /\ r.pid \in Nat /\ r.seq \in Nat /\ r.time \in Nat
          /\ r.named \in BOOLEAN
<1>1. \A r \in Records :
          /\ r.kind \in {"event", "process", "message"} /\ r.cpu \in Cpus
          /\ r.pid \in Nat /\ r.seq \in Nat /\ r.time \in Nat
          /\ r.named \in BOOLEAN /\ r.state \in {"good", "version", "magic"}
  BY DEF Records
<1>2. \A r \in KernelRecords :
          /\ r.kind \in {"event", "process", "message"} /\ r.cpu \in Cpus
          /\ r.pid \in Nat /\ r.seq \in Nat /\ r.time \in Nat
          /\ r.named \in BOOLEAN
  BY DEF KernelRecords
<1> QED BY <1>1, <1>2

\* How much of what is written finds room.
LEMMA KeptOne ==
    ASSUME NEW c \in Cpus, KernelTypes, NEW r
    PROVE  Kept(c, <<r>>) = IF Len(relay[c]) + 1 <= Room THEN <<r>> ELSE <<>>
<1> DEFINE n == Room - Len(relay[c])
<1>1. n \in Int /\ Len(relay[c]) \in Nat
  BY KernelEventsAssumption, LenProperties DEF KernelTypes
<1>2. Len(<<r>>) = 1 /\ <<r>> \in Seq({r})
  OBVIOUS
<1>3. SubSeq(<<r>>, 1, 1) = <<r>>
  BY <1>2, SubSeqFull
<1>4. \A m \in Int : m < 1 => SubSeq(<<r>>, 1, m) = <<>>
  BY SubSeqEmpty
<1>5. Kept(c, <<r>>) = SubSeq(<<r>>, 1, IF n < 1 THEN n ELSE 1)
  BY <1>2 DEF Kept
<1>6. n < 1 <=> ~(Len(relay[c]) + 1 <= Room)
  BY <1>1, KernelEventsAssumption
<1> HIDE DEF n
<1> QED BY <1>1, <1>3, <1>4, <1>5, <1>6

\* Of two records the buffer keeps what it has room for, the first first.
LEMMA KeptTwo ==
    ASSUME NEW c \in Cpus, KernelTypes, NEW r, NEW s
    PROVE  Kept(c, <<r, s>>) = IF Len(relay[c]) + 2 <= Room THEN <<r, s>>
                               ELSE IF Len(relay[c]) < Room THEN <<r>> ELSE <<>>
<1> DEFINE n == Room - Len(relay[c])
<1>1. n \in Int /\ Len(relay[c]) \in Nat
  BY KernelEventsAssumption, LenProperties DEF KernelTypes
<1>2. Len(<<r, s>>) = 2 /\ <<r, s>> \in Seq({r, s})
  OBVIOUS
<1>3. SubSeq(<<r, s>>, 1, 2) = <<r, s>>
  BY <1>2, SubSeqFull
<1>4. \A m \in Int : m < 1 => SubSeq(<<r, s>>, 1, m) = <<>>
  BY SubSeqEmpty
<1>5. SubSeq(<<r, s>>, 1, 1) = <<r>>
  <2> DEFINE u == SubSeq(<<r, s>>, 1, 1)
  <2>1. \A k \in 1..1 : <<r, s>>[k] \in {r, s}
    OBVIOUS
  <2>2. u \in Seq({r, s}) /\ Len(u) = 1 /\ u[1] = <<r, s>>[1]
    BY <2>1, SubSeqProperties
  <2>3. <<r>> \in Seq({r, s}) /\ Len(<<r>>) = 1 /\ <<r>>[1] = r
    OBVIOUS
  <2>4. \A v, w \in Seq({r, s}) : Len(v) = 1 /\ Len(w) = 1 /\ v[1] = w[1] => v = w
    BY SeqEqual
  <2> HIDE DEF u
  <2>5. u = <<r>>
    BY <2>2, <2>3, <2>4
  <2> QED BY <2>5 DEF u
<1>6. Kept(c, <<r, s>>) = SubSeq(<<r, s>>, 1, IF n < 2 THEN n ELSE 2)
  BY <1>2 DEF Kept
<1>7. /\ ~(n < 2) <=> Len(relay[c]) + 2 <= Room
      /\ n = 1 => Len(relay[c]) < Room
      /\ n < 1 <=> ~(Len(relay[c]) < Room)
      /\ n < 2 => n = 1 \/ n < 1
  BY <1>1, KernelEventsAssumption
<1> HIDE DEF n
<1>8. CASE ~(n < 2)
  BY <1>3, <1>6, <1>7, <1>8
<1>9. CASE n = 1
  BY <1>5, <1>6, <1>7, <1>9
<1>10. CASE n < 1
  <2>1. n < 2 /\ SubSeq(<<r, s>>, 1, n) = <<>>
    BY <1>1, <1>4, <1>10
  <2> QED BY <1>6, <1>7, <1>10, <2>1
<1> QED BY <1>7, <1>8, <1>9, <1>10

\* The records of one write: of one time, with at most one event, which takes
\* the next number of the CPU.
Writing(s, c, time, number) ==
    /\ s \in Seq(KernelRecords) /\ AllOf(s, c)
    /\ \A k \in DOMAIN s : s[k].time = time
    /\ \A j, k \in DOMAIN s : IsEvent(s[j]) /\ IsEvent(s[k]) => j = k
    /\ \A k \in DOMAIN s : IsEvent(s[k]) => s[k].seq = number

\* What is written now is in order and behind all that has been written.
LEMMA WriteInOrder ==
    ASSUME KernelTypes, NEW c \in Cpus, StreamOK(c), NEW s,
           NEW time \in Nat, NEW q \in Nat,
           now <= time, q = sequence[c] + 1, Writing(s, c, time, q)
    PROVE  /\ InOrder(s) /\ AllBefore(relay[c], s)
           /\ \A d \in Cpus : StreamOK(d) => AllBefore(Wire(d), s)
<1>1. InOrder(s)
  <2> SUFFICES ASSUME NEW j \in DOMAIN s, NEW k \in DOMAIN s, j < k
               PROVE  Before(s[j], s[k])
    BY DEF InOrder
  <2>1. j # k
    <3>1. DOMAIN s = 1..Len(s) /\ Len(s) \in Nat
      BY LenProperties DEF Writing
    <3> QED BY <3>1
  <2>2. ~(IsEvent(s[j]) /\ IsEvent(s[k]))
    BY <2>1 DEF Writing
  <2>3. s[j].time = time /\ s[k].time = time
    BY DEF Writing
  <2> QED BY <2>2, <2>3 DEF Before
<1>2. ASSUME NEW u, AllPossible(u, now, sequence), NEW S, u \in Seq(S),
             S = Records \/ S = KernelRecords
      PROVE  AllBefore(u, s)
  <2> SUFFICES ASSUME NEW j \in DOMAIN u, NEW k \in DOMAIN s, u[j].cpu = s[k].cpu
               PROVE  Before(u[j], s[k])
    BY DEF AllBefore
  <2>1. u[j] \in S
    <3>1. DOMAIN u = 1..Len(u)
      BY <1>2, LenProperties
    <3> QED BY <1>2, <3>1, ElementOfSeq
  <2>2. u[j].time \in Nat /\ u[j].seq \in Nat
    BY <1>2, <2>1, RecordFields, Zenon
  <2>3. u[j].time <= now /\ (IsEvent(u[j]) => u[j].seq \in 1..sequence[u[j].cpu])
    BY <1>2 DEF AllPossible, Possible
  <2>4. s[k].time = time /\ s[k].cpu = c /\ (IsEvent(s[k]) => s[k].seq = q)
    BY DEF Writing, AllOf
  <2>5. now \in Nat /\ sequence[c] \in Nat
    BY DEF KernelTypes
  <2> QED BY <2>2, <2>3, <2>4, <2>5 DEF Before
<1>3. AllBefore(relay[c], s)
  BY <1>2 DEF KernelTypes, StreamOK
<1>4. ASSUME NEW d \in Cpus, StreamOK(d)
      PROVE  AllBefore(Wire(d), s)
  <2>1. Wire(d) \in Seq(Records)
    BY DEF Wire, KernelTypes
  <2> QED BY <1>2, <1>4, <2>1 DEF StreamOK
<1> QED BY <1>1, <1>3, <1>4

\* What was possible stays so.
LEMMA StillPossible ==
    ASSUME NEW S, S = Records \/ S = KernelRecords, NEW s \in Seq(S),
           NEW n \in Nat, NEW m \in Nat, n <= m,
           NEW f, NEW g, \A c \in Cpus : f[c] \in Nat /\ g[c] \in Nat /\ f[c] <= g[c],
           AllPossible(s, n, f)
    PROVE  AllPossible(s, m, g)
<1> SUFFICES ASSUME NEW k \in DOMAIN s
             PROVE  Possible(s[k], m, g)
  BY DEF AllPossible
<1>1. s[k] \in S
  <2>1. DOMAIN s = 1..Len(s)
    BY LenProperties
  <2> QED BY <2>1, ElementOfSeq
<1>2. s[k].time \in Nat /\ s[k].seq \in Nat /\ s[k].cpu \in Cpus
  BY <1>1, RecordFields, Zenon
<1>3. s[k].time <= n /\ (IsEvent(s[k]) => s[k].seq \in 1..f[s[k].cpu])
  BY DEF AllPossible, Possible
<1> QED BY <1>2, <1>3 DEF Possible

\* The records of every CPU stay in order when some are written.
LEMMA StreamsWritten ==
    ASSUME KernelTypes, \A c \in Cpus : StreamOK(c), NEW c \in Cpus,
           NEW s, NEW q \in Nat, q = sequence[c] + 1, Writing(s, c, now', q),
           relay' = [relay EXCEPT ![c] = relay[c] \o s],
           files' = files, pipe' = pipe, mode' = mode,
           now' \in Nat, now <= now',
           \/ /\ sequence' = sequence
              /\ \A k \in DOMAIN s : ~IsEvent(s[k])
           \/ sequence' = [sequence EXCEPT ![c] = q] /\ Has(s, c, q)
    PROVE  \A d \in Cpus : StreamOK(d)'
<1>1. now \in Nat /\ \A d \in Cpus : /\ sequence[d] \in Nat /\ sequence'[d] \in Nat
                                     /\ sequence[d] <= sequence'[d]
  <2>1. now \in Nat /\ sequence \in [Cpus -> Nat]
    BY DEF KernelTypes
  <2>2. CASE sequence' = sequence
    BY <2>1, <2>2
  <2>3. CASE sequence' = [sequence EXCEPT ![c] = q]
    <3> SUFFICES ASSUME NEW d \in Cpus
                 PROVE  /\ sequence[d] \in Nat /\ sequence'[d] \in Nat
                        /\ sequence[d] <= sequence'[d]
      BY <2>1
    <3>1. sequence'[d] = IF d = c THEN q ELSE sequence[d]
      BY <2>1, <2>3
    <3> QED BY <2>1, <3>1
  <2> QED BY <2>2, <2>3
<1> SUFFICES ASSUME NEW d \in Cpus PROVE StreamOK(d)'
  OBVIOUS
<1>2. Wire(d)' = Wire(d) /\ Wire(d) \in Seq(Records)
  BY DEF Wire, KernelTypes
<1>3. AllPossible(Wire(d), now', sequence')
  <2>1. AllPossible(Wire(d), now, sequence)
    BY DEF StreamOK
  <2> QED BY <1>1, <1>2, <2>1, StillPossible
<1>4. relay[d] \in Seq(KernelRecords) /\ s \in Seq(KernelRecords)
  BY DEF KernelTypes, Writing
<1>5. AllPossible(relay[d], now', sequence')
  <2>1. AllPossible(relay[d], now, sequence)
    BY DEF StreamOK
  <2> QED BY <1>1, <1>4, <2>1, StillPossible
<1>6. /\ AllOf(relay[d], d) /\ AllOf(files[d], d) /\ InOrder(Wire(d))
      /\ InOrder(relay[d]) /\ AllBefore(Wire(d), relay[d])
      /\ \A n \in 1..sequence[d] : Has(Wire(d), d, n) \/ Has(relay[d], d, n)
  BY DEF StreamOK
<1>7. CASE d # c
  <2>1. relay'[d] = relay[d] /\ sequence'[d] = sequence[d]
    BY <1>7 DEF KernelTypes
  <2> QED BY <1>2, <1>3, <1>5, <1>6, <2>1 DEF StreamOK
<1>8. CASE d = c
  <2> DEFINE u == relay[d] \o s
  <2>1. relay'[d] = u
    BY <1>8 DEF KernelTypes
  <2>2. Joins(u, relay[d], s)
    BY <1>4, ConcatJoins
  <2>3. AllOf(s, d) /\ AllPossible(s, now', sequence')
    <3>1. AllOf(s, d)
      BY <1>8 DEF Writing
    <3>2. ASSUME NEW k \in DOMAIN s
          PROVE  Possible(s[k], now', sequence')
      <4>1. s[k].time = now' /\ s[k].cpu = c /\ (IsEvent(s[k]) => s[k].seq = q)
        BY DEF Writing, AllOf
      <4>2. IsEvent(s[k]) => sequence'[c] = q
        BY DEF KernelTypes
      <4>3. q \in 1..q
        BY <1>1
      <4> QED BY <4>1, <4>2, <4>3 DEF Possible
    <3> QED BY <3>1, <3>2 DEF AllPossible
  <2>4. InOrder(s) /\ AllBefore(relay[d], s) /\ AllBefore(Wire(d), s)
    BY <1>8, WriteInOrder
  <2> HIDE DEF u
  <2>5. InOrder(u)
    BY <1>6, <2>2, <2>4, InOrderJoined
  <2>6. AllBefore(Wire(d), u)
    BY <1>6, <2>2, <2>4, AllBeforeJoined
  <2>7. /\ AllOf(u, d) /\ AllPossible(u, now', sequence')
        /\ \A n : Has(relay[d], d, n) \/ Has(s, d, n) => Has(u, d, n)
    BY <1>5, <1>6, <2>2, <2>3, EachJoined
  <2>8. ASSUME NEW n \in 1..sequence'[d]
        PROVE  Has(Wire(d), d, n) \/ Has(u, d, n)
    <3>1. n \in 1..sequence[d] \/ (n = q /\ Has(s, c, q))
      <4>1. CASE sequence' = sequence
        BY <4>1
      <4>2. CASE sequence' = [sequence EXCEPT ![c] = q] /\ Has(s, c, q)
        <5>1. sequence'[d] = q
          BY <1>8, <4>2 DEF KernelTypes
        <5> QED BY <1>1, <1>8, <4>2, <5>1
      <4> QED BY <4>1, <4>2
    <3> QED BY <1>6, <1>8, <2>7, <3>1
  <2> QED BY <1>2, <1>3, <1>6, <2>1, <2>5, <2>6, <2>7, <2>8 DEF StreamOK
<1> QED BY <1>7, <1>8

\* The records that AddTrace writes of t on c.
IsNote(r, t, c) ==
    r \in KernelRecords /\ NoteOf(r, t) /\ r.cpu = c /\ r.time = now' /\ r.named
IsEventOf(r, t, c) ==
    /\ r \in KernelRecords /\ IsEvent(r) /\ r.pid = t /\ r.cpu = c
    /\ r.time = now' /\ r.seq = sequence[c] + 1 /\ r.named = (t \in named')

\* It writes all, or the note alone, or nothing.
Added(t, c, s) ==
    \/ \E n, e : /\ btrace_seq[t] # blktrace_seq /\ s = <<n, e>>
                 /\ IsNote(n, t, c) /\ IsEventOf(e, t, c)
                 /\ named' = named \cup {t} /\ dropped' = dropped
                 /\ sequence' = [sequence EXCEPT ![c] = sequence[c] + 1]
    \/ \E e : /\ btrace_seq[t] = blktrace_seq /\ s = <<e>>
              /\ IsEventOf(e, t, c) /\ named' = named /\ dropped' = dropped
              /\ sequence' = [sequence EXCEPT ![c] = sequence[c] + 1]
    \/ \E n : /\ btrace_seq[t] # blktrace_seq /\ s = <<n>> /\ IsNote(n, t, c)
              /\ named' = named \cup {t} /\ dropped' \in Nat /\ dropped' > dropped
              /\ sequence' = sequence
    \/ s = <<>> /\ named' = named /\ dropped' \in Nat /\ dropped' > dropped /\ sequence' = sequence

\* __blk_add_trace adds a note, an event, both or nothing to the CPU's buffer.
LEMMA AddTraceAdds ==
    ASSUME KernelTypes, NEW t \in Tasks, NEW c \in Cpus, AddTrace(t, c)
    PROVE  \E s : /\ relay' = [relay EXCEPT ![c] = relay[c] \o s]
                  /\ now' \in {now, now + 1} /\ Added(t, c, s)
<1> DEFINE new == btrace_seq[t] # blktrace_seq
           n == IF new THEN 2 ELSE 1
<1>1. PICK time \in {now, now + 1} :
         Write(c, IF new THEN <<Note("process", t, c, time), EventRecord(t, c, time)>>
                  ELSE <<EventRecord(t, c, time)>>)
  BY Zenon DEF AddTrace
<1> DEFINE note == Note("process", t, c, time)
           event == EventRecord(t, c, time)
<1>2. /\ named' = IF new /\ Len(relay[c]) < Room THEN named \cup {t} ELSE named
      /\ sequence' = [sequence EXCEPT ![c] =
                         IF Len(relay[c]) + n <= Room THEN sequence[c] + 1
                         ELSE sequence[c]]
  BY Zenon DEF AddTrace
<1>3. /\ now \in Nat /\ sequence \in [Cpus -> Nat] /\ dropped \in Nat
      /\ time \in Nat /\ Len(relay[c]) \in Nat /\ Room \in Nat \ {0}
      /\ t \in Nat \ {0}
  BY KernelEventsAssumption, LenProperties DEF KernelTypes
<1>4. sequence[c] \in Nat /\ sequence = [sequence EXCEPT ![c] = sequence[c]]
  BY <1>3
<1>5. /\ note \in KernelRecords /\ NoteOf(note, t) /\ note.cpu = c
      /\ note.time = time /\ note.named
  BY <1>3 DEF Note, NoteOf, KernelRecords
<1>6. /\ event \in KernelRecords /\ IsEvent(event) /\ event.pid = t
      /\ event.cpu = c /\ event.time = time /\ event.seq = sequence[c] + 1
      /\ event.named = (t \in named')
  <2>1. (t \in named') \in BOOLEAN
    OBVIOUS
  <2> QED BY <1>3, <1>4, <2>1 DEF EventRecord, IsEvent, KernelRecords
<1>7. Len(<<note, event>>) = 2 /\ <<note, event>>[2].time = time
      /\ Len(<<event>>) = 1 /\ <<event>>[1].time = time /\ Len(<<note>>) = 1
      /\ Len(<<>>) = 0
  BY <1>6
<1> HIDE DEF note, event
<1>8. CASE new
  <2> DEFINE s == Kept(c, <<note, event>>)
  <2>1. /\ relay' = [relay EXCEPT ![c] = relay[c] \o s]
        /\ dropped' = dropped + 2 - Len(s) /\ now' = time
    BY <1>1, <1>7, <1>8 DEF Write, note, event
  <2>2. s = IF Len(relay[c]) + 2 <= Room THEN <<note, event>>
            ELSE IF Len(relay[c]) < Room THEN <<note>> ELSE <<>>
    BY KeptTwo
  <2> HIDE DEF s
  <2>3. IsNote(note, t, c) /\ IsEventOf(event, t, c)
    BY <1>5, <1>6, <2>1 DEF IsNote, IsEventOf
  <2>4. Added(t, c, s)
    <3>1. CASE Len(relay[c]) + 2 <= Room
      <4>1. s = <<note, event>> /\ Len(relay[c]) < Room
        BY <1>3, <2>2, <3>1
      <4>2. dropped' = dropped
        BY <1>3, <1>7, <2>1, <4>1
      <4>3. /\ named' = named \cup {t}
            /\ sequence' = [sequence EXCEPT ![c] = sequence[c] + 1]
        BY <1>2, <1>8, <3>1, <4>1
      <4> QED BY <1>8, <2>3, <4>1, <4>2, <4>3 DEF Added
    <3>2. CASE ~(Len(relay[c]) + 2 <= Room) /\ Len(relay[c]) < Room
      <4>1. s = <<note>>
        BY <2>2, <3>2
      <4>2. dropped' \in Nat /\ dropped' > dropped
        BY <1>3, <1>7, <2>1, <4>1
      <4>3. named' = named \cup {t} /\ sequence' = sequence
        BY <1>2, <1>4, <1>8, <3>2
      <4> QED BY <1>8, <2>3, <4>1, <4>2, <4>3 DEF Added
    <3>3. CASE ~(Len(relay[c]) + 2 <= Room) /\ ~(Len(relay[c]) < Room)
      <4>1. s = <<>>
        BY <2>2, <3>3
      <4>2. dropped' \in Nat /\ dropped' > dropped
        BY <1>3, <1>7, <2>1, <4>1
      <4>3. named' = named /\ sequence' = sequence
        BY <1>2, <1>4, <1>8, <3>3
      <4> QED BY <4>1, <4>2, <4>3 DEF Added
    <3> QED BY <3>1, <3>2, <3>3
  <2> QED BY <2>1, <2>4
<1>9. CASE ~new
  <2> DEFINE s == Kept(c, <<event>>)
  <2>1. /\ relay' = [relay EXCEPT ![c] = relay[c] \o s]
        /\ dropped' = dropped + 1 - Len(s) /\ now' = time
    BY <1>1, <1>7, <1>9 DEF Write, event
  <2>2. s = IF Len(relay[c]) + 1 <= Room THEN <<event>> ELSE <<>>
    BY KeptOne
  <2> HIDE DEF s
  <2>3. IsEventOf(event, t, c)
    BY <1>6, <2>1 DEF IsEventOf
  <2>4. Added(t, c, s)
    <3>1. CASE Len(relay[c]) + 1 <= Room
      <4>1. s = <<event>>
        BY <2>2, <3>1
      <4>2. dropped' = dropped
        BY <1>3, <1>7, <2>1, <4>1
      <4>3. /\ named' = named
            /\ sequence' = [sequence EXCEPT ![c] = sequence[c] + 1]
        BY <1>2, <1>9, <3>1, <4>1
      <4> QED BY <1>9, <2>3, <4>1, <4>2, <4>3 DEF Added
    <3>2. CASE ~(Len(relay[c]) + 1 <= Room)
      <4>1. s = <<>>
        BY <2>2, <3>2
      <4>2. dropped' \in Nat /\ dropped' > dropped
        BY <1>3, <1>7, <2>1, <4>1
      <4>3. named' = named /\ sequence' = sequence
        BY <1>2, <1>4, <1>9, <3>2
      <4> QED BY <4>1, <4>2, <4>3 DEF Added
    <3> QED BY <3>1, <3>2
  <2> QED BY <2>1, <2>4
<1> QED BY <1>8, <1>9

\* What it adds is written at the present time, with the CPU's next number.
LEMMA AddedIsWriting ==
    ASSUME KernelTypes, NEW t \in Tasks, NEW c \in Cpus, NEW s, Added(t, c, s)
    PROVE  /\ Writing(s, c, now', sequence[c] + 1)
           /\ \/ sequence' = sequence /\ \A k \in DOMAIN s : ~IsEvent(s[k])
              \/ /\ sequence' = [sequence EXCEPT ![c] = sequence[c] + 1]
                 /\ Has(s, c, sequence[c] + 1)
<1>1. CASE s = <<>> /\ sequence' = sequence
  <2>1. s \in Seq(KernelRecords) /\ \A k \in DOMAIN s : FALSE
    BY <1>1
  <2> QED BY <1>1, <2>1 DEF Writing, AllOf
<1>2. ASSUME NEW n, s = <<n>>, IsNote(n, t, c), sequence' = sequence
      PROVE  /\ Writing(s, c, now', sequence[c] + 1)
             /\ \A k \in DOMAIN s : ~IsEvent(s[k])
  <2>1. s \in Seq(KernelRecords) /\ \A k \in DOMAIN s : k = 1 /\ s[k] = n
    BY <1>2 DEF IsNote
  <2>2. ~IsEvent(n) /\ n.cpu = c /\ n.time = now'
    BY <1>2 DEF IsNote, IsEvent, NoteOf
  <2> QED BY <2>1, <2>2 DEF Writing, AllOf
<1>3. ASSUME NEW e, s = <<e>>, IsEventOf(e, t, c)
      PROVE  Writing(s, c, now', sequence[c] + 1) /\ Has(s, c, sequence[c] + 1)
  <2>1. /\ s \in Seq(KernelRecords) /\ \A k \in DOMAIN s : k = 1 /\ s[k] = e
        /\ 1 \in DOMAIN s
    BY <1>3 DEF IsEventOf
  <2>2. IsEvent(e) /\ e.cpu = c /\ e.time = now' /\ e.seq = sequence[c] + 1
    BY <1>3 DEF IsEventOf
  <2> QED BY <2>1, <2>2 DEF Writing, AllOf, Has
<1>4. ASSUME NEW n, NEW e, s = <<n, e>>, IsNote(n, t, c), IsEventOf(e, t, c)
      PROVE  Writing(s, c, now', sequence[c] + 1) /\ Has(s, c, sequence[c] + 1)
  <2>1. /\ s \in Seq(KernelRecords)
        /\ \A k \in DOMAIN s : (k = 1 /\ s[k] = n) \/ (k = 2 /\ s[k] = e)
        /\ 2 \in DOMAIN s /\ s[2] = e
    BY <1>4 DEF IsEventOf, IsNote
  <2>2. ~IsEvent(n) /\ n.cpu = c /\ n.time = now'
    BY <1>4 DEF IsNote, IsEvent, NoteOf
  <2>3. IsEvent(e) /\ e.cpu = c /\ e.time = now' /\ e.seq = sequence[c] + 1
    BY <1>4 DEF IsEventOf
  <2> QED BY <2>1, <2>2, <2>3 DEF Writing, AllOf, Has
<1> QED BY <1>1, <1>2, <1>3, <1>4 DEF Added

-----------------------------------------------------------------------------
(* Notes.                                                                  *)
\* What has been noted by a time has been noted by a later one.
LEMMA NotedLater ==
    ASSUME NEW S, S = Records \/ S = KernelRecords, NEW s \in Seq(S), NEW p,
           NEW n \in Nat, NEW m \in Nat, n <= m, Noted(s, p, n)
    PROVE  Noted(s, p, m)
<1>1. PICK j \in DOMAIN s : NoteOf(s[j], p) /\ s[j].time <= n
  BY DEF Noted
<1>2. s[j] \in S
  <2>1. DOMAIN s = 1..Len(s)
    BY LenProperties
  <2> QED BY <2>1, ElementOfSeq
<1>3. s[j].time \in Nat
  BY <1>2, RecordFields, Zenon
<1>4. s[j].time <= m
  BY <1>1, <1>3
<1> QED BY <1>1, <1>4 DEF Noted

\* What is noted in a buffer or a file stays so in a longer one.
LEMMA StillNotedAt ==
    ASSUME NEW u, NEW s, NEW t, Joins(u, s, t)
    PROVE  /\ \A k \in DOMAIN s : NotedAt(s, k) => NotedAt(u, k)
           /\ \A k \in DOMAIN t : NotedAt(t, k) => NotedAt(u, Len(s) + k)
           /\ \A k \in DOMAIN t : \A n : Noted(s, t[k].pid, n) => NotedAt(u, Len(s) + k)
<1>1. ASSUME NEW k \in DOMAIN s, NotedAt(s, k)
      PROVE  NotedAt(u, k)
  <2>1. PICK j \in DOMAIN s : j < k /\ NoteOf(s[j], s[k].pid)
    BY <1>1 DEF NotedAt
  <2>2. j \in DOMAIN u /\ u[j] = s[j] /\ u[k] = s[k]
    BY DEF Joins
  <2> QED BY <2>1, <2>2 DEF NotedAt
<1>2. ASSUME NEW k \in DOMAIN t, NotedAt(t, k)
      PROVE  NotedAt(u, Len(s) + k)
  <2>1. PICK j \in DOMAIN t : j < k /\ NoteOf(t[j], t[k].pid)
    BY <1>2 DEF NotedAt
  <2>2. /\ Len(s) + j \in DOMAIN u /\ u[Len(s) + j] = t[j] /\ u[Len(s) + k] = t[k]
        /\ Len(s) + j < Len(s) + k
    BY <2>1 DEF Joins
  <2> QED BY <2>1, <2>2 DEF NotedAt
<1>3. ASSUME NEW k \in DOMAIN t, NEW n, Noted(s, t[k].pid, n)
      PROVE  NotedAt(u, Len(s) + k)
  <2>1. PICK j \in DOMAIN s : NoteOf(s[j], t[k].pid)
    BY <1>3 DEF Noted
  <2>2. j \in DOMAIN u /\ u[j] = s[j] /\ u[Len(s) + k] = t[k] /\ j < Len(s) + k
    BY DEF Joins
  <2> QED BY <2>1, <2>2 DEF NotedAt
<1> QED BY <1>1, <1>2, <1>3

\* The notes after a write: of t on c, or of no task.
LEMMA NotesWritten ==
    ASSUME KernelTypes, NotesOK, NEW c \in Cpus, NEW s \in Seq(KernelRecords),
           relay' = [relay EXCEPT ![c] = relay[c] \o s],
           files' = files, mode' = mode, now' \in Nat, now <= now',
           \A t \in named' \ named : Noted(s, t, now'),
           \A k \in DOMAIN s : IsEvent(s[k]) /\ s[k].named =>
              \/ NotedAt(s, k)
              \/ s[k].pid \in named /\ s[k].time = now'
    PROVE  NotesOK'
<1> SUFFICES ASSUME mode = "files"
             PROVE  NamedNoted' /\ \A d \in Cpus : FileNotes(d)' /\ RelayNotes(d)'
  BY DEF NotesOK
<1>1. NamedNoted /\ \A d \in Cpus : FileNotes(d) /\ RelayNotes(d)
  BY DEF NotesOK
<1> DEFINE u == relay[c] \o s
<1>2. /\ relay \in [Cpus -> Seq(KernelRecords)] /\ files \in [Cpus -> Seq(Records)]
      /\ now \in Nat
  BY DEF KernelTypes
<1>3. Joins(u, relay[c], s)
  BY <1>2, ConcatJoins
<1>4. relay'[c] = u /\ \A d \in Cpus : d # c => relay'[d] = relay[d]
  BY <1>2
<1> HIDE DEF u
<1>5. \A d \in Cpus : \A p, n : Noted(relay[d], p, n) => Noted(relay'[d], p, n)
  BY <1>3, <1>4, EachJoined
<1>6. \A d \in Cpus : \A p, n : NotedElsewhere(files, relay, d, p, n)
                         => NotedElsewhere(files', relay', d, p, n)
  BY <1>5 DEF NotedElsewhere
<1>7. \A d \in Cpus : \A p : /\ Noted(files[d], p, now) => Noted(files[d], p, now')
                             /\ Noted(relay[d], p, now) => Noted(relay[d], p, now')
  BY <1>2, NotedLater
<1>8. NamedNoted'
  <2> SUFFICES ASSUME NEW t \in named'
               PROVE  \E d \in Cpus : Noted(files'[d], t, now') \/ Noted(relay'[d], t, now')
    BY DEF NamedNoted
  <2>1. CASE t \in named
    BY <1>1, <1>5, <1>7, <2>1 DEF NamedNoted
  <2>2. CASE t \notin named
    <3>1. Noted(s, t, now')
      BY <2>2
    <3>2. Noted(u, t, now')
      BY <1>3, <3>1, EachJoined
    <3> QED BY <1>4, <3>2
  <2> QED BY <2>1, <2>2
<1>9. ASSUME NEW d \in Cpus
      PROVE  FileNotes(d)'
  BY <1>1, <1>6 DEF FileNotes
<1>10. ASSUME NEW d \in Cpus
       PROVE  RelayNotes(d)'
  <2>1. CASE d # c
    <3>1. relay'[d] = relay[d]
      BY <1>4, <2>1
    <3> QED BY <1>1, <1>6, <3>1 DEF RelayNotes
  <2>2. CASE d = c
    <3> SUFFICES ASSUME NEW k \in DOMAIN u, IsEvent(u[k]), u[k].named
                 PROVE  \/ NotedAt(u, k)
                        \/ Noted(files[c], u[k].pid, u[k].time)
                        \/ NotedElsewhere(files', relay', c, u[k].pid, u[k].time)
      BY <1>4, <2>2 DEF RelayNotes
    <3>1. CASE k \in DOMAIN relay[c]
      <4>1. u[k] = relay[c][k]
        BY <1>3, <3>1 DEF Joins
      <4>2. \/ NotedAt(relay[c], k)
            \/ Noted(files[c], u[k].pid, u[k].time)
            \/ NotedElsewhere(files, relay, c, u[k].pid, u[k].time)
        BY <1>1, <3>1, <4>1 DEF RelayNotes
      <4>3. NotedAt(relay[c], k) => NotedAt(u, k)
        BY <1>3, <3>1, StillNotedAt
      <4> QED BY <1>6, <4>2, <4>3
    <3>2. CASE k \notin DOMAIN relay[c]
      <4>1. PICK j \in DOMAIN s : k = Len(relay[c]) + j
        BY <1>3, <3>2 DEF Joins
      <4>2. u[k] = s[j]
        BY <1>3, <4>1 DEF Joins
      <4>3. NotedAt(s, j) => NotedAt(u, k)
        BY <1>3, <4>1, StillNotedAt
      <4>4. CASE NotedAt(s, j)
        BY <4>3, <4>4
      <4>5. CASE s[j].pid \in named /\ s[j].time = now'
        <5>1. PICK e \in Cpus : \/ Noted(files[e], s[j].pid, now')
                                \/ Noted(relay[e], s[j].pid, now')
          BY <1>1, <1>7, <4>5 DEF NamedNoted
        <5>2. CASE e # c
          <6>1. NotedElsewhere(files, relay, c, s[j].pid, now')
            BY <5>1, <5>2 DEF NotedElsewhere
          <6> QED BY <6>1, <1>6, <4>2, <4>5
        <5>3. CASE e = c /\ Noted(files[c], s[j].pid, now')
          BY <5>3, <4>2, <4>5
        <5>4. CASE e = c /\ Noted(relay[c], s[j].pid, now')
          <6>1. NotedAt(u, k)
            BY <1>3, <4>1, <5>4, StillNotedAt
          <6> QED BY <6>1
        <5> QED BY <5>1, <5>2, <5>3, <5>4
      <4> QED BY <4>2, <4>4, <4>5
    <3> QED BY <3>1, <3>2
  <2> QED BY <2>1, <2>2
<1> QED BY <1>8, <1>9, <1>10

-----------------------------------------------------------------------------
(* Records that pass through blktrace.                                     *)

\* The records of v are those of u, of CPU c, whatever their state.
Copies(v, u, c) ==
    /\ v \in Seq(Records) /\ DOMAIN v = DOMAIN u /\ AllOf(u, c)
    /\ \A k \in DOMAIN u :
          /\ v[k].kind = u[k].kind /\ v[k].cpu = c /\ v[k].pid = u[k].pid
          /\ v[k].seq = u[k].seq /\ v[k].time = u[k].time /\ v[k].named = u[k].named

\* Records keep their order, numbers, names and notes when they are passed on.
LEMMA CopiesAlike ==
    ASSUME NEW v, NEW u, NEW c, Copies(v, u, c)
    PROVE  /\ InOrder(u) => InOrder(v)
           /\ \A w : AllBefore(w, u) => AllBefore(w, v)
           /\ \A n, q : AllPossible(u, n, q) => AllPossible(v, n, q)
           /\ AllNamed(u) => AllNamed(v)
           /\ AllOf(v, c)
           /\ \A d, q : Has(u, d, q) => Has(v, d, q)
           /\ \A p, n : Noted(u, p, n) => Noted(v, p, n)
           /\ \A k \in DOMAIN u : NotedAt(u, k) => NotedAt(v, k)
<1> USE DEF Copies
<1>1. InOrder(u) => InOrder(v)
  BY DEF InOrder, Before, IsEvent, AllOf
<1>2. \A w : AllBefore(w, u) => AllBefore(w, v)
  BY DEF AllBefore, Before, IsEvent, AllOf
<1>3. \A n, q : AllPossible(u, n, q) => AllPossible(v, n, q)
  BY DEF AllPossible, Possible, IsEvent, AllOf
<1>4. AllNamed(u) => AllNamed(v)
  BY DEF AllNamed
<1>5. AllOf(v, c)
  BY DEF AllOf
<1>6. \A d, q : Has(u, d, q) => Has(v, d, q)
  BY DEF Has, IsEvent, AllOf
<1>7. \A p, n : Noted(u, p, n) => Noted(v, p, n)
  BY DEF Noted, NoteOf
<1>8. \A k \in DOMAIN u : NotedAt(u, k) => NotedAt(v, k)
  BY DEF NotedAt, NoteOf
<1> QED BY <1>1, <1>2, <1>3, <1>4, <1>5, <1>6, <1>7, <1>8

\* What Transfer does.
Transferred(c, v) ==
    /\ Copies(v, relay[c], c)
    /\ relay' = [relay EXCEPT ![c] = <<>>]
    /\ \/ mode = "pipe" /\ pipe' = pipe \o v /\ files' = files
       \/ mode = "files" /\ files' = [files EXCEPT ![c] = files[c] \o v] /\ pipe' = pipe

\* blktrace passes on copies of what the buffer holds.
LEMMA TransferCopies ==
    ASSUME KernelTypes, NEW c \in Cpus, StreamOK(c),
           NEW state \in [DOMAIN relay[c] -> {"good", "version", "magic"}],
           Transfer(c, state)
    PROVE  \E v : Transferred(c, v)
<1> DEFINE u == relay[c]
           v == [k \in DOMAIN u |->
                    [kind |-> u[k].kind, cpu |-> c, pid |-> u[k].pid,
                     seq |-> u[k].seq, time |-> u[k].time, named |-> u[k].named,
                     state |-> state[k]]]
<1>1. u \in Seq(KernelRecords) /\ DOMAIN u = 1..Len(u) /\ Len(u) \in Nat
  <2>1. u \in Seq(KernelRecords)
    BY DEF KernelTypes
  <2> QED BY <2>1, LenProperties
<1>2. \A k \in DOMAIN u : u[k] \in KernelRecords
  <2> HIDE DEF u
  <2> QED BY <1>1, ElementOfSeq
<1>3. /\ relay' = [relay EXCEPT ![c] = <<>>]
      /\ IF mode = "pipe" THEN pipe' = pipe \o v /\ UNCHANGED files
         ELSE files' = [files EXCEPT ![c] = files[c] \o v] /\ UNCHANGED pipe
  BY Zenon DEF Transfer
<1>4. \A k \in DOMAIN u : v[k] \in Records
  <2> SUFFICES ASSUME NEW k \in DOMAIN u PROVE v[k] \in Records
    OBVIOUS
  <2>1. /\ u[k].kind \in {"event", "process", "message"} /\ u[k].pid \in Nat
        /\ u[k].seq \in Nat /\ u[k].time \in Nat /\ u[k].named \in BOOLEAN
    <3> HIDE DEF u
    <3> QED BY <1>2, RecordFields, Zenon
  <2>2. state[k] \in {"good", "version", "magic"}
    OBVIOUS
  <2> QED BY <2>1, <2>2 DEF Records
<1>5. v \in Seq(Records) /\ DOMAIN v = DOMAIN u
  <2>1. v = [k \in 1..Len(u) |-> v[k]]
    BY <1>1
  <2>2. v \in [1..Len(u) -> Records]
    BY <1>1, <1>4
  <2>3. v \in Seq(Records)
    <3> HIDE DEF v, u
    <3> QED BY <1>1, <2>2, SeqDef
  <2> QED BY <2>3
<1>6. Copies(v, relay[c], c)
  BY <1>5 DEF Copies, StreamOK
<1>7. mode = "pipe" \/ mode = "files"
  BY DEF KernelTypes
<1> HIDE DEF v
<1>8. Transferred(c, v)
  BY <1>3, <1>6, <1>7 DEF Transferred
<1> QED BY <1>8

\* The records of every CPU stay in order when those of one are passed on.
LEMMA StreamsTransferred ==
    ASSUME KernelTypes, \A c \in Cpus : StreamOK(c), NEW c \in Cpus, NEW v,
           Transferred(c, v), mode' = mode, now' = now, sequence' = sequence
    PROVE  \A d \in Cpus : StreamOK(d)'
<1> SUFFICES ASSUME NEW d \in Cpus PROVE StreamOK(d)'
  OBVIOUS
<1>1. relay'[c] = <<>> /\ \A e \in Cpus : e # c => relay'[e] = relay[e]
  BY DEF Transferred, KernelTypes
<1>2. /\ AllOf(<<>>, d) /\ AllPossible(<<>>, now, sequence) /\ InOrder(<<>>)
      /\ \A w : AllBefore(w, <<>>)
  BY DEF AllOf, AllPossible, InOrder, AllBefore
<1>3. \A e \in Cpus :
         /\ AllOf(relay[e], e) /\ AllOf(files[e], e)
         /\ AllPossible(relay[e], now, sequence)
         /\ AllPossible(Wire(e), now, sequence)
         /\ InOrder(Wire(e)) /\ InOrder(relay[e]) /\ AllBefore(Wire(e), relay[e])
         /\ \A q \in 1..sequence[e] : Has(Wire(e), e, q) \/ Has(relay[e], e, q)
  BY DEF StreamOK
<1>4. /\ v \in Seq(Records) /\ InOrder(v) /\ AllOf(v, c)
      /\ AllPossible(v, now, sequence) /\ AllBefore(Wire(c), v)
      /\ \A q : Has(relay[c], c, q) => Has(v, c, q)
  <2>1. Copies(v, relay[c], c)
    BY DEF Transferred
  <2>2. v \in Seq(Records)
    BY <2>1 DEF Copies
  <2> QED BY <1>3, <2>1, <2>2, CopiesAlike
<1>5. pipe \in Seq(Records) /\ files \in [Cpus -> Seq(Records)]
  BY DEF KernelTypes
<1>6. CASE d = c
  <2>1. Wire(d)' = Wire(d) \o v
    BY <1>5, <1>6 DEF Wire, Transferred
  <2>2. Wire(d) \in Seq(Records)
    BY <1>5 DEF Wire
  <2> DEFINE u == Wire(d) \o v
  <2>3. Joins(u, Wire(d), v)
    BY <1>4, <2>2, ConcatJoins
  <2> HIDE DEF u
  <2>4. InOrder(u)
    BY <1>3, <1>4, <1>6, <2>3, InOrderJoined
  <2>5. /\ AllPossible(u, now, sequence)
        /\ \A q : Has(Wire(d), d, q) \/ Has(v, d, q) => Has(u, d, q)
    BY <1>3, <1>4, <2>3, EachJoined
  <2>6. AllOf(files'[d], d)
    <3>1. CASE mode = "pipe"
      BY <1>3, <3>1 DEF Transferred
    <3>2. CASE mode = "files"
      <4>1. files'[d] = u /\ Wire(d) = files[d]
        BY <1>5, <1>6, <3>2 DEF Transferred, Wire, u
      <4>2. AllOf(u, d)
        BY <1>3, <1>4, <1>6, <2>3, <4>1, EachJoined
      <4> QED BY <4>1, <4>2
    <3> QED BY <3>1, <3>2 DEF KernelTypes
  <2>7. \A q \in 1..sequence[d] : Has(u, d, q)
    BY <1>3, <1>4, <1>6, <2>5
  <2>8. Wire(d)' = u /\ relay'[d] = <<>>
    BY <1>1, <1>6, <2>1 DEF u
  <2> QED BY <1>2, <2>4, <2>5, <2>6, <2>7, <2>8 DEF StreamOK
<1>7. CASE d # c /\ mode = "files"
  <2>1. Wire(d)' = Wire(d) /\ files'[d] = files[d] /\ relay'[d] = relay[d]
    BY <1>1, <1>5, <1>7 DEF Wire, Transferred
  <2> QED BY <1>3, <2>1 DEF StreamOK
<1>8. CASE d # c /\ mode = "pipe"
  <2> DEFINE u == pipe \o v
  <2>1. Wire(d)' = u /\ files'[d] = files[d] /\ relay'[d] = relay[d]
        /\ Wire(d) = pipe /\ Wire(c) = pipe
    BY <1>1, <1>5, <1>8 DEF Wire, Transferred
  <2>2. Joins(u, pipe, v)
    BY <1>4, <1>5, ConcatJoins
  <2> HIDE DEF u
  <2>3. InOrder(u)
    BY <1>3, <1>4, <2>1, <2>2, InOrderJoined
  <2>4. AllBefore(v, relay[d])
    BY <1>3, <1>4, <1>8 DEF AllBefore, AllOf
  <2>5. AllBefore(u, relay[d])
    BY <1>3, <2>1, <2>2, <2>4, AllBeforeJoined
  <2>6. /\ AllPossible(u, now, sequence)
        /\ \A q : Has(pipe, d, q) => Has(u, d, q)
    BY <1>3, <1>4, <2>1, <2>2, EachJoined
  <2> QED BY <1>3, <2>1, <2>3, <2>5, <2>6 DEF StreamOK
<1> QED BY <1>6, <1>7, <1>8 DEF KernelTypes

\* The notes of tasks are still there when a CPU's records are passed on.
LEMMA NotesTransferred ==
    ASSUME KernelTypes, NotesOK, \A c \in Cpus : StreamOK(c), NEW c \in Cpus,
           NEW v, Transferred(c, v), mode' = mode, now' = now, named' = named
    PROVE  NotesOK'
<1> SUFFICES ASSUME mode = "files"
             PROVE  NamedNoted' /\ \A d \in Cpus : FileNotes(d)' /\ RelayNotes(d)'
  BY DEF NotesOK
<1>1. NamedNoted /\ \A d \in Cpus : FileNotes(d) /\ RelayNotes(d)
  BY DEF NotesOK
<1> DEFINE u == files[c] \o v
<1>2. files \in [Cpus -> Seq(Records)]
  BY DEF KernelTypes
<1>3. Copies(v, relay[c], c) /\ v \in Seq(Records)
  BY DEF Transferred, Copies
<1>4. Joins(u, files[c], v)
  BY <1>2, <1>3, ConcatJoins
<1>5. /\ relay'[c] = <<>> /\ \A e \in Cpus : e # c => relay'[e] = relay[e]
      /\ files'[c] = u /\ \A e \in Cpus : e # c => files'[e] = files[e]
  BY <1>2 DEF Transferred, KernelTypes
<1> HIDE DEF u
<1>6. /\ \A p, n : Noted(relay[c], p, n) => Noted(v, p, n)
      /\ \A k \in DOMAIN v : NotedAt(relay[c], k) => NotedAt(v, k)
  <2>1. DOMAIN v = DOMAIN relay[c]
    BY <1>3 DEF Copies
  <2> QED BY <1>3, <2>1, CopiesAlike
<1>7. \A p, n : Noted(files[c], p, n) \/ Noted(v, p, n) => Noted(u, p, n)
  BY <1>4, EachJoined
<1>8. \A d \in Cpus : \A p, n : Noted(files[d], p, n) \/ Noted(relay[d], p, n)
         => Noted(files'[d], p, n) \/ Noted(relay'[d], p, n)
  BY <1>5, <1>6, <1>7
<1>9. \A d \in Cpus : \A p, n : NotedElsewhere(files, relay, d, p, n)
         => NotedElsewhere(files', relay', d, p, n)
  BY <1>8 DEF NotedElsewhere
<1>10. NamedNoted'
  BY <1>1, <1>8 DEF NamedNoted
<1>11. ASSUME NEW d \in Cpus
       PROVE  RelayNotes(d)'
  <2>1. CASE d = c
    BY <1>5, <2>1 DEF RelayNotes
  <2>2. CASE d # c
    <3>1. relay'[d] = relay[d] /\ files'[d] = files[d]
      BY <1>5, <2>2
    <3> QED BY <1>1, <1>9, <3>1 DEF RelayNotes
  <2> QED BY <2>1, <2>2
<1>12. ASSUME NEW d \in Cpus
       PROVE  FileNotes(d)'
  <2>1. CASE d # c
    <3>1. files'[d] = files[d]
      BY <1>5, <2>1
    <3> QED BY <1>1, <1>9, <3>1 DEF FileNotes
  <2>2. CASE d = c
    <3> SUFFICES ASSUME NEW k \in DOMAIN u, IsEvent(u[k]), u[k].named
                 PROVE  \/ NotedAt(u, k)
                        \/ NotedElsewhere(files', relay', c, u[k].pid, u[k].time)
      BY <1>5, <2>2 DEF FileNotes
    <3>1. CASE k \in DOMAIN files[c]
      <4>1. u[k] = files[c][k]
        BY <1>4, <3>1 DEF Joins
      <4>2. \/ NotedAt(files[c], k)
            \/ NotedElsewhere(files, relay, c, u[k].pid, u[k].time)
        BY <1>1, <3>1, <4>1 DEF FileNotes
      <4>3. NotedAt(files[c], k) => NotedAt(u, k)
        BY <1>4, <3>1, StillNotedAt
      <4> QED BY <1>9, <4>2, <4>3
    <3>2. CASE k \notin DOMAIN files[c]
      <4>1. PICK j \in DOMAIN v : k = Len(files[c]) + j
        BY <1>4, <3>2 DEF Joins
      <4>2. u[k] = v[j]
        BY <1>4, <4>1 DEF Joins
      <4>3. /\ j \in DOMAIN relay[c] /\ IsEvent(relay[c][j]) /\ relay[c][j].named
            /\ relay[c][j].pid = v[j].pid /\ relay[c][j].time = v[j].time
        BY <1>3, <4>1, <4>2 DEF Copies, IsEvent
      <4>4. \/ NotedAt(relay[c], j)
            \/ Noted(files[c], v[j].pid, v[j].time)
            \/ NotedElsewhere(files, relay, c, v[j].pid, v[j].time)
        BY <1>1, <4>3 DEF RelayNotes
      <4>5. /\ NotedAt(v, j) => NotedAt(u, k)
            /\ \A n : Noted(files[c], v[j].pid, n) => NotedAt(u, k)
        BY <1>4, <4>1, StillNotedAt
      <4> QED BY <1>6, <1>9, <4>1, <4>2, <4>4, <4>5
    <3> QED BY <3>1, <3>2
  <2> QED BY <2>1, <2>2
<1> QED BY <1>10, <1>11, <1>12

-----------------------------------------------------------------------------
(* The kernel's invariant.                                                 *)

\* A message adds a note and no event.
LEMMA MessageAdds ==
    ASSUME KernelTypes, NEW c \in Cpus, Message(c)
    PROVE  \E s : /\ relay' = [relay EXCEPT ![c] = relay[c] \o s]
                  /\ now' = now + 1 /\ dropped' \in Nat /\ dropped <= dropped'
                  /\ Writing(s, c, now', sequence[c] + 1) /\ AllNamed(s)
                  /\ \A k \in DOMAIN s : ~IsEvent(s[k])
<1> DEFINE note == Note("message", NoTask, c, now + 1)
           s == Kept(c, <<note>>)
<1>1. /\ now \in Nat /\ dropped \in Nat /\ Len(relay[c]) \in Nat
      /\ Room \in Nat \ {0}
  BY KernelEventsAssumption, LenProperties DEF KernelTypes
<1>2. /\ note \in KernelRecords /\ note.cpu = c /\ note.time = now + 1
      /\ note.named /\ ~IsEvent(note)
  BY <1>1 DEF Note, IsEvent, KernelRecords, NoTask
<1>3. Len(<<note>>) = 1 /\ <<note>>[1].time = now + 1 /\ Len(<<>>) = 0
  BY <1>2
<1>4. /\ relay' = [relay EXCEPT ![c] = relay[c] \o s]
      /\ dropped' = dropped + 1 - Len(s) /\ now' = now + 1
  BY <1>3 DEF Message, Write
<1> HIDE DEF note
<1>5. s = IF Len(relay[c]) + 1 <= Room THEN <<note>> ELSE <<>>
  BY KeptOne
<1> HIDE DEF s
<1>6. CASE s = <<note>>
  <2>1. s \in Seq(KernelRecords) /\ \A k \in DOMAIN s : k = 1 /\ s[k] = note
    BY <1>2, <1>6
  <2>2. Writing(s, c, now', sequence[c] + 1)
    BY <1>2, <1>4, <2>1 DEF Writing, AllOf
  <2>3. dropped' \in Nat /\ dropped <= dropped'
    BY <1>1, <1>3, <1>4, <1>6
  <2> QED BY <1>2, <1>4, <2>1, <2>2, <2>3 DEF AllNamed
<1>7. CASE s = <<>>
  <2>1. s \in Seq(KernelRecords) /\ \A k \in DOMAIN s : FALSE
    BY <1>7
  <2>2. Writing(s, c, now', sequence[c] + 1)
    BY <1>4, <2>1 DEF Writing, AllOf
  <2>3. dropped' \in Nat /\ dropped <= dropped'
    BY <1>1, <1>3, <1>4, <1>7
  <2> QED BY <1>4, <2>1, <2>2, <2>3 DEF AllNamed
<1> QED BY <1>5, <1>6, <1>7

\* An event of the block layer preserves the invariant.
LEMMA AddTraceInv ==
    ASSUME KernelInv, NEW t \in Tasks, NEW c \in Cpus, AddTrace(t, c), ~wireEnded,
           UNCHANGED <<pipe, files, wireEnded, mode>>
    PROVE  KernelInv'
<1>1. /\ KernelTypes /\ NamingOK /\ NotesOK /\ WireOK
      /\ \A d \in Cpus : StreamOK(d)
  BY DEF KernelInv
<1>2. PICK s : /\ relay' = [relay EXCEPT ![c] = relay[c] \o s]
               /\ now' \in {now, now + 1} /\ Added(t, c, s)
  BY <1>1, AddTraceAdds
<1>3. /\ Writing(s, c, now', sequence[c] + 1)
      /\ \/ sequence' = sequence /\ \A k \in DOMAIN s : ~IsEvent(s[k])
         \/ /\ sequence' = [sequence EXCEPT ![c] = sequence[c] + 1]
            /\ Has(s, c, sequence[c] + 1)
  BY <1>1, <1>2, AddedIsWriting
<1>4. /\ now \in Nat /\ now' \in Nat /\ now <= now' /\ now' <= now + 1
      /\ sequence \in [Cpus -> 0..events] /\ events \in 0..MaxEvents
      /\ MaxEvents \in Nat /\ now <= events + 1 /\ sequence[c] + 1 \in Nat
      /\ s \in Seq(KernelRecords) /\ dropped \in Nat
  BY <1>1, <1>2, <1>3, KernelEventsAssumption DEF KernelTypes, Writing
<1>5. events' = events + 1 /\ events < MaxEvents
      /\ btrace_seq' = [btrace_seq EXCEPT ![t] = blktrace_seq]
      /\ UNCHANGED <<trace_state, starting, blktrace_seq>>
  BY DEF AddTrace, AnotherEvent
<1>6. /\ named' \in {named, named \cup {t}}
      /\ dropped' \in Nat /\ (dropped' = 0 => dropped = 0)
  BY <1>2, <1>4 DEF Added
<1>7. KernelTypes'
  <2>1. relay' \in [Cpus -> Seq(KernelRecords)]
    <3>1. relay \in [Cpus -> Seq(KernelRecords)]
      BY <1>1 DEF KernelTypes
    <3>2. relay[c] \o s \in Seq(KernelRecords)
      BY <1>4, <3>1, ConcatProperties
    <3> QED BY <1>2, <3>1, <3>2
  <2>2. sequence' \in [Cpus -> 0..events']
    <3>1. \A d \in Cpus : sequence[d] \in 0..events + 1 /\ sequence[c] + 1 \in 0..events + 1
      BY <1>4
    <3> QED BY <1>3, <1>4, <1>5, <3>1
  <2>3. now' \in Nat /\ now' <= events' + 1 /\ events' \in 0..MaxEvents
    BY <1>4, <1>5
  <2>4. /\ trace_state' \in {"setup", "running", "stopped"} /\ starting' \in BOOLEAN
        /\ blktrace_seq' \in Nat /\ btrace_seq' \in [Tasks -> Nat]
        /\ named' \subseteq Tasks /\ pipe' \in Seq(Records)
        /\ files' \in [Cpus -> Seq(Records)] /\ wireEnded' \in BOOLEAN
        /\ mode' \in {"pipe", "files"}
    BY <1>1, <1>5, <1>6 DEF KernelTypes
  <2> QED BY <1>6, <2>1, <2>2, <2>3, <2>4 DEF KernelTypes
<1>8. \A d \in Cpus : StreamOK(d)'
  BY <1>1, <1>2, <1>3, <1>4, StreamsWritten
<1>9. dropped' = 0 =>
         /\ t \in named' /\ AllNamed(s)
  <2> SUFFICES ASSUME dropped' = 0 PROVE t \in named' /\ AllNamed(s)
    OBVIOUS
  <2>1. dropped = 0 /\ ~(dropped' > dropped)
    BY <1>4, <1>6
  <2>2. btrace_seq[t] = blktrace_seq => t \in named
    BY <1>1, <2>1 DEF NamingOK
  <2>3. CASE \E n, e : /\ s = <<n, e>> /\ IsNote(n, t, c) /\ IsEventOf(e, t, c)
                       /\ named' = named \cup {t}
    <3>1. PICK n, e : /\ s = <<n, e>> /\ IsNote(n, t, c) /\ IsEventOf(e, t, c)
                      /\ named' = named \cup {t}
      BY <2>3
    <3>2. n.named /\ e.named
      BY <3>1 DEF IsNote, IsEventOf
    <3>3. \A k \in DOMAIN s : s[k] = n \/ s[k] = e
      BY <3>1
    <3> QED BY <3>1, <3>2, <3>3 DEF AllNamed
  <2>4. CASE \E e : s = <<e>> /\ IsEventOf(e, t, c) /\ t \in named'
    <3>1. PICK e : s = <<e>> /\ IsEventOf(e, t, c) /\ t \in named'
      BY <2>4
    <3>2. e.named
      BY <3>1 DEF IsEventOf
    <3>3. \A k \in DOMAIN s : s[k] = e
      BY <3>1
    <3> QED BY <3>1, <3>2, <3>3 DEF AllNamed
  <2> QED BY <1>2, <2>1, <2>2, <2>3, <2>4 DEF Added
<1>10. NamingOK'
  <2>1. \A u \in Tasks : btrace_seq'[u] <= blktrace_seq'
    <3>1. blktrace_seq \in Nat /\ btrace_seq \in [Tasks -> Nat]
      BY <1>1 DEF KernelTypes
    <3> QED BY <1>1, <1>5, <3>1 DEF NamingOK
  <2>2. ASSUME dropped' = 0
        PROVE  /\ \A u \in Tasks : btrace_seq'[u] = blktrace_seq' => u \in named'
               /\ AllNamed(pipe')
               /\ \A d \in Cpus : AllNamed(files'[d]) /\ AllNamed(relay'[d])
    <3>1. /\ \A u \in Tasks : btrace_seq[u] = blktrace_seq => u \in named
          /\ AllNamed(pipe)
          /\ \A d \in Cpus : AllNamed(files[d]) /\ AllNamed(relay[d])
      BY <1>1, <1>6, <2>2 DEF NamingOK
    <3>2. t \in named' /\ AllNamed(s)
      BY <1>9, <2>2
    <3>3. \A u \in Tasks : btrace_seq'[u] = blktrace_seq' => u \in named'
      BY <1>1, <1>5, <1>6, <3>1, <3>2 DEF KernelTypes
    <3>4. relay \in [Cpus -> Seq(KernelRecords)]
      BY <1>1 DEF KernelTypes
    <3> DEFINE u == relay[c] \o s
    <3>5. Joins(u, relay[c], s)
      BY <1>4, <3>4, ConcatJoins
    <3>6. \A d \in Cpus : relay'[d] = IF d = c THEN u ELSE relay[d]
      BY <1>2, <3>4
    <3> HIDE DEF u
    <3>7. AllNamed(u)
      BY <3>1, <3>2, <3>5, EachJoined
    <3> QED BY <3>1, <3>3, <3>6, <3>7
  <2> QED BY <2>1, <2>2 DEF NamingOK
<1>11. NotesOK'
  <2>1. \A u \in named' \ named : Noted(s, u, now')
    <3> SUFFICES ASSUME NEW u \in named' \ named PROVE Noted(s, u, now')
      OBVIOUS
    <3>1. u = t
      BY <1>6
    <3>2. \E n : /\ IsNote(n, t, c) /\ 1 \in DOMAIN s /\ s[1] = n
      BY <1>2 DEF Added
    <3>3. PICK n : IsNote(n, t, c) /\ 1 \in DOMAIN s /\ s[1] = n
      BY <3>2
    <3>4. NoteOf(n, t) /\ n.time = now'
      BY <3>3 DEF IsNote
    <3> QED BY <1>4, <3>1, <3>3, <3>4 DEF Noted
  <2>2. ASSUME NEW k \in DOMAIN s, IsEvent(s[k]), s[k].named
        PROVE  NotedAt(s, k) \/ (s[k].pid \in named /\ s[k].time = now')
    <3>1. CASE \E n, e : s = <<n, e>> /\ IsNote(n, t, c) /\ IsEventOf(e, t, c)
      <4>1. PICK n, e : s = <<n, e>> /\ IsNote(n, t, c) /\ IsEventOf(e, t, c)
        BY <3>1
      <4>2. /\ ~IsEvent(n) /\ NoteOf(n, t) /\ e.pid = t
        BY <4>1 DEF IsNote, IsEventOf, IsEvent, NoteOf
      <4>3. k = 2 /\ s[k] = e /\ 1 \in DOMAIN s /\ s[1] = n
        BY <2>2, <4>1, <4>2
      <4>4. 1 < k
        BY <4>3
      <4> QED BY <4>2, <4>3, <4>4 DEF NotedAt
    <3>2. CASE \E e : s = <<e>> /\ IsEventOf(e, t, c) /\ named' = named
      <4>1. PICK e : s = <<e>> /\ IsEventOf(e, t, c) /\ named' = named
        BY <3>2
      <4>2. s[k] = e
        BY <4>1
      <4> QED BY <2>2, <4>1, <4>2 DEF IsEventOf
    <3>3. CASE \E n : s = <<n>> /\ IsNote(n, t, c)
      BY <2>2, <3>3 DEF IsNote, NoteOf, IsEvent
    <3>4. CASE s = <<>>
      BY <3>4
    <3> QED BY <1>2, <3>1, <3>2, <3>3, <3>4 DEF Added
  <2> QED BY <1>1, <1>2, <1>4, <2>1, <2>2, NotesWritten
<1>12. WireOK'
  BY <1>1 DEF WireOK
<1> QED BY <1>7, <1>8, <1>10, <1>11, <1>12 DEF KernelInv

\* A message preserves the invariant.
LEMMA MessageInv ==
    ASSUME KernelInv, NEW c \in Cpus, Message(c), ~wireEnded,
           UNCHANGED <<pipe, files, wireEnded, mode>>
    PROVE  KernelInv'
<1>1. /\ KernelTypes /\ NamingOK /\ NotesOK /\ WireOK
      /\ \A d \in Cpus : StreamOK(d)
  BY DEF KernelInv
<1>2. PICK s : /\ relay' = [relay EXCEPT ![c] = relay[c] \o s]
               /\ now' = now + 1 /\ dropped' \in Nat /\ dropped <= dropped'
               /\ Writing(s, c, now', sequence[c] + 1) /\ AllNamed(s)
               /\ \A k \in DOMAIN s : ~IsEvent(s[k])
  BY <1>1, MessageAdds
<1>3. /\ events' = events + 1 /\ events < MaxEvents
      /\ UNCHANGED <<trace_state, starting, blktrace_seq, btrace_seq, sequence, named>>
  BY DEF Message, AnotherEvent
<1>4. /\ now \in Nat /\ now' \in Nat /\ now <= now'
      /\ sequence \in [Cpus -> 0..events] /\ events \in 0..MaxEvents
      /\ MaxEvents \in Nat /\ now <= events + 1 /\ sequence[c] + 1 \in Nat
      /\ s \in Seq(KernelRecords) /\ dropped \in Nat
      /\ relay \in [Cpus -> Seq(KernelRecords)]
  BY <1>1, <1>2, KernelEventsAssumption DEF KernelTypes, Writing
<1> DEFINE u == relay[c] \o s
<1>5. Joins(u, relay[c], s)
  BY <1>4, ConcatJoins
<1>6. \A d \in Cpus : relay'[d] = IF d = c THEN u ELSE relay[d]
  BY <1>2, <1>4
<1>7. KernelTypes'
  <2>1. relay' \in [Cpus -> Seq(KernelRecords)]
    <3>1. relay[c] \o s \in Seq(KernelRecords)
      BY <1>4, ConcatProperties
    <3> QED BY <1>2, <1>4, <3>1
  <2>2. sequence' \in [Cpus -> 0..events']
    <3>1. \A d \in Cpus : sequence[d] \in 0..events + 1
      BY <1>4
    <3> QED BY <1>3, <1>4, <3>1
  <2>3. now' \in Nat /\ now' <= events' + 1 /\ events' \in 0..MaxEvents
    BY <1>2, <1>3, <1>4
  <2>4. /\ trace_state' \in {"setup", "running", "stopped"} /\ starting' \in BOOLEAN
        /\ blktrace_seq' \in Nat /\ btrace_seq' \in [Tasks -> Nat]
        /\ named' \subseteq Tasks /\ pipe' \in Seq(Records)
        /\ files' \in [Cpus -> Seq(Records)] /\ wireEnded' \in BOOLEAN
        /\ mode' \in {"pipe", "files"}
    BY <1>1, <1>3 DEF KernelTypes
  <2> QED BY <1>2, <2>1, <2>2, <2>3, <2>4 DEF KernelTypes
<1> HIDE DEF u
<1>8. \A d \in Cpus : StreamOK(d)'
  BY <1>1, <1>2, <1>3, <1>4, StreamsWritten
<1>9. NamingOK'
  <2>1. dropped' = 0 => dropped = 0
    BY <1>2, <1>4
  <2>2. AllNamed(relay[c]) => AllNamed(u)
    BY <1>2, <1>5, EachJoined
  <2> QED BY <1>1, <1>3, <1>6, <2>1, <2>2 DEF NamingOK
<1>10. NotesOK'
  BY <1>1, <1>2, <1>3, <1>4, NotesWritten
<1>11. WireOK'
  BY <1>1 DEF WireOK
<1> QED BY <1>7, <1>8, <1>9, <1>10, <1>11 DEF KernelInv

\* Passing records on preserves the invariant.
LEMMA TransferInv ==
    ASSUME KernelInv, NEW c \in Cpus,
           NEW state \in [DOMAIN relay[c] -> {"good", "version", "magic"}],
           Transfer(c, state)
    PROVE  KernelInv'
<1>1. /\ KernelTypes /\ NamingOK /\ NotesOK /\ WireOK
      /\ \A d \in Cpus : StreamOK(d)
  BY DEF KernelInv
<1>2. PICK v : Transferred(c, v)
  BY <1>1, TransferCopies
<1>3. /\ ~wireEnded /\ UNCHANGED <<wireEnded, mode, trace_state, starting, blktrace_seq,
            btrace_seq, sequence, dropped, now, events, named>>
  BY DEF Transfer, blkparse
<1>4. /\ Copies(v, relay[c], c) /\ v \in Seq(Records)
      /\ relay' = [relay EXCEPT ![c] = <<>>]
      /\ \/ mode = "pipe" /\ pipe' = pipe \o v /\ files' = files
         \/ /\ mode = "files" /\ files' = [files EXCEPT ![c] = files[c] \o v]
            /\ pipe' = pipe
  BY <1>2 DEF Transferred, Copies
<1>5. /\ relay \in [Cpus -> Seq(KernelRecords)] /\ pipe \in Seq(Records)
      /\ files \in [Cpus -> Seq(Records)]
  BY <1>1 DEF KernelTypes
<1>6. KernelTypes'
  <2>1. relay' \in [Cpus -> Seq(KernelRecords)]
    BY <1>4, <1>5
  <2>2. pipe \o v \in Seq(Records) /\ files[c] \o v \in Seq(Records)
    BY <1>4, <1>5, ConcatProperties
  <2>3. pipe' \in Seq(Records) /\ files' \in [Cpus -> Seq(Records)]
    BY <1>4, <1>5, <2>2
  <2> QED BY <1>1, <1>3, <2>1, <2>3 DEF KernelTypes
<1>7. \A d \in Cpus : StreamOK(d)'
  BY <1>1, <1>2, <1>3, StreamsTransferred
<1>8. NotesOK'
  BY <1>1, <1>2, <1>3, NotesTransferred
<1>9. NamingOK'
  <2>1. ASSUME dropped = 0
        PROVE  /\ AllNamed(pipe')
               /\ \A d \in Cpus : AllNamed(files'[d]) /\ AllNamed(relay'[d])
    <3>1. /\ AllNamed(pipe)
          /\ \A d \in Cpus : AllNamed(files[d]) /\ AllNamed(relay[d])
      BY <1>1, <2>1 DEF NamingOK
    <3>2. AllNamed(v)
      BY <1>4, <3>1, CopiesAlike
    <3>3. Joins(pipe \o v, pipe, v) /\ Joins(files[c] \o v, files[c], v)
      BY <1>4, <1>5, ConcatJoins
    <3>4. AllNamed(pipe \o v) /\ AllNamed(files[c] \o v)
      BY <3>1, <3>2, <3>3, EachJoined
    <3>5. \A d \in Cpus : AllNamed(relay'[d])
      <4>1. AllNamed(<<>>)
        BY DEF AllNamed
      <4>2. \A d \in Cpus : relay'[d] = IF d = c THEN <<>> ELSE relay[d]
        BY <1>4, <1>5
      <4> QED BY <3>1, <4>1, <4>2
    <3>6. AllNamed(pipe') /\ \A d \in Cpus : AllNamed(files'[d])
      <4>1. mode = "files" => \A d \in Cpus :
               files'[d] = IF d = c THEN files[c] \o v ELSE files[d]
        BY <1>4, <1>5
      <4> QED BY <1>4, <3>1, <3>4, <4>1
    <3> QED BY <3>5, <3>6
  <2> QED BY <1>1, <1>3, <2>1 DEF NamingOK
<1>10. WireOK'
  BY <1>1, <1>3, <1>4 DEF WireOK
<1> QED BY <1>6, <1>7, <1>8, <1>9, <1>10 DEF KernelInv

\* blkparse does not change what it reads.
LEMMA ParsingOnlyReads ==
    ParseStep \/ Interrupt => UNCHANGED <<pipe, files, mode, stopwatch>>
<1>1. \A k : ReadBatch(k) => UNCHANGED <<pipe, files, mode, stopwatch>>
  BY Zenon DEF ReadBatch
<1>2. ShowFirst \/ ShowNoMore \/ GiveUpPipe => UNCHANGED <<pipe, files, mode, stopwatch>>
  BY Zenon DEF ShowFirst, ShowNoMore, GiveUpPipe
<1>3. \A c : SetupFile(c) \/ Handle(c) => UNCHANGED <<pipe, files, mode, stopwatch>>
  BY Zenon DEF SetupFile, Handle
<1>4. Merge \/ MergeEnds \/ StartParsing \/ Interrupt
         => UNCHANGED <<pipe, files, mode, stopwatch>>
  BY Zenon DEF Merge, MergeEnds, StartParsing, Interrupt
<1> QED BY <1>1, <1>2, <1>3, <1>4, Zenon DEF ParseStep

\* The invariant holds at first.
LEMMA KernelInvInit == Init => KernelInv
<1> SUFFICES ASSUME Init PROVE KernelInv
  OBVIOUS
<1>1. /\ trace_state = "setup" /\ starting = FALSE
      /\ blktrace_seq = 1 /\ btrace_seq = [t \in Tasks |-> 0]
      /\ sequence = [c \in Cpus |-> 0] /\ relay = [c \in Cpus |-> <<>>]
      /\ dropped = 0 /\ now = 1 /\ events = 0 /\ named = {}
  BY DEF Init, KernelInit
<1>2. /\ pipe = <<>> /\ files = [c \in Cpus |-> <<>>] /\ wireEnded = FALSE
      /\ mode \in {"pipe", "files"}
  BY BlkparseAssumption, LiveTraceAssumption DEF Init, BlkparseInit
<1>3. \A c \in Cpus : relay[c] = <<>> /\ files[c] = <<>> /\ Wire(c) = <<>>
                      /\ sequence[c] = 0
  BY <1>1, <1>2 DEF Wire
<1>4. KernelTypes
  <2>1. MaxEvents \in Nat
    BY KernelEventsAssumption
  <2>2. <<>> \in Seq(KernelRecords) /\ <<>> \in Seq(Records)
    OBVIOUS
  <2>3. relay \in [Cpus -> Seq(KernelRecords)] /\ files \in [Cpus -> Seq(Records)]
        /\ pipe \in Seq(Records)
    BY <1>1, <1>2, <2>2
  <2>4. sequence \in [Cpus -> 0..events] /\ btrace_seq \in [Tasks -> Nat]
        /\ events \in 0..MaxEvents /\ now \in Nat /\ now <= events + 1
        /\ blktrace_seq \in Nat /\ dropped \in Nat
    BY <1>1, <2>1
  <2> QED BY <1>1, <1>2, <2>3, <2>4 DEF KernelTypes
<1>5. NamingOK
  BY <1>1, <1>2, <1>3 DEF NamingOK, AllNamed
<1>6. ASSUME NEW c \in Cpus
      PROVE  StreamOK(c)
  <2>1. \A w, n, q : /\ AllOf(<<>>, w) /\ AllPossible(<<>>, n, q)
                     /\ InOrder(<<>>) /\ AllBefore(w, <<>>)
    BY DEF AllOf, AllPossible, InOrder, AllBefore
  <2>2. \A q \in 1..sequence[c] : FALSE
    BY <1>3
  <2> QED BY <1>3, <2>1, <2>2 DEF StreamOK
<1>7. NotesOK
  BY <1>1, <1>3 DEF NotesOK, NamedNoted, FileNotes, RelayNotes
<1>8. WireOK
  BY <1>2, <1>3 DEF WireOK
<1> QED BY <1>4, <1>5, <1>6, <1>7, <1>8 DEF KernelInv

\* Steps that leave the records alone.
LEMMA KernelInvSame ==
    ASSUME KernelInv, KernelTypes', WireOK',
           UNCHANGED <<sequence, relay, now, pipe, files, mode, dropped, btrace_seq>>,
           named' \subseteq named,
           \/ named' = named /\ blktrace_seq' = blktrace_seq
           \/ blktrace_seq' = blktrace_seq + 1
    PROVE  KernelInv'
<1>1. /\ KernelTypes /\ NamingOK /\ NotesOK /\ WireOK
      /\ \A d \in Cpus : StreamOK(d)
  BY DEF KernelInv
<1>2. \A d \in Cpus : StreamOK(d)'
  BY <1>1 DEF StreamOK, Wire
<1>3. NamingOK'
  <2>1. blktrace_seq \in Nat /\ btrace_seq \in [Tasks -> Nat]
    BY <1>1 DEF KernelTypes
  <2>2. \A t \in Tasks : btrace_seq'[t] <= blktrace_seq'
    BY <1>1, <2>1 DEF NamingOK
  <2>3. \A t \in Tasks : btrace_seq'[t] = blktrace_seq' =>
           btrace_seq[t] = blktrace_seq /\ named' = named
    BY <1>1, <2>1 DEF NamingOK
  <2> QED BY <1>1, <2>2, <2>3 DEF NamingOK
<1>4. NotesOK'
  <2>1. mode = "files" => NamedNoted'
    BY <1>1 DEF NotesOK, NamedNoted
  <2>2. mode = "files" => \A c \in Cpus : FileNotes(c)' /\ RelayNotes(c)'
    BY <1>1 DEF NotesOK, FileNotes, RelayNotes
  <2> QED BY <2>1, <2>2 DEF NotesOK
<1> QED BY <1>2, <1>3, <1>4 DEF KernelInv

\* Every step preserves it.
LEMMA KernelInvStep == KernelInv /\ [Next]_vars => KernelInv'
<1> SUFFICES ASSUME KernelInv, [Next]_vars
             PROVE  KernelInv'
  OBVIOUS
<1>1. KernelTypes /\ WireOK
  BY DEF KernelInv
<1>2. ASSUME ~wireEnded, KernelNext, UNCHANGED <<pipe, files, wireEnded, blkparse>>
      PROVE  KernelInv'
  <2>1. UNCHANGED <<pipe, files, wireEnded, mode>>
    BY <1>2 DEF blkparse
  <2>2. ASSUME NEW t \in Tasks, NEW c \in Cpus, AddTrace(t, c)
        PROVE  KernelInv'
    BY <1>2, <2>1, <2>2, AddTraceInv
  <2>3. ASSUME NEW c \in Cpus, Message(c)
        PROVE  KernelInv'
    BY <1>2, <2>1, <2>3, MessageInv
  <2>4. CASE Start
    <3>1. /\ blktrace_seq' = blktrace_seq + 1 /\ named' = {} /\ starting' = TRUE
          /\ events < MaxEvents /\ events' = events + 1
          /\ UNCHANGED <<trace_state, btrace_seq, sequence, relay, dropped, now>>
      BY <2>4 DEF Start, AnotherEvent
    <3>2. KernelTypes'
      <4>1. events \in 0..MaxEvents /\ MaxEvents \in Nat /\ now \in Nat
            /\ now <= events + 1 /\ sequence \in [Cpus -> 0..events]
            /\ blktrace_seq \in Nat
        BY <1>1, KernelEventsAssumption DEF KernelTypes
      <4>2. events' \in 0..MaxEvents /\ now' <= events' + 1 /\ blktrace_seq' \in Nat
            /\ 0..events \subseteq 0..events'
        BY <3>1, <4>1
      <4>3. sequence' \in [Cpus -> 0..events']
        BY <3>1, <4>1, <4>2
      <4> QED BY <1>1, <2>1, <3>1, <4>2, <4>3 DEF KernelTypes
    <3>3. WireOK'
      BY <1>1, <2>1, <3>1 DEF WireOK
    <3> QED BY <2>1, <3>1, <3>2, <3>3, KernelInvSame
  <2>5. CASE Run \/ Stop
    <3>1. /\ trace_state' \in {"running", "stopped"} /\ starting' \in {FALSE, starting}
          /\ UNCHANGED <<blktrace_seq, btrace_seq, sequence, relay, dropped, now,
                         events, named>>
      BY <2>5 DEF Run, Stop
    <3>2. KernelTypes' /\ WireOK'
      BY <1>1, <2>1, <3>1 DEF KernelTypes, WireOK
    <3> QED BY <2>1, <3>1, <3>2, KernelInvSame
  <2> QED BY <1>2, <2>2, <2>3, <2>4, <2>5 DEF KernelNext
<1>3. ASSUME NEW c \in Cpus,
             NEW state \in [DOMAIN relay[c] -> {"good", "version", "magic"}],
             Transfer(c, state)
      PROVE  KernelInv'
  BY <1>3, TransferInv
<1>4. CASE EndWire
  <2>1. /\ wireEnded' = TRUE /\ \A c \in Cpus : relay[c] = <<>>
        /\ UNCHANGED <<kernel, pipe, files, blkparse>>
    BY <1>4 DEF EndWire
  <2>2. KernelTypes' /\ WireOK'
    BY <1>1, <2>1 DEF KernelTypes, WireOK, kernel, blkparse
  <2> QED BY <2>1, <2>2, KernelInvSame DEF kernel, blkparse
<1>5. ASSUME ParseStep \/ Interrupt, UNCHANGED <<kernel, wireEnded>>
      PROVE  KernelInv'
  <2>1. UNCHANGED <<pipe, files, mode>>
    BY <1>5, ParsingOnlyReads
  <2>2. KernelTypes' /\ WireOK'
    BY <1>1, <1>5, <2>1 DEF KernelTypes, WireOK, kernel
  <2> QED BY <1>5, <2>1, <2>2, KernelInvSame DEF kernel
<1>6. CASE UNCHANGED vars
  <2>1. UNCHANGED <<kernel, wireEnded, pipe, files, mode>>
    BY <1>6 DEF vars, blkparse
  <2>2. KernelTypes' /\ WireOK'
    BY <1>1, <2>1 DEF KernelTypes, WireOK, kernel
  <2> QED BY <2>1, <2>2, KernelInvSame DEF kernel
<1> QED BY <1>2, <1>3, <1>4, <1>5, <1>6 DEF Next

\* The kernel's part of the trace, up to where blkparse reads it.
THEOREM KernelInvariant == Spec => []KernelInv
<1>1. Init => KernelInv
  BY KernelInvInit
<1>2. KernelInv /\ [Next]_vars => KernelInv'
  BY KernelInvStep
<1> QED BY <1>1, <1>2, PTL DEF Spec

\* Until a record is refused, the task of every event has been named (TasksNamed).
LEMMA KernelNamesTasks == KernelInv => TasksNamed
<1> SUFFICES ASSUME KernelInv, dropped = 0
             PROVE  /\ \A r \in Arrived : r.named
                    /\ \A c \in Cpus : \A k \in DOMAIN relay[c] : relay[c][k].named
  BY DEF TasksNamed
<1>1. /\ AllNamed(pipe)
      /\ \A c \in Cpus : AllNamed(files[c]) /\ AllNamed(relay[c])
  BY DEF KernelInv, NamingOK
<1> QED BY <1>1 DEF Arrived, AllNamed

-----------------------------------------------------------------------------
(* Insertion into a sequence.                                              *)

\* t is s with x behind its first n elements.
InsertedAt(t, S, s, x, n) ==
    /\ t \in Seq(S) /\ Len(s) \in Nat /\ n \in 0..Len(s) /\ Len(t) = Len(s) + 1
    /\ DOMAIN s = 1..Len(s) /\ DOMAIN t = 1..Len(t)
    /\ \A k \in 1..n : t[k] = s[k]
    /\ t[n + 1] = x
    /\ \A k \in n + 1..Len(s) : t[k + 1] = s[k]

\* To split a sequence and put an element in between is to insert it.
LEMMA SplitInserts ==
    ASSUME NEW S, NEW s \in Seq(S), NEW x \in S, NEW n \in 0..Len(s)
    PROVE  InsertedAt(SubSeq(s, 1, n) \o <<x>> \o SubSeq(s, n + 1, Len(s)), S, s, x, n)
<1> DEFINE u == SubSeq(s, 1, n)
           w == SubSeq(s, n + 1, Len(s))
           v == u \o <<x>>
           t == v \o w
           L == Len(s)
<1>1. /\ L \in Nat /\ n \in Nat /\ n <= L /\ DOMAIN s = 1..L
      /\ \A i \in 1..L : s[i] \in S
  BY LenProperties, ElementOfSeq
<1>2. u \in Seq(S) /\ Len(u) = n /\ \A i \in 1..n : u[i] = s[i]
  <2>1. \A i \in 1..n : s[i] \in S
    BY <1>1
  <2>2. /\ u \in Seq(S)
        /\ Len(u) = IF 1 <= n THEN n - 1 + 1 ELSE 0
        /\ \A i \in 1..n - 1 + 1 : u[i] = s[1 + i - 1]
    BY <1>1, <2>1, SubSeqProperties
  <2>3. n - 1 + 1 = n /\ \A i \in 1..n : 1 + i - 1 = i
    BY <1>1
  <2>4. Len(u) = n
    <3> HIDE DEF u
    <3> QED BY <1>1, <2>2
  <2> HIDE DEF u
  <2> QED BY <2>2, <2>3, <2>4
<1>3. w \in Seq(S) /\ Len(w) = L - n /\ \A i \in 1..L - n : w[i] = s[n + i]
  <2>1. \A i \in n + 1..L : s[i] \in S
    BY <1>1
  <2>2. /\ w \in Seq(S)
        /\ Len(w) = IF n + 1 <= L THEN L - (n + 1) + 1 ELSE 0
        /\ \A i \in 1..L - (n + 1) + 1 : w[i] = s[n + 1 + i - 1]
    BY <1>1, <2>1, SubSeqProperties
  <2>3. L - (n + 1) + 1 = L - n /\ \A i \in 1..L - n : n + 1 + i - 1 = n + i
    BY <1>1
  <2>4. Len(w) = L - n
    <3> HIDE DEF w, L
    <3> QED BY <1>1, <2>2
  <2> HIDE DEF w, L
  <2> QED BY <2>2, <2>3, <2>4
<1> HIDE DEF u, w, L
<1>4. <<x>> \in Seq(S) /\ Len(<<x>>) = 1 /\ <<x>>[1] = x
  OBVIOUS
<1>5. /\ v \in Seq(S) /\ Len(v) = n + 1
      /\ \A i \in 1..n + 1 : v[i] = IF i <= n THEN u[i] ELSE <<x>>[i - n]
  BY <1>2, <1>4, ConcatProperties
<1> HIDE DEF v
<1>6. /\ t \in Seq(S) /\ Len(t) = (n + 1) + (L - n)
      /\ \A i \in 1..(n + 1) + (L - n) : t[i] = IF i <= n + 1 THEN v[i] ELSE w[i - (n + 1)]
  <2>1. \A a, b \in Seq(S) :
           /\ a \o b \in Seq(S) /\ Len(a \o b) = Len(a) + Len(b)
           /\ \A i \in 1..Len(a) + Len(b) :
                 (a \o b)[i] = IF i <= Len(a) THEN a[i] ELSE b[i - Len(a)]
    BY ConcatProperties
  <2>2. /\ t \in Seq(S) /\ Len(t) = Len(v) + Len(w)
        /\ \A i \in 1..Len(v) + Len(w) :
              t[i] = IF i <= Len(v) THEN v[i] ELSE w[i - Len(v)]
    BY <1>3, <1>5, <2>1, Zenon
  <2>3. Len(v) = n + 1 /\ Len(w) = L - n
    BY <1>3, <1>5
  <2> HIDE DEF t
  <2> QED BY <2>2, <2>3
<1>7. DOMAIN t = 1..Len(t)
  BY <1>6, LenProperties
<1> HIDE DEF t
<1>8. Len(t) = L + 1
  BY <1>1, <1>6
<1>9. ASSUME NEW k \in 1..n
      PROVE  t[k] = s[k]
  <2>1. k \in 1..n + 1 /\ k <= n /\ k <= n + 1 /\ k \in 1..(n + 1) + (L - n)
    BY <1>1
  <2> QED BY <1>2, <1>5, <1>6, <2>1
<1>10. t[n + 1] = x
  <2>1. n + 1 \in 1..n + 1 /\ ~(n + 1 <= n) /\ (n + 1) - n = 1
        /\ n + 1 \in 1..(n + 1) + (L - n)
    BY <1>1
  <2> QED BY <1>4, <1>5, <1>6, <2>1
<1>11. ASSUME NEW k \in n + 1..L
       PROVE  t[k + 1] = s[k]
  <2>1. k + 1 \in 1..(n + 1) + (L - n) /\ ~(k + 1 <= n + 1)
        /\ (k + 1) - (n + 1) = k - n /\ k - n \in 1..L - n /\ n + (k - n) = k
    BY <1>1
  <2> QED BY <1>3, <1>6, <2>1
<1>12. InsertedAt(t, S, s, x, n)
  BY <1>1, <1>6, <1>7, <1>8, <1>9, <1>10, <1>11 DEF InsertedAt, L
<1> QED BY <1>12 DEF t, v, u, w, L

\* Each element of t is x or one of s, in the same order; and each of s is there.
LEMMA InsertedElements ==
    ASSUME NEW S, NEW s, NEW t, NEW x, NEW n, InsertedAt(t, S, s, x, n)
    PROVE  /\ n + 1 \in DOMAIN t /\ t[n + 1] = x
           /\ \A k \in DOMAIN t : k # n + 1 => \E j \in DOMAIN s :
                 /\ t[k] = s[j]
                 /\ (k <= n /\ j = k) \/ (k > n + 1 /\ k = j + 1)
           /\ \A j \in DOMAIN s : \E k \in DOMAIN t : t[k] = s[j]
<1>1. n + 1 \in DOMAIN t /\ t[n + 1] = x
  BY DEF InsertedAt
<1>2. ASSUME NEW k \in DOMAIN t, k # n + 1
      PROVE  \E j \in DOMAIN s : /\ t[k] = s[j]
                                 /\ (k <= n /\ j = k) \/ (k > n + 1 /\ k = j + 1)
  <2>1. CASE k <= n
    <3>1. k \in DOMAIN s /\ t[k] = s[k]
      BY <2>1 DEF InsertedAt
    <3> QED BY <2>1, <3>1
  <2>2. CASE ~(k <= n)
    <3>1. k - 1 \in DOMAIN s /\ k - 1 \in n + 1..Len(s) /\ (k - 1) + 1 = k /\ k > n + 1
      BY <1>2, <2>2 DEF InsertedAt
    <3>2. t[k] = s[k - 1]
      BY <3>1 DEF InsertedAt
    <3> QED BY <3>1, <3>2
  <2> QED BY <2>1, <2>2
<1>3. ASSUME NEW j \in DOMAIN s
      PROVE  \E k \in DOMAIN t : t[k] = s[j]
  <2>1. CASE j <= n
    <3>1. j \in DOMAIN t /\ t[j] = s[j]
      BY <2>1 DEF InsertedAt
    <3> QED BY <3>1
  <2>2. CASE ~(j <= n)
    <3>1. j \in n + 1..Len(s) /\ j + 1 \in DOMAIN t
      BY <2>2 DEF InsertedAt
    <3> QED BY <3>1 DEF InsertedAt
  <2> QED BY <2>1, <2>2
<1> QED BY <1>1, <1>2, <1>3
-----------------------------------------------------------------------------
(* The tree.                                                               *)

\* r is not the same event as one of s.
NewTo(s, r) ==
    \A j \in DOMAIN s : IsEvent(s[j]) /\ IsEvent(r) /\ s[j].cpu = r.cpu
                        => s[j].seq # r.seq

\* A record's place behind those that are not later.
LEMMA InsertedPlace ==
    ASSUME NEW s \in Seq(Records), NEW r \in Records, Ordered(s)
    PROVE  \E n \in 0..Len(s) :
              /\ InsertedAt(Inserted(s, r), Records, s, r, n)
              /\ \A k \in 1..n : ~Later(s[k], r)
              /\ \A k \in n + 1..Len(s) : Later(s[k], r)
<1> DEFINE D == {k \in DOMAIN s : ~Later(s[k], r)}
           L == Len(s)
           T == {k \in 1..L + 1 : k \notin D}
<1>1. L \in Nat /\ DOMAIN s = 1..L /\ \A k \in 1..L : s[k] \in Records
  BY LenProperties, ElementOfSeq
<1>2. PICK m \in T : \A y \in T : ~(y < m)
  <2>1. L + 1 \in T /\ T \subseteq Nat
    BY <1>1
  <2> HIDE DEF T
  <2> QED BY <2>1, LeastOf
<1>3. ASSUME NEW j \in 1..L, NEW k \in 1..L, j < k, k \in D
      PROVE  j \in D
  <2>1. /\ s[j].time \in Nat /\ s[k].time \in Nat /\ r.time \in Nat
        /\ s[j].seq \in Nat /\ s[k].seq \in Nat /\ r.seq \in Nat
    BY <1>1, RecordFields
  <2>2. ~Later(s[j], s[k]) /\ ~Later(s[k], r)
    BY <1>1, <1>3 DEF Ordered
  <2>3. ~Later(s[j], r)
    BY <2>1, <2>2 DEF Later
  <2> QED BY <1>1, <2>3
<1>4. \A k \in 1..L : k \in D <=> k <= m - 1
  <2> SUFFICES ASSUME NEW k \in 1..L PROVE k \in D <=> k <= m - 1
    OBVIOUS
  <2>1. m \in 1..L + 1 /\ m \notin D
    BY <1>2
  <2>2. ASSUME k <= m - 1 PROVE k \in D
    <3>1. k < m /\ k \in 1..L + 1
      BY <1>1, <2>1, <2>2
    <3> QED BY <1>2, <3>1
  <2>3. ASSUME k \in D, ~(k <= m - 1) PROVE FALSE
    <3>1. m < k \/ m = k
      BY <2>1, <2>3
    <3>2. CASE m < k
      <4>1. m \in 1..L
        BY <1>1, <2>1, <3>2
      <4> HIDE DEF D
      <4> QED BY <1>3, <2>1, <2>3, <3>2, <4>1
    <3> QED BY <2>1, <2>3, <3>1, <3>2
  <2> QED BY <2>2, <2>3
<1>5. m - 1 \in 0..L /\ D = 1..m - 1
  <2>1. m \in 1..L + 1
    BY <1>2
  <2>2. D \subseteq 1..L
    BY <1>1
  <2>3. 1..m - 1 \subseteq 1..L
    BY <1>1, <2>1
  <2> HIDE DEF D
  <2>4. \A k \in D : k \in 1..m - 1
    <3> SUFFICES ASSUME NEW k \in D PROVE k \in 1..m - 1
      OBVIOUS
    <3>1. k \in 1..L /\ k <= m - 1
      BY <1>4, <2>2
    <3> QED BY <1>1, <2>1, <3>1
  <2>5. \A k \in 1..m - 1 : k \in D
    <3> SUFFICES ASSUME NEW k \in 1..m - 1 PROVE k \in D
      OBVIOUS
    <3>1. k \in 1..L /\ k <= m - 1
      BY <2>1, <2>3
    <3> QED BY <1>4, <3>1
  <2>6. D = 1..m - 1
    BY <2>4, <2>5, Zenon
  <2>7. m - 1 \in 0..L
    BY <1>1, <2>1
  <2> QED BY <2>6, <2>7
<1>6. Cardinality(D) = m - 1
  <2>1. Cardinality(1..m - 1) = m - 1
    <3>1. \A a, b \in Int : Cardinality(a..b) = IF a > b THEN 0 ELSE b - a + 1
      BY FS_Interval
    <3>2. m - 1 \in Int
      BY <1>5
    <3> QED BY <1>1, <1>5, <3>1, <3>2
  <2> QED BY <1>5, <2>1
<1>7. Inserted(s, r) = SubSeq(s, 1, m - 1) \o <<r>> \o SubSeq(s, m - 1 + 1, Len(s))
  BY <1>6 DEF Inserted
<1>8. InsertedAt(Inserted(s, r), Records, s, r, m - 1)
  BY <1>5, <1>7, SplitInserts
<1>9. \A k \in 1..m - 1 : ~Later(s[k], r)
  BY <1>5
<1>10. \A k \in (m - 1) + 1..Len(s) : Later(s[k], r)
  <2> SUFFICES ASSUME NEW k \in (m - 1) + 1..L PROVE Later(s[k], r)
    OBVIOUS
  <2>1. k \in 1..L /\ ~(k <= m - 1)
    BY <1>5, <1>1
  <2>2. k \notin D
    <3> HIDE DEF D
    <3> QED BY <1>4, <2>1
  <2> QED BY <1>1, <2>1, <2>2
<1> QED BY <1>5, <1>8, <1>9, <1>10

\* A record inserted into the tree leaves it in order and adds nothing else.
LEMMA InsertedTree ==
    ASSUME NEW s \in Seq(Records), NEW r \in Records, Ordered(s)
    PROVE  /\ Inserted(s, r) \in Seq(Records) /\ Ordered(Inserted(s, r))
           /\ \E k \in DOMAIN Inserted(s, r) : Inserted(s, r)[k] = r
           /\ \A j \in DOMAIN s : \E k \in DOMAIN Inserted(s, r) : Inserted(s, r)[k] = s[j]
           /\ \A k \in DOMAIN Inserted(s, r) :
                 Inserted(s, r)[k] = r \/ \E j \in DOMAIN s : Inserted(s, r)[k] = s[j]
           /\ Distinct(s) /\ NewTo(s, r) => Distinct(Inserted(s, r))
<1> DEFINE t == Inserted(s, r)
<1>1. PICK n \in 0..Len(s) :
         /\ InsertedAt(t, Records, s, r, n)
         /\ \A k \in 1..n : ~Later(s[k], r)
         /\ \A k \in n + 1..Len(s) : Later(s[k], r)
  BY InsertedPlace
<1> HIDE DEF t
<1>2. /\ n + 1 \in DOMAIN t /\ t[n + 1] = r
      /\ \A k \in DOMAIN t : k # n + 1 => \E j \in DOMAIN s :
            /\ t[k] = s[j]
            /\ (k <= n /\ j = k) \/ (k > n + 1 /\ k = j + 1)
      /\ \A j \in DOMAIN s : \E k \in DOMAIN t : t[k] = s[j]
  BY <1>1, InsertedElements
<1>3. /\ t \in Seq(Records) /\ Len(s) \in Nat /\ DOMAIN s = 1..Len(s)
      /\ DOMAIN t = 1..Len(s) + 1 /\ n \in 0..Len(s)
  BY <1>1 DEF InsertedAt
<1>4. /\ \A k \in 1..Len(s) : s[k].time \in Nat /\ s[k].seq \in Nat
      /\ r.time \in Nat /\ r.seq \in Nat
  BY RecordFields, ElementOfSeq
<1>5. ASSUME NEW j \in DOMAIN t, NEW k \in DOMAIN t, j < k
      PROVE  ~Later(t[j], t[k])
  <2>1. CASE k = n + 1
    <3>1. PICK i \in DOMAIN s : t[j] = s[i] /\ i \in 1..n
      BY <1>2, <1>3, <1>5, <2>1
    <3> QED BY <1>1, <1>2, <2>1, <3>1
  <2>2. CASE j = n + 1
    <3>1. PICK i \in DOMAIN s : t[k] = s[i] /\ i \in n + 1..Len(s)
      BY <1>2, <1>3, <1>5, <2>2
    <3>2. Later(s[i], r)
      BY <1>1, <3>1
    <3> QED BY <1>2, <1>3, <1>4, <2>2, <3>1, <3>2 DEF Later
  <2>3. CASE k # n + 1 /\ j # n + 1
    <3>1. PICK a \in DOMAIN s : /\ t[j] = s[a]
                                /\ (j <= n /\ a = j) \/ (j > n + 1 /\ j = a + 1)
      BY <1>2, <2>3
    <3>2. PICK b \in DOMAIN s : /\ t[k] = s[b]
                                /\ (k <= n /\ b = k) \/ (k > n + 1 /\ k = b + 1)
      BY <1>2, <2>3
    <3>3. a < b
      BY <1>3, <1>5, <3>1, <3>2
    <3> QED BY <3>1, <3>2, <3>3 DEF Ordered
  <2> QED BY <2>1, <2>2, <2>3
<1>6. ASSUME Distinct(s), NewTo(s, r)
      PROVE  Distinct(t)
  <2> SUFFICES ASSUME NEW j \in DOMAIN t, NEW k \in DOMAIN t, j # k,
                      IsEvent(t[j]), IsEvent(t[k]), t[j].cpu = t[k].cpu
               PROVE  t[j].seq # t[k].seq
    BY DEF Distinct
  <2>1. CASE k = n + 1
    BY <1>2, <1>6, <2>1 DEF NewTo
  <2>2. CASE j = n + 1
    BY <1>2, <1>6, <2>2 DEF NewTo
  <2>3. CASE k # n + 1 /\ j # n + 1
    <3>1. PICK a \in DOMAIN s : /\ t[j] = s[a]
                                /\ (j <= n /\ a = j) \/ (j > n + 1 /\ j = a + 1)
      BY <1>2, <2>3
    <3>2. PICK b \in DOMAIN s : /\ t[k] = s[b]
                                /\ (k <= n /\ b = k) \/ (k > n + 1 /\ k = b + 1)
      BY <1>2, <2>3
    <3>3. a # b
      BY <1>3, <3>1, <3>2
    <3> QED BY <1>6, <3>1, <3>2, <3>3 DEF Distinct
  <2> QED BY <2>1, <2>2, <2>3
<1>7. \A k \in DOMAIN t : t[k] = r \/ \E j \in DOMAIN s : t[k] = s[j]
  BY <1>2
<1>8. Ordered(t)
  BY <1>5 DEF Ordered
<1> QED BY <1>2, <1>3, <1>6, <1>7, <1>8 DEF t

\* h follows the records into the tree, one by one.
Inserting(h, s, records) ==
    /\ h \in [0..Len(records) -> {u \in Seq(Records) : Ordered(u)}]
    /\ h[0] = s /\ InsertedAll(s, records) = h[Len(records)]
    /\ \A n \in 1..Len(records) :
          h[n] = IF InStopwatch(records[n]) THEN Inserted(h[n - 1], records[n])
                 ELSE h[n - 1]

\* InsertedAll, which is defined by recursion, step by step.
LEMMA InsertedAllSteps ==
    ASSUME NEW s \in Seq(Records), NEW records \in Seq(Records), Ordered(s)
    PROVE  \E h : Inserting(h, s, records)
<1> DEFINE N == Len(records)
           S == {u \in Seq(Records) : Ordered(u)}
           Def(g) == [n \in 0..N |->
                         IF n = 0 THEN s
                         ELSE IF InStopwatch(records[n])
                         THEN Inserted(g[n - 1], records[n]) ELSE g[n - 1]]
           sorted == CHOOSE g : g = Def(g)
           step == [p \in (1..N) \X S |->
                       IF InStopwatch(records[p[1]]) THEN Inserted(p[2], records[p[1]])
                       ELSE p[2]]
<1>1. N \in Nat /\ s \in S /\ \A n \in 1..N : records[n] \in Records
  BY LenProperties, ElementOfSeq
<1>2. step \in [(1..N) \X S -> S]
  <2>1. ASSUME NEW n \in 1..N, NEW u \in S
        PROVE  (IF InStopwatch(records[n]) THEN Inserted(u, records[n]) ELSE u) \in S
    <3>1. Inserted(u, records[n]) \in Seq(Records) /\ Ordered(Inserted(u, records[n]))
      BY <1>1, InsertedTree
    <3> QED BY <3>1
  <2> HIDE DEF S
  <2> QED BY <2>1
<1>3. PICK g \in [0..N -> S] :
         g[0] = s /\ \A n \in 1..N : g[n] = step[<<n, g[n - 1]>>]
  <2> HIDE DEF N, step, S
  <2>1. \E f : Recursion(f, S, N, s, step)
    BY <1>1, <1>2, RecursionExists
  <2> QED BY <2>1 DEF Recursion
<1>4. ASSUME NEW n \in 1..N
      PROVE  g[n] = IF InStopwatch(records[n]) THEN Inserted(g[n - 1], records[n])
                    ELSE g[n - 1]
  <2>1. n - 1 \in 0..N
    BY <1>1
  <2> HIDE DEF S
  <2>2. g[n - 1] \in S /\ g[n] = step[<<n, g[n - 1]>>]
    BY <1>3, <2>1
  <2> QED BY <2>2
<1>5. g = Def(g)
  <2>1. \A n \in 0..N : g[n] = IF n = 0 THEN s
                               ELSE IF InStopwatch(records[n])
                               THEN Inserted(g[n - 1], records[n]) ELSE g[n - 1]
    <3> SUFFICES ASSUME NEW n \in 0..N
                 PROVE  g[n] = IF n = 0 THEN s
                               ELSE IF InStopwatch(records[n])
                               THEN Inserted(g[n - 1], records[n]) ELSE g[n - 1]
      OBVIOUS
    <3>1. n = 0 \/ n \in 1..N
      BY <1>1
    <3>2. n \in 1..N => n # 0
      BY <1>1
    <3> HIDE DEF N
    <3> QED BY <1>3, <1>4, <3>1, <3>2, Zenon
  <2> HIDE DEF N, S
  <2> QED BY <1>3, <2>1
<1>6. sorted = Def(sorted)
  <2> HIDE DEF Def
  <2> QED BY <1>5
<1>7. InsertedAll(s, records) = sorted[N]
  BY DEF InsertedAll
<1> HIDE DEF sorted, step, S
<1>8. sorted = g
  <2> DEFINE J == {n \in 0..N : sorted[n] = g[n]}
  <2>1. 0 \in J
    <3>1. 0 \in 0..N
      BY <1>1
    <3>2. sorted[0] = s /\ g[0] = s
      BY <1>6, <1>3, <3>1
    <3> QED BY <3>1, <3>2
  <2>2. ASSUME NEW n \in 0..N - 1, n \in J
        PROVE  n + 1 \in J
    <3>1. n + 1 \in 0..N /\ n + 1 \in 1..N /\ n + 1 # 0 /\ (n + 1) - 1 = n
      BY <1>1
    <3>2. sorted[n + 1] = IF InStopwatch(records[n + 1])
                          THEN Inserted(sorted[n], records[n + 1]) ELSE sorted[n]
      BY <1>6, <3>1
    <3>3. g[n + 1] = IF InStopwatch(records[n + 1])
                     THEN Inserted(g[n], records[n + 1]) ELSE g[n]
      BY <1>4, <3>1
    <3> QED BY <2>2, <3>1, <3>2, <3>3
  <2>3. 0..N \subseteq J
    <3> HIDE DEF J, N
    <3> QED BY <1>1, <2>1, <2>2, InductionUpTo
  <2>4. sorted = [n \in 0..N |-> sorted[n]] /\ g = [n \in 0..N |-> g[n]]
    BY <1>3, <1>6
  <2>5. \A n \in 0..N : sorted[n] = g[n]
    BY <2>3
  <2> HIDE DEF N
  <2> QED BY <2>4, <2>5
<1>9. Inserting(g, s, records)
  BY <1>3, <1>4, <1>7, <1>8 DEF Inserting, S
<1> QED BY <1>9

\* The tree with the records: those of them in the stopwatch, and what there was.
LEMMA InsertedAllTree ==
    ASSUME NEW s \in Seq(Records), NEW records \in Seq(Records), Ordered(s),
           NEW t, t = InsertedAll(s, records)
    PROVE  /\ t \in Seq(Records) /\ Ordered(t)
           /\ \A k \in DOMAIN t :
                 \/ \E j \in DOMAIN s : t[k] = s[j]
                 \/ \E j \in DOMAIN records : InStopwatch(records[j]) /\ t[k] = records[j]
           /\ \A j \in DOMAIN s : \E k \in DOMAIN t : t[k] = s[j]
           /\ \A j \in DOMAIN records : InStopwatch(records[j])
                 => \E k \in DOMAIN t : t[k] = records[j]
           /\ Distinct(s) /\ Distinct(records)
              /\ (\A j \in DOMAIN records : NewTo(s, records[j]))
              => Distinct(t)
<1> DEFINE N == Len(records)
           From(u, n) == \A k \in DOMAIN u :
                 \/ \E j \in DOMAIN s : u[k] = s[j]
                 \/ \E j \in 1..n : InStopwatch(records[j]) /\ u[k] = records[j]
           Holds(u, n) ==
                 /\ \A j \in DOMAIN s : \E k \in DOMAIN u : u[k] = s[j]
                 /\ \A j \in 1..n : InStopwatch(records[j])
                       => \E k \in DOMAIN u : u[k] = records[j]
           Apart == Distinct(s) /\ Distinct(records)
                    /\ (\A j \in DOMAIN records : NewTo(s, records[j]))
<1>1. PICK h : Inserting(h, s, records)
  BY InsertedAllSteps
<1>2. /\ N \in Nat /\ DOMAIN records = 1..N
      /\ \A n \in 1..N : records[n] \in Records
  BY LenProperties, ElementOfSeq
<1>3. /\ \A n \in 0..N : h[n] \in Seq(Records) /\ Ordered(h[n])
      /\ h[0] = s /\ t = h[N]
      /\ \A n \in 1..N :
            h[n] = IF InStopwatch(records[n]) THEN Inserted(h[n - 1], records[n])
                   ELSE h[n - 1]
  BY <1>1 DEF Inserting
<1> DEFINE J == {n \in 0..N : /\ From(h[n], n) /\ Holds(h[n], n)
                              /\ Apart => Distinct(h[n])}
<1>4. 0 \in J
  <2>1. 0 \in 0..N /\ \A j \in 1..0 : FALSE
    BY <1>2
  <2> QED BY <1>3, <2>1
<1>5. ASSUME NEW n \in 0..N - 1, n \in J
      PROVE  n + 1 \in J
  <2> DEFINE u == h[n]
             r == records[n + 1]
  <2>1. /\ n + 1 \in 1..N /\ (n + 1) - 1 = n /\ n \in 0..N /\ n + 1 \in 0..N
        /\ \A j \in 1..n + 1 : j = n + 1 \/ j \in 1..n
        /\ \A j \in 1..n : j \in 1..n + 1 /\ j \in 1..N /\ j # n + 1
    BY <1>2
  <2>2. /\ u \in Seq(Records) /\ Ordered(u) /\ r \in Records
        /\ From(u, n) /\ Holds(u, n) /\ (Apart => Distinct(u))
    BY <1>2, <1>3, <1>5, <2>1
  <2>3. h[n + 1] = IF InStopwatch(r) THEN Inserted(u, r) ELSE u
    BY <1>3, <2>1
  <2> HIDE DEF u
  <2>4. CASE ~InStopwatch(r)
    <3>1. h[n + 1] = u
      BY <2>3, <2>4
    <3>2. From(u, n + 1)
      BY <2>1, <2>2
    <3>3. Holds(u, n + 1)
      BY <2>1, <2>2, <2>4
    <3> HIDE DEF From, Holds, Apart
    <3> QED BY <2>1, <2>2, <3>1, <3>2, <3>3
  <2>5. CASE InStopwatch(r)
    <3> DEFINE v == Inserted(u, r)
    <3>1. h[n + 1] = v
      BY <2>3, <2>5
    <3>2. /\ \E k \in DOMAIN v : v[k] = r
          /\ \A j \in DOMAIN u : \E k \in DOMAIN v : v[k] = u[j]
          /\ \A k \in DOMAIN v : v[k] = r \/ \E j \in DOMAIN u : v[k] = u[j]
          /\ Distinct(u) /\ NewTo(u, r) => Distinct(v)
      BY <2>2, InsertedTree
    <3> HIDE DEF v
    <3>3. From(v, n + 1)
      <4> SUFFICES ASSUME NEW k \in DOMAIN v
                   PROVE  \/ \E j \in DOMAIN s : v[k] = s[j]
                          \/ \E j \in 1..n + 1 : InStopwatch(records[j]) /\ v[k] = records[j]
        OBVIOUS
      <4>1. CASE v[k] = r
        BY <2>1, <2>5, <4>1
      <4>2. CASE \E j \in DOMAIN u : v[k] = u[j]
        BY <2>1, <2>2, <4>2
      <4> QED BY <3>2, <4>1, <4>2
    <3>4. Holds(v, n + 1)
      <4>1. \A j \in DOMAIN s : \E k \in DOMAIN v : v[k] = s[j]
        BY <2>2, <3>2
      <4>2. ASSUME NEW j \in 1..n + 1, InStopwatch(records[j])
            PROVE  \E k \in DOMAIN v : v[k] = records[j]
        <5>1. CASE j = n + 1
          BY <3>2, <5>1
        <5>2. CASE j \in 1..n
          BY <2>2, <3>2, <4>2, <5>2
        <5> QED BY <2>1, <5>1, <5>2
      <4> QED BY <4>1, <4>2
    <3>5. Apart => Distinct(v)
      <4> SUFFICES ASSUME Apart PROVE Distinct(v)
        OBVIOUS
      <4>1. NewTo(u, r)
        <5> SUFFICES ASSUME NEW j \in DOMAIN u, IsEvent(u[j]), IsEvent(r),
                            u[j].cpu = r.cpu
                     PROVE  u[j].seq # r.seq
          BY DEF NewTo
        <5>1. CASE \E i \in DOMAIN s : u[j] = s[i]
          BY <1>2, <2>1, <5>1 DEF NewTo
        <5>2. CASE \E i \in 1..n : u[j] = records[i]
          <6>1. PICK i \in 1..n : u[j] = records[i]
            BY <5>2
          <6>2. i \in DOMAIN records /\ n + 1 \in DOMAIN records /\ i # n + 1
            BY <1>2, <2>1
          <6> QED BY <6>1, <6>2 DEF Distinct
        <5> QED BY <2>2, <5>1, <5>2
      <4> QED BY <2>2, <3>2, <4>1
    <3> HIDE DEF From, Holds, Apart
    <3> QED BY <2>1, <3>1, <3>3, <3>4, <3>5
  <2> QED BY <2>4, <2>5
<1>6. 0..N \subseteq J
  <2> HIDE DEF J, N
  <2> QED BY <1>2, <1>4, <1>5, InductionUpTo
<1>7. N \in J
  BY <1>2, <1>6
<1> QED BY <1>2, <1>3, <1>7

-----------------------------------------------------------------------------
(* blkparse, whatever it reads.                                            *)

\* blkparse starts with its options set and nothing read.
LEMMA ParseTypesInit == Init => ParseTypes
<1> SUFFICES ASSUME Init PROVE ParseTypes
  OBVIOUS
<1>1. stopwatch \in [start : Nat, end : Nat]
  BY BlkparseAssumption DEF Init, BlkparseInit
<1>2. bpc = "start" /\ Unstarted /\ done = FALSE
  BY LiveTraceAssumption DEF Init, BlkparseInit, Unstarted
<1> QED BY <1>1, <1>2 DEF ParseTypes

\* Where blkparse is fits how it reads, and it starts after blktrace.
LEMMA ParseTypesStep ==
    ASSUME KernelTypes, ParseTypes, [Next]_vars
    PROVE  ParseTypes'
<1>1. /\ stopwatch \in [start : Nat, end : Nat] /\ done \in BOOLEAN
      /\ mode \in {"pipe", "files"}
      /\ bpc \in {"start", "read", "show", "force", "end", "setup", "merge"}
      /\ bpc \in {"setup", "merge"} => mode = "files"
      /\ bpc \in {"read", "show", "force"} => mode = "pipe"
      /\ bpc # "start" => wireEnded
      /\ bpc = "start" => Unstarted
  BY DEF KernelTypes, ParseTypes
<1>2. ASSUME UNCHANGED blkparse, bpc # "start" => wireEnded'
      PROVE  ParseTypes'
  BY <1>1, <1>2 DEF ParseTypes, Unstarted, blkparse, pipevars, filevars
<1>3. ASSUME stopwatch' = stopwatch, mode' = mode, wireEnded' = wireEnded, wireEnded,
             done' \in BOOLEAN, bpc' # "start",
             bpc' \in {"start", "read", "show", "force", "end", "setup", "merge"},
             bpc' \in {"setup", "merge"} => mode = "files",
             bpc' \in {"read", "show", "force"} => mode = "pipe"
      PROVE  ParseTypes'
  BY <1>1, <1>3 DEF ParseTypes
<1>4. CASE ~wireEnded /\ KernelNext /\ UNCHANGED <<pipe, files, wireEnded, blkparse>>
  BY <1>1, <1>2, <1>4
<1>5. ASSUME NEW c \in Cpus, NEW state, Transfer(c, state)
      PROVE  ParseTypes'
  BY <1>1, <1>2, <1>5 DEF Transfer
<1>6. CASE EndWire
  BY <1>2, <1>6 DEF EndWire
<1>7. CASE wireEnded /\ ParseStep /\ UNCHANGED <<kernel, wireEnded>>
  <2>1. UNCHANGED <<mode, stopwatch>>
    BY <1>7, ParsingOnlyReads
  <2>2. ASSUME NEW k, ReadBatch(k) PROVE ParseTypes'
    <3>1. bpc = "read" /\ bpc' \in {"force", "show"} /\ done' = done
      BY <2>2, Zenon DEF ReadBatch
    <3> QED BY <1>1, <1>3, <1>7, <2>1, <3>1
  <2>3. CASE ShowFirst
    <3>1. bpc \in {"show", "force"} /\ bpc' = bpc /\ done' = done
      BY <2>3, Zenon DEF ShowFirst
    <3> QED BY <1>1, <1>3, <1>7, <2>1, <3>1
  <2>4. CASE ShowNoMore
    <3>1. bpc \in {"show", "force"} /\ bpc' \in {"read", "end"} /\ done' = done
      BY <2>4 DEF ShowNoMore
    <3> QED BY <1>1, <1>3, <1>7, <2>1, <3>1
  <2>5. CASE GiveUpPipe
    <3>1. bpc = "read" /\ bpc' = "force" /\ done' = done
      BY <2>5 DEF GiveUpPipe
    <3> QED BY <1>1, <1>3, <1>7, <2>1, <3>1
  <2>6. ASSUME NEW c, SetupFile(c) PROVE ParseTypes'
    <3>1. bpc = "setup" /\ bpc' = bpc /\ done' = done
      BY <2>6, Zenon DEF SetupFile
    <3> QED BY <1>1, <1>3, <1>7, <2>1, <3>1
  <2>7. ASSUME NEW c, Handle(c) PROVE ParseTypes'
    <3>1. bpc = "merge" /\ bpc' \in {"end", bpc} /\ done' = done
      BY <2>7, Zenon DEF Handle
    <3> QED BY <1>1, <1>3, <1>7, <2>1, <3>1
  <2>8. CASE Merge \/ MergeEnds
    <3>1. bpc \in {"setup", "merge"} /\ bpc' \in {"merge", "end"} /\ done' = done
      BY <2>8 DEF Merge, MergeEnds
    <3> QED BY <1>1, <1>3, <1>7, <2>1, <3>1
  <2>9. CASE StartParsing
    <3>1. bpc' = (IF mode = "files" THEN "setup" ELSE "read") /\ done' = done
      BY <2>9 DEF StartParsing
    <3> QED BY <1>1, <1>3, <1>7, <2>1, <3>1
  <2> QED BY <1>7, <2>2, <2>3, <2>4, <2>5, <2>6, <2>7, <2>8, <2>9 DEF ParseStep
<1>8. CASE wireEnded /\ Interrupt /\ UNCHANGED <<kernel, wireEnded>>
  BY <1>1, <1>3, <1>8 DEF Interrupt
<1>9. CASE UNCHANGED vars
  <2>1. UNCHANGED blkparse /\ wireEnded' = wireEnded
    BY <1>9 DEF vars
  <2> QED BY <1>1, <1>2, <2>1
<1> QED BY <1>4, <1>5, <1>6, <1>7, <1>8, <1>9 DEF Next

\* What the pipe and the files hold when blkparse reads them.
Readable(s) ==
    /\ s \in Seq(Records) /\ DOMAIN s = 1..Len(s) /\ Len(s) \in Nat
    /\ \A k \in DOMAIN s :
          /\ s[k] \in Records /\ s[k].time <= MaxEvents + 1
          /\ IsEvent(s[k]) => s[k].seq \in 1..MaxEvents
    /\ InOrder(s)

\* What arrives of a CPU is in order, and its times and numbers are bounded.
LEMMA WireReadable ==
    ASSUME KernelInv, NEW c \in Cpus
    PROVE  Readable(Wire(c))
<1> DEFINE s == Wire(c)
<1>1. s \in Seq(Records) /\ AllPossible(s, now, sequence) /\ InOrder(s)
  BY DEF KernelInv, KernelTypes, StreamOK, Wire
<1>2. /\ now \in Nat /\ events \in 0..MaxEvents /\ now <= events + 1
      /\ sequence \in [Cpus -> 0..events] /\ MaxEvents \in Nat
  BY KernelEventsAssumption DEF KernelInv, KernelTypes
<1> HIDE DEF s
<1>3. DOMAIN s = 1..Len(s) /\ Len(s) \in Nat
  BY <1>1, LenProperties
<1>4. ASSUME NEW k \in DOMAIN s
      PROVE  /\ s[k] \in Records /\ s[k].time <= MaxEvents + 1
             /\ IsEvent(s[k]) => s[k].seq \in 1..MaxEvents
  <2>1. s[k] \in Records
    BY <1>1, <1>3, ElementOfSeq
  <2>2. s[k].time \in Nat /\ s[k].seq \in Nat /\ s[k].cpu \in Cpus
    BY <2>1, RecordFields
  <2>3. s[k].time <= now /\ (IsEvent(s[k]) => s[k].seq \in 1..sequence[s[k].cpu])
    BY <1>1 DEF AllPossible, Possible
  <2>4. sequence[s[k].cpu] \in 0..events
    BY <1>2, <2>2
  <2>5. s[k].time <= MaxEvents + 1
    BY <1>2, <2>2, <2>3
  <2>6. IsEvent(s[k]) => s[k].seq \in 1..MaxEvents
    BY <1>2, <2>2, <2>3, <2>4
  <2> QED BY <2>1, <2>5, <2>6
<1> QED BY <1>1, <1>3, <1>4 DEF Readable, s

Good(r) == Usable(r) /\ IsTrace(r)

\* p tells where in s, from position n + 1 to n + k, the records of t are: they
\* are the good ones.
GoodIn(p, t, s, n, k) ==
    /\ Len(t) \in Nat /\ DOMAIN t = 1..Len(t)
    /\ p \in [1..Len(t) -> n + 1..n + k]
    /\ \A i, j \in 1..Len(t) : i < j => p[i] < p[j]
    /\ \A i \in 1..Len(t) : Good(s[p[i]]) /\ t[i] = s[p[i]]
    /\ \A m \in n + 1..n + k : Good(s[m]) => \E i \in 1..Len(t) : p[i] = m

\* The traces of a part stand in it at positions of their own, in order.
LEMMA TracesOfPart ==
    ASSUME NEW s \in Seq(Records), NEW n \in Nat, NEW k \in Nat, n + k <= Len(s)
    PROVE  /\ Traces(SubSeq(s, n + 1, n + k)) \in Seq(Records)
           /\ \E p : GoodIn(p, Traces(SubSeq(s, n + 1, n + k)), s, n, k)
<1> DEFINE b == SubSeq(s, n + 1, n + k)
           t == Traces(b)
           K == {j \in DOMAIN b : Usable(b[j]) /\ IsTrace(b[j])}
<1>1. Len(s) \in Nat /\ \A i \in 1..Len(s) : s[i] \in Records
  BY LenProperties, ElementOfSeq
<1>2. b \in Seq(Records) /\ Len(b) = k /\ \A i \in 1..k : b[i] = s[n + i]
  <2>1. \A i \in n + 1..n + k : s[i] \in Records
    BY <1>1
  <2>2. /\ b \in Seq(Records)
        /\ Len(b) = IF n + 1 <= n + k THEN (n + k) - (n + 1) + 1 ELSE 0
        /\ \A i \in 1..(n + k) - (n + 1) + 1 : b[i] = s[n + 1 + i - 1]
    BY <2>1, SubSeqProperties
  <2>3. (n + k) - (n + 1) + 1 = k /\ \A i \in 1..k : n + 1 + i - 1 = n + i
    OBVIOUS
  <2> HIDE DEF b
  <2>4. Len(b) = k
    BY <2>2
  <2> QED BY <2>2, <2>3, <2>4
<1>3. DOMAIN b = 1..k
  <2> HIDE DEF b
  <2> QED BY <1>2, LenProperties
<1>4. t = Those(b, K)
  BY DEF Traces
<1> HIDE DEF b, K, t
<1>5. t \in Seq(Records) /\ Len(t) \in Nat /\ DOMAIN t = 1..Len(t)
  <2>1. t \in Seq(Records)
    BY <1>2, <1>4, ThoseType
  <2> QED BY <2>1, LenProperties
<1>6. PICK q : PositionsIn(q, t, b, K)
  BY <1>2, <1>4, ThosePositions
<1>7. /\ q \in [1..Len(t) -> 1..k]
      /\ \A i, j \in 1..Len(t) : i < j => q[i] < q[j]
      /\ \A i \in 1..Len(t) : q[i] \in K /\ t[i] = b[q[i]]
      /\ \A m \in 1..k : m \in K => \E i \in 1..Len(t) : q[i] = m
  BY <1>2, <1>6 DEF PositionsIn
<1> DEFINE p == [i \in 1..Len(t) |-> n + q[i]]
<1>8. p \in [1..Len(t) -> n + 1..n + k]
  BY <1>7
<1>9. \A i \in 1..Len(t) : p[i] = n + q[i] /\ q[i] \in 1..k
  BY <1>7
<1> HIDE DEF p
<1>10. \A i, j \in 1..Len(t) : i < j => p[i] < p[j]
  BY <1>7, <1>9
<1>11. \A m \in 1..k : m \in K <=> Good(s[n + m])
  BY <1>2, <1>3 DEF K, Good
<1>12. \A i \in 1..Len(t) : Good(s[p[i]]) /\ t[i] = s[p[i]]
  BY <1>2, <1>7, <1>9, <1>11
<1>13. ASSUME NEW m \in n + 1..n + k, Good(s[m])
       PROVE  \E i \in 1..Len(t) : p[i] = m
  <2>1. m - n \in 1..k /\ n + (m - n) = m
    OBVIOUS
  <2>2. m - n \in K
    BY <1>11, <1>13, <2>1
  <2>3. PICK i \in 1..Len(t) : q[i] = m - n
    BY <1>7, <2>1, <2>2
  <2> QED BY <1>9, <2>1, <2>3
<1>14. GoodIn(p, t, s, n, k)
  BY <1>5, <1>8, <1>10, <1>12, <1>13 DEF GoodIn
<1> QED BY <1>5, <1>14 DEF t, b

\* Counting a record's time from g changes nothing else of it.
LEMMA ShiftedFields ==
    ASSUME NEW r \in Records, NEW g \in Nat, g <= r.time
    PROVE  /\ Shifted(r, g) \in Records /\ Shifted(r, g).time = r.time - g
           /\ Shifted(r, g).seq = r.seq /\ Shifted(r, g).cpu = r.cpu
           /\ Shifted(r, g).kind = r.kind /\ Shifted(r, g).pid = r.pid
           /\ Shifted(r, g).kind = r.kind /\ Shifted(r, g).pid = r.pid
           /\ Shifted(r, g).named = r.named
           /\ (IsEvent(Shifted(r, g)) <=> IsEvent(r))
<1>1. r.time - g \in Nat /\ r.time \in Nat
  <2>1. r.time \in Nat
    BY RecordFields
  <2> QED BY <2>1
<1> QED BY <1>1 DEF Shifted, Records, IsEvent

\* Times do not wrap that are not before the first.
LEMMA AdjustedIsShifted ==
    ASSUME NEW r \in Records, r.time <= MaxEvents + 1, genesis_time' \in Nat,
           genesis_time' <= r.time
    PROVE  Adjusted(r) = Shifted(r, genesis_time')
<1>1. r.time \in Nat /\ MaxEvents \in Nat /\ TimeMod \in Nat /\ MaxEvents + 1 < TimeMod
  BY RecordFields, KernelEventsAssumption, BlkparseAssumption, LiveTraceAssumption
<1>2. r.time - genesis_time' \in 0..TimeMod - 1
  BY <1>1
<1>3. \A x \in 0..TimeMod - 1 : x % TimeMod = x
  BY <1>1
<1>4. (r.time - genesis_time') % TimeMod = r.time - genesis_time'
  BY <1>2, <1>3
<1> QED BY <1>4 DEF Adjusted, Shifted

-----------------------------------------------------------------------------
(* A batch from the pipe.                                                  *)

\* A record that is too early stays so.
LEMMA EarlyStays ==
    ASSUME KernelTypes, taken[0] \in Nat, taken'[0] \in Nat, taken[0] <= taken'[0],
           pipe' = pipe, taken'[0] <= Len(pipe),
           genesis_time' = genesis_time \/ genesis_time = Unset, Early
    PROVE  Early'
<1>1. PICK m \in 1..taken[0] : IsTrace(pipe[m]) /\ pipe[m].time < genesis_time
  BY DEF Early, ReadSoFar
<1>2. pipe[m].time \in Nat
  <2>1. pipe \in Seq(Records) /\ Len(pipe) \in Nat
    BY LenProperties DEF KernelTypes
  <2>2. m \in 1..Len(pipe)
    BY <2>1
  <2> QED BY <2>1, <2>2, ElementOfSeq, RecordFields
<1>3. genesis_time' = genesis_time
  BY <1>1, <1>2 DEF Unset
<1>4. m \in 1..taken'[0]
  BY <1>1
<1>5. pipe[m] \in ReadSoFar'
  BY <1>4 DEF ReadSoFar
<1> QED BY <1>1, <1>3, <1>5 DEF Early

\* The same event has one place in the pipe; the order of events is that of places.
LEMMA EventsApart ==
    ASSUME Readable(pipe), NEW g \in Nat,
           NEW m \in 1..Len(pipe), NEW n \in 1..Len(pipe),
           NEW r, NEW s, Origin(r, m, g), Origin(s, n, g),
           IsEvent(r), IsEvent(s), r.cpu = s.cpu, m < n
    PROVE  r.seq < s.seq /\ r.time <= s.time
<1>1. /\ pipe[m] \in Records /\ pipe[n] \in Records
      /\ r = Shifted(pipe[m], g) /\ s = Shifted(pipe[n], g)
      /\ g <= pipe[m].time /\ g <= pipe[n].time
  BY DEF Origin, Readable
<1>2. /\ IsEvent(pipe[m]) /\ IsEvent(pipe[n]) /\ pipe[m].cpu = pipe[n].cpu
      /\ r.seq = pipe[m].seq /\ s.seq = pipe[n].seq
      /\ r.time = pipe[m].time - g /\ s.time = pipe[n].time - g
  BY <1>1, ShiftedFields
<1>3. Before(pipe[m], pipe[n])
  BY <1>2 DEF Readable, InOrder
<1>4. pipe[m].time \in Nat /\ pipe[n].time \in Nat
  BY <1>1, RecordFields
<1> QED BY <1>2, <1>3, <1>4 DEF Before

\* The records of a batch, last first, their times counted from the first.
LastFirst(t) == [j \in DOMAIN t |-> Adjusted(t[Len(t) + 1 - j])]

\* The records of a batch, last first: each comes from the pipe, all the good
\* ones are there, and the numbers of events are new.
LEMMA AdjustedBatch ==
    ASSUME Readable(pipe), genesis_time' \in Nat, NEW n \in Nat, NEW k \in Nat,
           n + k <= Len(pipe), NEW t, NEW p, GoodIn(p, t, pipe, n, k),
           \A m \in n + 1..n + k : IsTrace(pipe[m]) => genesis_time' <= pipe[m].time
    PROVE  /\ LastFirst(t) \in Seq(Records)
           /\ \A j \in DOMAIN LastFirst(t) : InStopwatch(LastFirst(t)[j]) =>
                 \E m \in n + 1..n + k : Origin(LastFirst(t)[j], m, genesis_time')
           /\ \A m \in n + 1..n + k : Good(pipe[m]) =>
                 \E j \in DOMAIN LastFirst(t) :
                    LastFirst(t)[j] = Shifted(pipe[m], genesis_time')
           /\ Distinct(LastFirst(t))
           /\ \A s : (\A i \in DOMAIN s : \E m \in 1..n : Origin(s[i], m, genesis_time'))
                     => \A j \in DOMAIN LastFirst(t) : NewTo(s, LastFirst(t)[j])
<1> DEFINE N == Len(t)
           a == LastFirst(t)
           g == genesis_time'
           q(j) == p[N + 1 - j]
<1>1. /\ N \in Nat /\ DOMAIN t = 1..N /\ p \in [1..N -> n + 1..n + k]
      /\ \A i, j \in 1..N : i < j => p[i] < p[j]
      /\ \A i \in 1..N : Good(pipe[p[i]]) /\ t[i] = pipe[p[i]]
      /\ \A m \in n + 1..n + k : Good(pipe[m]) => \E i \in 1..N : p[i] = m
  BY DEF GoodIn
<1>2. Len(pipe) \in Nat /\ \A m \in 1..Len(pipe) : /\ pipe[m] \in Records
                                                  /\ pipe[m].time <= MaxEvents + 1
  BY DEF Readable
<1>3. \A m \in n + 1..n + k : m \in 1..Len(pipe)
  BY <1>2
<1>4. \A j \in 1..N : /\ N + 1 - j \in 1..N /\ q(j) \in n + 1..n + k
                      /\ Good(pipe[q(j)]) /\ t[N + 1 - j] = pipe[q(j)]
                      /\ pipe[q(j)] \in Records /\ pipe[q(j)].time <= MaxEvents + 1
                      /\ g <= pipe[q(j)].time
  <2> SUFFICES ASSUME NEW j \in 1..N
               PROVE  /\ N + 1 - j \in 1..N /\ q(j) \in n + 1..n + k
                      /\ Good(pipe[q(j)]) /\ t[N + 1 - j] = pipe[q(j)]
                      /\ pipe[q(j)] \in Records /\ pipe[q(j)].time <= MaxEvents + 1
                      /\ g <= pipe[q(j)].time
    OBVIOUS
  <2>1. N + 1 - j \in 1..N
    BY <1>1
  <2>2. q(j) \in n + 1..n + k /\ Good(pipe[q(j)]) /\ t[N + 1 - j] = pipe[q(j)]
    BY <1>1, <2>1
  <2> QED BY <1>2, <1>3, <2>1, <2>2 DEF Good
<1>5. DOMAIN a = 1..N /\ \A j \in 1..N : a[j] = Adjusted(pipe[q(j)])
  BY <1>1, <1>4 DEF LastFirst
<1> HIDE DEF a, q
<1>6. \A j \in 1..N : a[j] = Shifted(pipe[q(j)], g)
  BY <1>4, <1>5, AdjustedIsShifted
<1>7. \A j \in 1..N : a[j] \in Records
  BY <1>4, <1>6, ShiftedFields
<1>8. a \in Seq(Records)
  <2>1. a = [j \in 1..N |-> a[j]]
    BY <1>5 DEF a, LastFirst
  <2>2. a \in [1..N -> Records]
    BY <1>7, <2>1
  <2> QED BY <1>1, <2>2, SeqDef
<1>9. \A j \in 1..N : InStopwatch(a[j]) => Origin(a[j], q(j), g)
  BY <1>4, <1>6 DEF Origin, Good
<1>10. ASSUME NEW m \in n + 1..n + k, Good(pipe[m])
       PROVE  \E j \in DOMAIN a : a[j] = Shifted(pipe[m], g)
  <2>1. PICK i \in 1..N : p[i] = m
    BY <1>1, <1>10
  <2>2. N + 1 - i \in 1..N /\ N + 1 - (N + 1 - i) = i
    BY <1>1
  <2>3. q(N + 1 - i) = m
    BY <2>1, <2>2 DEF q
  <2> QED BY <1>5, <1>6, <2>2, <2>3
<1>11. ASSUME NEW i \in 1..N, NEW j \in 1..N, i < j
       PROVE  q(j) < q(i)
  <2>1. N + 1 - i \in 1..N /\ N + 1 - j \in 1..N /\ N + 1 - j < N + 1 - i
    BY <1>1, <1>11
  <2> QED BY <1>1, <2>1 DEF q
\* Two records of the pipe that are events of one CPU have different numbers.
<1>12. ASSUME NEW l \in 1..Len(pipe), NEW m \in 1..Len(pipe), l < m,
              g <= pipe[l].time, g <= pipe[m].time,
              IsEvent(Shifted(pipe[l], g)), IsEvent(Shifted(pipe[m], g)),
              Shifted(pipe[l], g).cpu = Shifted(pipe[m], g).cpu
       PROVE  Shifted(pipe[l], g).seq < Shifted(pipe[m], g).seq
  <2>1. pipe[l] \in Records /\ pipe[m] \in Records
    BY <1>2
  <2>2. /\ IsEvent(pipe[l]) /\ IsEvent(pipe[m]) /\ pipe[l].cpu = pipe[m].cpu
        /\ Shifted(pipe[l], g).seq = pipe[l].seq /\ Shifted(pipe[m], g).seq = pipe[m].seq
    BY <1>12, <2>1, ShiftedFields
  <2> QED BY <1>12, <2>2 DEF Readable, InOrder, Before
<1>13. \A j \in 1..N : a[j].seq \in Nat
  BY <1>7, RecordFields
<1>14. Distinct(a)
  <2>1. ASSUME NEW i \in 1..N, NEW j \in 1..N, i < j,
               IsEvent(a[i]), IsEvent(a[j]), a[i].cpu = a[j].cpu
        PROVE  a[i].seq # a[j].seq
    <3>1. q(j) < q(i) /\ q(i) \in 1..Len(pipe) /\ q(j) \in 1..Len(pipe)
      BY <1>3, <1>4, <1>11, <2>1
    <3>2. a[j].seq < a[i].seq
      BY <1>4, <1>6, <1>12, <2>1, <3>1
    <3> QED BY <1>13, <3>2
  <2>2. \A i, j \in 1..N : i # j => i < j \/ j < i
    BY <1>1
  <2> QED BY <1>5, <2>1, <2>2 DEF Distinct
<1>15. ASSUME NEW s, \A i \in DOMAIN s : \E m \in 1..n : Origin(s[i], m, g),
              NEW j \in DOMAIN a
       PROVE  NewTo(s, a[j])
  <2> SUFFICES ASSUME NEW i \in DOMAIN s, IsEvent(s[i]), IsEvent(a[j]),
                      s[i].cpu = a[j].cpu
               PROVE  s[i].seq # a[j].seq
    BY DEF NewTo
  <2>1. PICK m \in 1..n : s[i] = Shifted(pipe[m], g) /\ g <= pipe[m].time
    BY <1>15 DEF Origin
  <2>2. m \in 1..Len(pipe) /\ q(j) \in 1..Len(pipe) /\ m < q(j)
    BY <1>2, <1>3, <1>4, <1>5
  <2>3. s[i].seq < a[j].seq
    BY <1>4, <1>5, <1>6, <1>12, <2>1, <2>2
  <2>4. s[i].seq \in Nat /\ a[j].seq \in Nat
    <3>1. s[i] \in Records
      BY <1>2, <2>1, <2>2, ShiftedFields
    <3> QED BY <1>5, <1>13, <3>1, RecordFields
  <2> QED BY <2>3, <2>4
<1>16. \A j \in DOMAIN a : InStopwatch(a[j]) => \E m \in n + 1..n + k : Origin(a[j], m, g)
  BY <1>4, <1>5, <1>9
<1> QED BY <1>8, <1>10, <1>14, <1>15, <1>16 DEF a

\* The first of all: the least time of a batch that has any.
LEMMA FirstTime ==
    ASSUME NEW t \in Seq(Records), t # <<>>,
           NEW f, f = CHOOSE m \in {t[j].time : j \in DOMAIN t} : \A j \in DOMAIN t : m <= t[j].time
    PROVE  f \in Nat /\ \A j \in DOMAIN t : f <= t[j].time
<1> DEFINE T == {t[j].time : j \in DOMAIN t}
<1>1. DOMAIN t = 1..Len(t) /\ Len(t) \in Nat /\ Len(t) # 0
  BY LenProperties, EmptySeq
<1>2. \A j \in DOMAIN t : t[j].time \in Nat
  BY <1>1, ElementOfSeq, RecordFields
<1>3. T \subseteq Nat /\ T # {}
  <2>1. 1 \in DOMAIN t
    BY <1>1
  <2> QED BY <1>2, <2>1
<1>4. \E x \in T : \A y \in T : ~(y < x)
  <2> HIDE DEF T
  <2> QED BY <1>3, LeastOf
<1>5. \E m \in T : \A j \in DOMAIN t : m <= t[j].time
  <2>1. PICK x \in T : \A y \in T : ~(y < x)
    BY <1>4
  <2>2. \A j \in DOMAIN t : t[j].time \in T
    OBVIOUS
  <2> HIDE DEF T
  <2> QED BY <1>2, <1>3, <2>1, <2>2
<1>6. f \in T /\ \A j \in DOMAIN t : f <= t[j].time
  BY <1>5
<1> QED BY <1>3, <1>6

\* What a batch does to the pipe's part of blkparse.
BatchRead(k, t) ==
    /\ k \in 0..Len(pipe) - taken[0]
    /\ t = Traces(SubSeq(pipe, taken[0] + 1, taken[0] + k))
    /\ taken' = [taken EXCEPT ![0] = taken[0] + k]
    /\ IF t # <<>> /\ genesis_time = Unset
       THEN genesis_time' \in Nat /\ \A j \in DOMAIN t : genesis_time' <= t[j].time
       ELSE genesis_time' = genesis_time
    /\ tree' = InsertedAll(tree, LastFirst(t))
    /\ bpc' \in {"force", "show"}
    /\ UNCHANGED <<pipe, shown, last_sequence, skips, stopwatch, mode>>

\* What do_pipe's reading of a batch does.
LEMMA ReadBatchReads ==
    ASSUME KernelTypes, NEW k \in 0..Len(pipe) - taken[0], taken[0] \in Nat, ReadBatch(k)
    PROVE  BatchRead(k, Traces(Batch(k)))
<1> DEFINE t == Traces(Batch(k))
           first == CHOOSE m \in {t[j].time : j \in DOMAIN t} :
                       \A j \in DOMAIN t : m <= t[j].time
<1>1. pipe \in Seq(Records) /\ Len(pipe) \in Nat
  BY LenProperties DEF KernelTypes
<1>2. t \in Seq(Records)
  <2>1. taken[0] + k <= Len(pipe) /\ k \in Nat
    BY <1>1
  <2> QED BY <1>1, <2>1, TracesOfPart DEF Batch
<1>3. /\ taken' = [taken EXCEPT ![0] = taken[0] + k]
      /\ genesis_time' = IF t # <<>> /\ genesis_time = Unset THEN first ELSE genesis_time
      /\ tree' = InsertedAll(tree, LastFirst(t))
      /\ bpc' \in {"force", "show"}
      /\ UNCHANGED <<pipe, shown, last_sequence, skips, stopwatch, mode>>
  BY Zenon DEF ReadBatch, LastFirst
<1>4. t = Traces(SubSeq(pipe, taken[0] + 1, taken[0] + k))
  BY DEF Batch
<1> HIDE DEF t
<1>5. t # <<>> => first \in Nat /\ \A j \in DOMAIN t : first <= t[j].time
  BY <1>2, FirstTime
<1> HIDE DEF first
<1>6. IF t # <<>> /\ genesis_time = Unset
      THEN genesis_time' \in Nat /\ \A j \in DOMAIN t : genesis_time' <= t[j].time
      ELSE genesis_time' = genesis_time
  BY <1>3, <1>5
<1>7. BatchRead(k, t)
  BY <1>3, <1>4, <1>6 DEF BatchRead
<1> QED BY <1>7 DEF t

\* Reading a batch preserves the invariant of the pipe.
LEMMA ReadBatchInv ==
    ASSUME KernelInv, PipeInv, mode = "pipe", NEW k \in 0..Len(pipe) - taken[0],
           ReadBatch(k)
    PROVE  PipeInv'
<1> DEFINE t == Traces(Batch(k))
           n == taken[0]
           g == genesis_time'
           a == LastFirst(t)
<1>1. 0 \in Cpus /\ KernelTypes /\ Readable(pipe) /\ pipe \in Seq(Records)
      /\ Len(pipe) \in Nat
  <2>1. 0 \in Cpus
    BY BlkparseAssumption, LiveTraceAssumption
  <2>2. Readable(Wire(0)) /\ Wire(0) = pipe
    BY <2>1, WireReadable DEF Wire
  <2> QED BY <2>1, <2>2 DEF KernelInv, Readable
<1>2. /\ taken \in [Cpus -> Nat] /\ n \in Nat /\ n <= Len(pipe)
      /\ genesis_time \in Nat \cup {Unset}
  BY <1>1 DEF PipeInv
<1>3. BatchRead(k, t)
  BY <1>1, <1>2, ReadBatchReads
<1>4. k \in Nat /\ n + k <= Len(pipe)
  BY <1>1, <1>2
<1>5. t \in Seq(Records) /\ \E p : GoodIn(p, t, pipe, n, k)
  BY <1>1, <1>2, <1>4, TracesOfPart DEF Batch
<1>6. PICK p : GoodIn(p, t, pipe, n, k)
  BY <1>5
<1> HIDE DEF t
<1>7. taken' \in [Cpus -> Nat] /\ taken'[0] = n + k
  BY <1>1, <1>2, <1>3, <1>4 DEF BatchRead
<1>8. g \in Nat \cup {Unset}
  BY <1>2, <1>3 DEF BatchRead
<1>9. /\ bpc' # "read"
      /\ UNCHANGED <<pipe, shown, last_sequence, skips, stopwatch, mode>>
      /\ tree' = InsertedAll(tree, a)
  BY <1>3 DEF BatchRead
<1> SUFFICES ASSUME ~Early'
             PROVE  (PipeTypes /\ OriginsOK /\ TreeOK /\ ShownOK /\ NoneLost /\ GapsOK)'
  BY <1>1, <1>2, <1>4, <1>7, <1>8, <1>9 DEF PipeInv
<1>10. genesis_time = Unset \/ g = genesis_time
  BY <1>3 DEF BatchRead
<1>11. ~Early
  BY <1>1, <1>2, <1>4, <1>7, <1>9, <1>10, EarlyStays
<1>12. PipeTypes /\ OriginsOK /\ TreeOK /\ ShownOK /\ NoneLost /\ GapsOK
  BY <1>11 DEF PipeInv
<1>13. \A m \in 1..n + k : IsTrace(pipe[m]) => ~(pipe[m].time < g)
  BY <1>7, <1>9 DEF Early, ReadSoFar
<1>14. \A m \in 1..n : m \in 1..n + k /\ m \in 1..Len(pipe)
  BY <1>1, <1>2, <1>4
<1>15. ASSUME NEW r, NEW m \in 1..n, Origin(r, m, genesis_time), genesis_time # Unset
       PROVE  Origin(r, m, g) /\ m \in 1..taken'[0]
  BY <1>7, <1>10, <1>14, <1>15
\* First: a batch without traces.
<1>16. CASE t = <<>>
  <2>1. a = <<>> /\ DOMAIN a = {} /\ a \in Seq(Records)
    <3>1. DOMAIN t = {}
      BY <1>16
    <3>2. a = [j \in {} |-> Adjusted(t[Len(t) + 1 - j])]
      BY <3>1 DEF LastFirst
    <3>3. a = <<>>
      BY <3>2
    <3> QED BY <3>3
  <2>2. g = genesis_time
    BY <1>3, <1>16 DEF BatchRead
  <2>3. \A m \in n + 1..n + k : ~Good(pipe[m])
    <3>1. Len(t) = 0
      BY <1>16
    <3>2. \A i \in 1..Len(t) : FALSE
      BY <3>1
    <3> QED BY <1>6, <3>2 DEF GoodIn
  <2>4. tree' = tree
    <3>1. PICK h : Inserting(h, tree, a)
      BY <1>12, <2>1, InsertedAllSteps DEF PipeTypes, TreeOK
    <3>2. Len(a) = 0
      BY <2>1
    <3> QED BY <1>9, <3>1, <3>2 DEF Inserting
  <2>5. PipeTypes'
    BY <1>9, <1>12, <2>4 DEF PipeTypes
  <2>6. OriginsOK'
    <3>1. ASSUME NEW j \in DOMAIN tree
          PROVE  g # Unset /\ \E m \in 1..taken'[0] : Origin(tree[j], m, g)
      BY <1>12, <1>15, <2>2 DEF OriginsOK
    <3>2. ASSUME NEW j \in DOMAIN shown
          PROVE  g # Unset /\ \E m \in 1..taken'[0] : Origin(shown[j].rec, m, g)
      BY <1>12, <1>15, <2>2 DEF OriginsOK
    <3>3. ASSUME g = Unset, NEW m \in 1..taken'[0]
          PROVE  ~(Usable(pipe[m]) /\ IsTrace(pipe[m]))
      <4>1. m \in 1..n \/ m \in n + 1..n + k
        BY <1>2, <1>4, <1>7
      <4> QED BY <1>12, <2>2, <2>3, <3>3, <4>1 DEF OriginsOK, Good
    <3> QED BY <1>9, <2>4, <3>1, <3>2, <3>3 DEF OriginsOK, Origin, InStopwatch
  <2>7. TreeOK'
    BY <1>9, <1>12, <2>4 DEF TreeOK
  <2>8. ShownOK'
    BY <1>9, <1>12 DEF ShownOK, LastOK, Numbers
  <2>9. NoneLost'
    <3> SUFFICES ASSUME \A m \in 1..n + k : Usable(pipe[m]),
                        NEW m \in 1..n + k, IsEvent(pipe[m]),
                        InStopwatch(Shifted(pipe[m], g))
                 PROVE  \/ \E j \in DOMAIN tree : tree[j] = Shifted(pipe[m], g)
                        \/ \E j \in DOMAIN shown : shown[j].rec = Shifted(pipe[m], g)
      BY <1>7, <1>9, <2>4 DEF NoneLost, InStopwatch
    <3>1. m \in 1..n
      <4>1. m \in 1..n \/ m \in n + 1..n + k
        BY <1>2, <1>4
      <4>2. Good(pipe[m])
        BY DEF Good, IsTrace, IsEvent
      <4> QED BY <2>3, <4>1, <4>2
    <3> QED BY <1>12, <1>14, <2>2, <3>1 DEF NoneLost
  <2>10. GapsOK'
    BY <1>9, <1>12 DEF GapsOK, SkipsBelow, Covered, Numbers
  <2> QED BY <2>5, <2>6, <2>7, <2>8, <2>9, <2>10
<1>17. CASE t # <<>>
  <2>1. g \in Nat
    BY <1>2, <1>3, <1>17 DEF BatchRead
  <2>2. \A m \in n + 1..n + k : IsTrace(pipe[m]) => g <= pipe[m].time
    <3> SUFFICES ASSUME NEW m \in n + 1..n + k, IsTrace(pipe[m])
                 PROVE  g <= pipe[m].time
      OBVIOUS
    <3>1. m \in 1..n + k /\ m \in 1..Len(pipe)
      BY <1>1, <1>2, <1>4
    <3>2. pipe[m].time \in Nat
      BY <1>1, <3>1, ElementOfSeq, RecordFields
    <3> QED BY <1>13, <2>1, <3>1, <3>2
  <2>3. /\ a \in Seq(Records)
        /\ \A j \in DOMAIN a : InStopwatch(a[j]) => \E m \in n + 1..n + k : Origin(a[j], m, g)
        /\ \A m \in n + 1..n + k : Good(pipe[m]) => \E j \in DOMAIN a : a[j] = Shifted(pipe[m], g)
        /\ Distinct(a)
        /\ \A s : (\A i \in DOMAIN s : \E m \in 1..n : Origin(s[i], m, g))
                  => \A j \in DOMAIN a : NewTo(s, a[j])
    BY <1>1, <1>2, <1>4, <1>6, <2>1, <2>2, AdjustedBatch
  <2> HIDE DEF a
  <2>5. \A j \in DOMAIN tree : \E m \in 1..n : Origin(tree[j], m, g)
    BY <1>10, <1>12 DEF OriginsOK
  <2>6. \A j \in DOMAIN shown : \E m \in 1..n : Origin(shown[j].rec, m, g)
    BY <1>10, <1>12 DEF OriginsOK
  <2>7. /\ tree' \in Seq(Records) /\ Ordered(tree')
        /\ \A j \in DOMAIN tree' :
              \/ \E i \in DOMAIN tree : tree'[j] = tree[i]
              \/ \E i \in DOMAIN a : InStopwatch(a[i]) /\ tree'[j] = a[i]
        /\ \A j \in DOMAIN tree : \E i \in DOMAIN tree' : tree'[i] = tree[j]
        /\ \A j \in DOMAIN a : InStopwatch(a[j]) => \E i \in DOMAIN tree' : tree'[i] = a[j]
        /\ Distinct(tree')
    <3>1. tree \in Seq(Records) /\ Ordered(tree) /\ Distinct(tree)
      BY <1>12 DEF PipeTypes, TreeOK
    <3>2. \A j \in DOMAIN a : NewTo(tree, a[j])
      BY <2>3, <2>5
    <3> DEFINE v == InsertedAll(tree, a)
    <3>3. /\ v \in Seq(Records) /\ Ordered(v)
          /\ \A j \in DOMAIN v :
                \/ \E i \in DOMAIN tree : v[j] = tree[i]
                \/ \E i \in DOMAIN a : InStopwatch(a[i]) /\ v[j] = a[i]
          /\ \A j \in DOMAIN tree : \E i \in DOMAIN v : v[i] = tree[j]
          /\ \A j \in DOMAIN a : InStopwatch(a[j]) => \E i \in DOMAIN v : v[i] = a[j]
          /\ Distinct(v)
      BY <2>3, <3>1, <3>2, InsertedAllTree
    <3>4. tree' = v
      BY <1>9
    <3> HIDE DEF v
    <3> QED BY <3>3, <3>4
  <2>8. PipeTypes'
    BY <1>9, <1>12, <2>7 DEF PipeTypes
  <2>9. \A m \in n + 1..n + k : m \in 1..n + k /\ m \in 1..Len(pipe)
    BY <1>1, <1>2, <1>4
  <2>10. OriginsOK'
    <3>1. ASSUME NEW j \in DOMAIN tree'
          PROVE  g # Unset /\ \E m \in 1..taken'[0] : Origin(tree'[j], m, g)
      <4>1. \E m \in 1..n + k : Origin(tree'[j], m, g)
        BY <1>14, <2>3, <2>5, <2>7, <2>9
      <4> QED BY <1>7, <2>1, <4>1 DEF Unset
    <3>2. ASSUME NEW j \in DOMAIN shown
          PROVE  g # Unset /\ \E m \in 1..taken'[0] : Origin(shown[j].rec, m, g)
      <4>1. \E m \in 1..n + k : Origin(shown[j].rec, m, g)
        BY <1>14, <2>6
      <4> QED BY <1>7, <2>1, <4>1 DEF Unset
    <3>3. g # Unset
      BY <2>1 DEF Unset
    <3> QED BY <1>9, <3>1, <3>2, <3>3 DEF OriginsOK, Origin, InStopwatch
  <2>11. TreeOK'
    <3>1. ASSUME NEW j \in DOMAIN shown, NEW i \in DOMAIN tree'
          PROVE  Earlier(shown[j].rec, tree'[i])
      <4>1. CASE \E l \in DOMAIN tree : tree'[i] = tree[l]
        BY <1>12, <4>1 DEF TreeOK
      <4>2. CASE \E l \in DOMAIN a : InStopwatch(a[l]) /\ tree'[i] = a[l]
        <5> SUFFICES ASSUME IsEvent(shown[j].rec), IsEvent(tree'[i]),
                            shown[j].rec.cpu = tree'[i].cpu
                     PROVE  shown[j].rec.seq < tree'[i].seq
          BY DEF Earlier
        <5>1. PICK m \in n + 1..n + k : Origin(tree'[i], m, g)
          BY <2>3, <4>2
        <5>2. PICK l \in 1..n : Origin(shown[j].rec, l, g)
          BY <2>6
        <5>3. l \in 1..Len(pipe) /\ m \in 1..Len(pipe) /\ l < m
          BY <1>2, <1>14, <2>9
        <5> QED BY <1>1, <2>1, <5>1, <5>2, <5>3, EventsApart
      <4> QED BY <2>7, <4>1, <4>2
    <3> QED BY <1>9, <2>7, <3>1 DEF TreeOK
  <2>12. ShownOK'
    BY <1>9, <1>12 DEF ShownOK, LastOK, Numbers
  <2>13. NoneLost'
    <3> SUFFICES ASSUME \A m \in 1..n + k : Usable(pipe[m]),
                        NEW m \in 1..n + k, IsEvent(pipe[m]),
                        InStopwatch(Shifted(pipe[m], g))
                 PROVE  \/ \E j \in DOMAIN tree' : tree'[j] = Shifted(pipe[m], g)
                        \/ \E j \in DOMAIN shown : shown[j].rec = Shifted(pipe[m], g)
      BY <1>7, <1>9 DEF NoneLost, InStopwatch
    <3>1. Good(pipe[m])
      BY DEF Good, IsTrace, IsEvent
    <3>2. m \in 1..n \/ m \in n + 1..n + k
      BY <1>2, <1>4
    <3>3. CASE m \in n + 1..n + k
      BY <2>3, <2>7, <3>1, <3>3
    <3>4. CASE m \in 1..n
      <4>1. g = genesis_time
        BY <1>10, <1>12, <3>1, <3>4 DEF OriginsOK, Good
      <4>2. \A j \in 1..n : Usable(pipe[j])
        BY <1>14
      <4>3. \/ \E j \in DOMAIN tree : tree[j] = Shifted(pipe[m], g)
            \/ \E j \in DOMAIN shown : shown[j].rec = Shifted(pipe[m], g)
        BY <1>12, <3>4, <4>1, <4>2 DEF NoneLost
      <4> QED BY <2>7, <4>3
    <3> QED BY <3>2, <3>3, <3>4
  <2>14. GapsOK'
    BY <1>9, <1>12 DEF GapsOK, SkipsBelow, Covered, Numbers
  <2> QED BY <2>8, <2>10, <2>11, <2>12, <2>13, <2>14
<1> QED BY <1>16, <1>17

\* The first element taken away, and one put at the end.
LEMMA TailFields ==
    ASSUME NEW S, NEW s \in Seq(S), s # <<>>
    PROVE  /\ Len(s) \in Nat /\ DOMAIN s = 1..Len(s) /\ 1 \in DOMAIN s /\ s[1] \in S
           /\ Tail(s) \in Seq(S) /\ DOMAIN Tail(s) = 1..Len(s) - 1
           /\ \A k \in 1..Len(s) - 1 : Tail(s)[k] = s[k + 1] /\ k + 1 \in DOMAIN s
           /\ \A k \in DOMAIN s : k = 1 \/ k - 1 \in 1..Len(s) - 1
<1>1. Len(s) \in Nat /\ DOMAIN s = 1..Len(s) /\ Len(s) # 0
  BY LenProperties, EmptySeq
<1>2. /\ Tail(s) \in Seq(S) /\ Len(Tail(s)) = Len(s) - 1
      /\ \A k \in 1..Len(Tail(s)) : Tail(s)[k] = s[k + 1]
  BY HeadTailProperties
<1>3. DOMAIN Tail(s) = 1..Len(Tail(s))
  BY <1>2, LenProperties
<1>4. 1 \in DOMAIN s /\ s[1] \in S
  BY <1>1, ElementOfSeq
<1>5. /\ \A k \in 1..Len(s) - 1 : k + 1 \in DOMAIN s
      /\ \A k \in DOMAIN s : k = 1 \/ k - 1 \in 1..Len(s) - 1
  BY <1>1
<1> QED BY <1>1, <1>2, <1>3, <1>4, <1>5

\* A sequence with an element behind it.
LEMMA AppendFields ==
    ASSUME NEW S, NEW s \in Seq(S), NEW x \in S
    PROVE  /\ Len(s) \in Nat /\ DOMAIN s = 1..Len(s) /\ Append(s, x) \in Seq(S)
           /\ DOMAIN Append(s, x) = 1..Len(s) + 1
           /\ \A k \in DOMAIN s : Append(s, x)[k] = s[k] /\ k \in DOMAIN Append(s, x)
           /\ Append(s, x)[Len(s) + 1] = x
           /\ \A k \in DOMAIN Append(s, x) : k \in DOMAIN s \/ k = Len(s) + 1
<1>1. Len(s) \in Nat /\ DOMAIN s = 1..Len(s)
  BY LenProperties
<1>2. /\ Append(s, x) \in Seq(S) /\ Len(Append(s, x)) = Len(s) + 1
      /\ \A k \in 1..Len(s) : Append(s, x)[k] = s[k]
      /\ Append(s, x)[Len(s) + 1] = x
  BY AppendProperties
<1>3. DOMAIN Append(s, x) = 1..Len(s) + 1
  BY <1>2, LenProperties
<1>4. \A k \in 1..Len(s) + 1 : k \in 1..Len(s) \/ k = Len(s) + 1
  BY <1>1
<1>5. \A k \in 1..Len(s) : k \in 1..Len(s) + 1
  BY <1>1
<1> QED BY <1>1, <1>2, <1>3, <1>4, <1>5

-----------------------------------------------------------------------------
(* Numbers and gaps.                                                       *)

\* A number above all others leaves a gap of those in between.
LEMMA GapsGrow ==
    ASSUME NEW N, N \subseteq Nat, NEW l \in N, \A n \in N : n <= l,
           NEW q \in Nat, l < q
    PROVE  Gaps(N \cup {q}) = Gaps(N) \cup (l + 1..q - 1)
<1>1. ASSUME NEW n \in Gaps(N \cup {q})
      PROVE  n \in Gaps(N) \cup (l + 1..q - 1)
  <2>1. n \in Nat /\ n \notin N /\ n # q
    BY DEF Gaps
  <2>2. PICK a \in N \cup {q}, b \in N \cup {q} : a < n /\ n < b
    BY DEF Gaps
  <2>3. n < q /\ a \in N
    BY <2>1, <2>2
  <2>4. CASE n <= l
    <3>1. n < l
      BY <2>1, <2>4
    <3> QED BY <2>1, <2>2, <2>3, <3>1 DEF Gaps
  <2>5. CASE ~(n <= l)
    BY <2>1, <2>3, <2>5
  <2> QED BY <2>4, <2>5
<1>2. ASSUME NEW n \in Gaps(N)
      PROVE  n \in Gaps(N \cup {q})
  <2>1. n \in Nat /\ n \notin N
    BY DEF Gaps
  <2>2. PICK a \in N, b \in N : a < n /\ n < b
    BY DEF Gaps
  <2>3. n # q
    BY <2>1, <2>2
  <2> QED BY <2>1, <2>2, <2>3 DEF Gaps
<1>3. ASSUME NEW n \in l + 1..q - 1
      PROVE  n \in Gaps(N \cup {q})
  <2>1. n \in Nat /\ l < n /\ n < q
    OBVIOUS
  <2>2. n \notin N
    BY <2>1
  <2> QED BY <2>1, <2>2 DEF Gaps
<1> QED BY <1>1, <1>2, <1>3, Zenon

\* There is no gap in fewer than two numbers.
LEMMA NoGaps == Gaps({}) = {} /\ \A q \in Nat : Gaps({q}) = {}
BY DEF Gaps

\* What a list of skips covers.
CoveredBy(s) == UNION {s[k].start..s[k].end : k \in DOMAIN s}

\* A skip more covers its numbers too.
LEMMA CoveredAppend ==
    ASSUME NEW s \in Seq(Skip), NEW x \in Skip
    PROVE  CoveredBy(Append(s, x)) = CoveredBy(s) \cup (x.start..x.end)
<1> DEFINE t == Append(s, x)
           L == Len(s)
<1>1. /\ \A k \in DOMAIN s : t[k] = s[k] /\ k \in DOMAIN t
      /\ t[L + 1] = x /\ L + 1 \in DOMAIN t
      /\ \A k \in DOMAIN t : k \in DOMAIN s \/ k = L + 1
  BY AppendFields
<1> HIDE DEF t, L
<1>2. ASSUME NEW n \in CoveredBy(t) PROVE n \in CoveredBy(s) \cup (x.start..x.end)
  <2>1. PICK k \in DOMAIN t : n \in t[k].start..t[k].end
    BY Zenon DEF CoveredBy
  <2>2. CASE k \in DOMAIN s
    <3>1. n \in s[k].start..s[k].end
      BY <1>1, <2>1, <2>2
    <3> QED BY <2>2, <3>1, Zenon DEF CoveredBy
  <2>3. CASE k = L + 1
    BY <1>1, <2>1, <2>3
  <2> QED BY <1>1, <2>2, <2>3
<1>3. ASSUME NEW n \in CoveredBy(s) PROVE n \in CoveredBy(t)
  <2>1. PICK k \in DOMAIN s : n \in s[k].start..s[k].end
    BY Zenon DEF CoveredBy
  <2>2. k \in DOMAIN t /\ n \in t[k].start..t[k].end
    BY <1>1, <2>1
  <2> QED BY <2>2, Zenon DEF CoveredBy
<1>4. ASSUME NEW n \in x.start..x.end PROVE n \in CoveredBy(t)
  <2>1. L + 1 \in DOMAIN t /\ n \in t[L + 1].start..t[L + 1].end
    BY <1>1
  <2> QED BY <2>1, Zenon DEF CoveredBy
<1>5. CoveredBy(t) = CoveredBy(s) \cup (x.start..x.end)
  BY <1>2, <1>3, <1>4, Zenon
<1> QED BY <1>5 DEF t

\* The numbers shown of a list.
NumbersIn(s, c) == {s[k].rec.seq : k \in {j \in DOMAIN s : EventOf(s[j].rec, c)}}

\* An event more that is shown adds its number.
LEMMA NumbersAppend ==
    ASSUME NEW s \in Seq(Shown), NEW x \in Shown, NEW c
    PROVE  NumbersIn(Append(s, x), c) = IF EventOf(x.rec, c)
                                        THEN NumbersIn(s, c) \cup {x.rec.seq}
                                        ELSE NumbersIn(s, c)
<1> DEFINE t == Append(s, x)
           L == Len(s)
<1>1. /\ \A k \in DOMAIN s : t[k] = s[k] /\ k \in DOMAIN t
      /\ t[L + 1] = x /\ L + 1 \in DOMAIN t
      /\ \A k \in DOMAIN t : k \in DOMAIN s \/ k = L + 1
  BY AppendFields
<1> HIDE DEF t, L
<1>2. ASSUME NEW n \in NumbersIn(t, c)
      PROVE  n \in NumbersIn(s, c) \/ (EventOf(x.rec, c) /\ n = x.rec.seq)
  BY <1>1 DEF NumbersIn
<1>3. NumbersIn(s, c) \subseteq NumbersIn(t, c)
  BY <1>1 DEF NumbersIn
<1>4. EventOf(x.rec, c) => x.rec.seq \in NumbersIn(t, c)
  BY <1>1 DEF NumbersIn
<1>5. NumbersIn(t, c) = IF EventOf(x.rec, c) THEN NumbersIn(s, c) \cup {x.rec.seq}
                        ELSE NumbersIn(s, c)
  <2>1. CASE EventOf(x.rec, c)
    BY <1>2, <1>3, <1>4, <2>1
  <2>2. CASE ~EventOf(x.rec, c)
    <3>1. NumbersIn(t, c) = NumbersIn(s, c)
      BY <1>2, <1>3, <2>2
    <3> QED BY <2>2, <3>1
  <2> QED BY <2>1, <2>2
<1> QED BY <1>5 DEF t

-----------------------------------------------------------------------------
(* A record of the tree is shown.                                          *)

\* A record in the tree, or shown, has the fields of the one of the pipe.
LEMMA RecordOfPipe ==
    ASSUME Readable(pipe), NEW g \in Nat, NEW m \in 1..Len(pipe),
           NEW r, Origin(r, m, g)
    PROVE  /\ r \in Records /\ r.time \in Nat /\ r.seq \in Nat /\ r.cpu \in Cpus
           /\ r.kind = "message" <=> ~IsEvent(r)
           /\ IsEvent(r) => r.seq \in 1..MaxEvents
           /\ (IsEvent(r) <=> IsEvent(pipe[m])) /\ r.cpu = pipe[m].cpu
           /\ r.seq = pipe[m].seq /\ r.time = pipe[m].time - g
<1>1. /\ pipe[m] \in Records /\ r = Shifted(pipe[m], g) /\ g <= pipe[m].time
      /\ IsTrace(pipe[m]) /\ (IsEvent(pipe[m]) => pipe[m].seq \in 1..MaxEvents)
  BY DEF Origin, Readable
<1>2. /\ r \in Records /\ r.kind = pipe[m].kind /\ (IsEvent(r) <=> IsEvent(pipe[m]))
      /\ r.seq = pipe[m].seq /\ r.cpu = pipe[m].cpu /\ r.time = pipe[m].time - g
  BY <1>1, ShiftedFields
<1>3. r.time \in Nat /\ r.seq \in Nat /\ r.cpu \in Cpus
  BY <1>2, RecordFields
<1> QED BY <1>1, <1>2, <1>3 DEF IsTrace, IsEvent

\* The first of the tree comes before the rest of it.
LEMMA FirstEarlier ==
    ASSUME Readable(pipe), NEW g \in Nat, NEW n \in Nat, n <= Len(pipe),
           NEW s \in Seq(Records), Ordered(s), Distinct(s), s # <<>>,
           \A j \in DOMAIN s : \E m \in 1..n : Origin(s[j], m, g),
           NEW k \in DOMAIN s, k # 1
    PROVE  Earlier(s[1], s[k])
<1> SUFFICES ASSUME IsEvent(s[1]), IsEvent(s[k]), s[1].cpu = s[k].cpu
             PROVE  s[1].seq < s[k].seq
  BY DEF Earlier
<1>1. 1 \in DOMAIN s /\ DOMAIN s = 1..Len(s) /\ Len(s) \in Nat
  BY TailFields
<1>2. ~Later(s[1], s[k])
  BY <1>1 DEF Ordered
<1>3. PICK a \in 1..n : Origin(s[1], a, g)
  BY <1>1
<1>4. PICK b \in 1..n : Origin(s[k], b, g)
  OBVIOUS
<1>5. Len(pipe) \in Nat /\ a \in 1..Len(pipe) /\ b \in 1..Len(pipe)
  BY DEF Readable
<1>6. /\ s[1].seq \in Nat /\ s[1].time \in Nat
      /\ s[k].seq \in Nat /\ s[k].time \in Nat
  BY <1>3, <1>4, <1>5, RecordOfPipe
<1>7. s[1].seq # s[k].seq
  BY <1>1 DEF Distinct
<1>8. CASE a < b
  BY <1>3, <1>4, <1>5, <1>8, EventsApart
<1>9. CASE b < a
  <2>1. s[k].seq < s[1].seq /\ s[k].time <= s[1].time
    BY <1>3, <1>4, <1>5, <1>9, EventsApart
  <2> QED BY <1>2, <1>6, <2>1 DEF Later
<1>10. CASE a = b
  <2>1. s[1] = s[k]
    BY <1>3, <1>4, <1>10 DEF Origin
  <2> QED BY <1>7, <2>1
<1> QED BY <1>5, <1>8, <1>9, <1>10

\* The skips of a CPU when a number above the last is shown.
LEMMA SkipsGrow ==
    ASSUME NEW c \in Cpus, PipeTypes, SkipsBelow(c), LastOK(c),
           Covered(c) = Gaps(Numbers(c)), Numbers(c) \subseteq Nat,
           NEW r \in Records, EventOf(r, c), r.kind # "message",
           \A n \in Numbers(c) : n < r.seq
    PROVE  /\ Skips(r)[c] \in Seq(Skip)
           /\ \A k \in DOMAIN Skips(r)[c] :
                 /\ Skips(r)[c][k].start <= Skips(r)[c][k].end
                 /\ Skips(r)[c][k].end < r.seq
           /\ CoveredBy(Skips(r)[c]) = Gaps(Numbers(c) \cup {r.seq})
<1> DEFINE s == skips[c]
           q == r.seq
           l == last_sequence[c]
<1>1. /\ q \in Nat /\ r.cpu = c /\ skips \in [Cpus -> Seq(Skip)] /\ s \in Seq(Skip)
      /\ l \in Nat \cup {-1} /\ NotYet = -1
  BY RecordFields DEF EventOf, PipeTypes, NotYet
<1>2. /\ Len(s) \in Nat /\ DOMAIN s = 1..Len(s)
      /\ \A k \in DOMAIN s : s[k] \in Skip /\ s[k].start \in Nat /\ s[k].end \in Nat
  <2>1. /\ Len(s) \in Nat /\ DOMAIN s = 1..Len(s)
        /\ \A k \in DOMAIN s : s[k] \in Skip
    BY <1>1, LenProperties, ElementOfSeq
  <2> QED BY <2>1 DEF Skip
<1>3. \A k \in DOMAIN s : s[k].start <= s[k].end /\ s[k].end < l
  BY DEF SkipsBelow
<1>4. CoveredBy(s) = Gaps(Numbers(c))
  BY DEF Covered, CoveredBy
<1>5. CASE Numbers(c) = {}
  <2>1. l = -1
    BY <1>1, <1>5 DEF LastOK
  <2>2. InSequence(r)
    BY <1>1, <2>1 DEF InSequence, Expected
  <2>3. Skips(r)[c] = s
    BY <2>2 DEF Skips
  <2>4. CoveredBy(s) = Gaps(Numbers(c) \cup {q})
    BY <1>1, <1>4, <1>5, NoGaps
  <2>5. \A k \in DOMAIN s : s[k].start <= s[k].end /\ s[k].end < q
    BY <1>1, <1>2, <1>3, <2>1
  <2> QED BY <1>1, <2>3, <2>4, <2>5
<1>6. CASE Numbers(c) # {}
  <2>1. l \in Numbers(c) /\ (\A n \in Numbers(c) : n <= l) /\ l \in Nat /\ l < q
    BY <1>6 DEF LastOK
  <2>2. \A k \in DOMAIN s : s[k].start <= s[k].end /\ s[k].end < q
    BY <1>1, <1>2, <1>3, <2>1
  <2>3. Gaps(Numbers(c) \cup {q}) = Gaps(Numbers(c)) \cup (l + 1..q - 1)
    BY <1>1, <2>1, GapsGrow
  <2>4. CASE InSequence(r)
    <3>1. Skips(r)[c] = s
      BY <2>4 DEF Skips
    <3>2. l + 1 = q
      BY <1>1, <2>1, <2>4 DEF InSequence, Expected
    <3>3. l + 1..q - 1 = {}
      BY <1>1, <2>1, <3>2
    <3> QED BY <1>1, <1>4, <2>2, <2>3, <3>1, <3>3
  <2>5. CASE ~InSequence(r)
    <3> DEFINE x == [start |-> l + 1, end |-> q - 1]
               first == l + 1
               last == q - 1
    <3>1. l + 1 # q /\ l + 1 < q /\ Expected(c) = l + 1
      BY <1>1, <2>1, <2>5 DEF InSequence, Expected
    <3>2. InSkip(s, q) = {}
      BY <1>1, <1>2, <2>2 DEF InSkip
    <3>3. {k \in DOMAIN s : last = s[k].start - 1 \/ first = s[k].end + 1} = {}
      <4> SUFFICES ASSUME NEW k \in DOMAIN s, last = s[k].start - 1 \/ first = s[k].end + 1
                   PROVE  FALSE
        OBVIOUS
      <4> QED BY <1>1, <1>2, <1>3, <2>1, <2>2
    <3>4. WithSkip(s, first, last) = Append(s, x)
      BY <3>3 DEF WithSkip
    <3>5. Skips(r)[c] = Append(s, x)
      BY <1>1, <2>5, <3>1, <3>2, <3>4 DEF Skips
    <3>6. x \in Skip /\ x.start = l + 1 /\ x.end = q - 1
      BY <1>1, <2>1, <3>1 DEF Skip
    <3> HIDE DEF x
    <3>7. CoveredBy(Append(s, x)) = CoveredBy(s) \cup (l + 1..q - 1)
      BY <1>1, <3>6, CoveredAppend
    <3>8. /\ Append(s, x) \in Seq(Skip)
          /\ \A k \in DOMAIN s : Append(s, x)[k] = s[k]
          /\ Append(s, x)[Len(s) + 1] = x
          /\ \A k \in DOMAIN Append(s, x) : k \in DOMAIN s \/ k = Len(s) + 1
      BY <1>1, <3>6, AppendFields
    <3>9. x.start <= x.end /\ x.end < q
      BY <1>1, <2>1, <3>1, <3>6
    <3>10. \A k \in DOMAIN Append(s, x) :
              Append(s, x)[k].start <= Append(s, x)[k].end /\ Append(s, x)[k].end < q
      BY <2>2, <3>8, <3>9
    <3> QED BY <1>4, <2>3, <3>5, <3>7, <3>8, <3>10
  <2> QED BY <2>4, <2>5
<1> QED BY <1>5, <1>6

\* What is taken and shown of the pipe's records comes from records read.
LEMMA PipeReadable ==
    ASSUME KernelInv, mode = "pipe"
    PROVE  /\ 0 \in Cpus /\ KernelTypes /\ Readable(pipe) /\ pipe \in Seq(Records)
           /\ Len(pipe) \in Nat
<1>1. 0 \in Cpus
  BY BlkparseAssumption, LiveTraceAssumption
<1>2. Readable(Wire(0)) /\ Wire(0) = pipe
  BY <1>1, WireReadable DEF Wire
<1> QED BY <1>1, <1>2 DEF KernelInv, Readable

\* Showing the first record of the tree preserves the invariant of the pipe.
LEMMA ShowFirstInv ==
    ASSUME KernelInv, PipeInv, mode = "pipe", ShowFirst
    PROVE  PipeInv'
<1> DEFINE r == tree[1]
           g == genesis_time
           n == taken[0]
           x == [rec |-> r, known |-> Known(r)]
<1>1. /\ 0 \in Cpus /\ KernelTypes /\ Readable(pipe) /\ Len(pipe) \in Nat
      /\ taken \in [Cpus -> Nat] /\ n \in Nat /\ n <= Len(pipe)
      /\ g \in Nat \cup {Unset}
  BY PipeReadable DEF PipeInv
<1>2. /\ bpc \in {"show", "force"} /\ tree # <<>> /\ tree' = Tail(tree)
      /\ skips' = Skips(r)
      /\ last_sequence' = IF r.kind = "message" THEN last_sequence
                          ELSE [last_sequence EXCEPT ![r.cpu] = r.seq]
      /\ shown' = Append(shown, x)
      /\ UNCHANGED <<pipe, mode, stopwatch, bpc, taken, genesis_time>>
  BY Zenon DEF ShowFirst
<1> SUFFICES ASSUME ~Early'
             PROVE  (PipeTypes /\ OriginsOK /\ TreeOK /\ ShownOK /\ NoneLost /\ GapsOK)'
  BY <1>1, <1>2 DEF PipeInv
<1>3. PipeTypes /\ OriginsOK /\ TreeOK /\ ShownOK /\ NoneLost /\ GapsOK
  <2>1. ~Early
    BY <1>2 DEF Early, ReadSoFar
  <2> QED BY <2>1 DEF PipeInv
<1>4. tree \in Seq(Records) /\ shown \in Seq(Shown)
      /\ last_sequence \in [Cpus -> Nat \cup {NotYet}] /\ skips \in [Cpus -> Seq(Skip)]
  BY <1>3 DEF PipeTypes
<1>5. /\ Len(tree) \in Nat /\ DOMAIN tree = 1..Len(tree) /\ 1 \in DOMAIN tree
      /\ r \in Records /\ tree' \in Seq(Records) /\ DOMAIN tree' = 1..Len(tree) - 1
      /\ \A k \in DOMAIN tree' : tree'[k] = tree[k + 1] /\ k + 1 \in DOMAIN tree
      /\ \A k \in DOMAIN tree : k = 1 \/ k - 1 \in DOMAIN tree'
  BY <1>2, <1>4, TailFields
<1>6. g \in Nat /\ \E m \in 1..n : Origin(r, m, g)
  BY <1>1, <1>3, <1>5 DEF OriginsOK
<1>7. \A m \in 1..n : m \in 1..Len(pipe)
  BY <1>1
<1>8. /\ r.time \in Nat /\ r.seq \in Nat /\ r.cpu \in Cpus
      /\ r.kind = "message" <=> ~IsEvent(r)
  BY <1>1, <1>6, <1>7, RecordOfPipe
<1>9. x \in Shown /\ x.rec = r
  <2>1. Known(r) \in BOOLEAN
    BY DEF Known
  <2> QED BY <1>5, <2>1 DEF Shown
<1> DEFINE L == Len(shown) + 1
<1>10. /\ DOMAIN shown = 1..Len(shown) /\ Len(shown) \in Nat
       /\ shown' \in Seq(Shown) /\ DOMAIN shown' = 1..L
       /\ \A k \in DOMAIN shown : shown'[k] = shown[k] /\ k \in DOMAIN shown'
       /\ shown'[L] = x /\ L \in DOMAIN shown'
       /\ \A k \in DOMAIN shown' : k \in DOMAIN shown \/ k = L
  <2> HIDE DEF x
  <2> QED BY <1>2, <1>4, <1>9, AppendFields
<1> HIDE DEF x
<1>11. \A k \in DOMAIN tree : k # 1 => Earlier(r, tree[k])
  BY <1>1, <1>3, <1>4, <1>5, <1>6, <1>2, FirstEarlier DEF TreeOK, OriginsOK
<1>12. \A k \in DOMAIN shown : Earlier(shown[k].rec, r)
  BY <1>3, <1>5 DEF TreeOK
<1>13. \A c \in Cpus : Numbers(c) \subseteq Nat
  <2>1. \A k \in DOMAIN shown : shown[k] \in Shown
    BY <1>4, <1>10, ElementOfSeq
  <2>2. \A k \in DOMAIN shown : shown[k].rec.seq \in Nat
    BY <2>1, RecordFields DEF Shown
  <2> QED BY <2>2 DEF Numbers
<1>14. ASSUME NEW c \in Cpus
       PROVE  Numbers(c)' = IF EventOf(r, c) THEN Numbers(c) \cup {r.seq} ELSE Numbers(c)
  <2>1. Numbers(c)' = NumbersIn(shown', c) /\ Numbers(c) = NumbersIn(shown, c)
    BY DEF Numbers, NumbersIn
  <2> QED BY <1>2, <1>4, <1>9, <2>1, NumbersAppend
<1>15. ASSUME NEW c \in Cpus, EventOf(r, c)
       PROVE  \A k \in Numbers(c) : k < r.seq
  BY <1>12, <1>15 DEF Numbers, EventOf, Earlier
<1>16. /\ last_sequence' \in [Cpus -> Nat \cup {NotYet}]
       /\ \A c \in Cpus : last_sequence'[c] = IF EventOf(r, c) THEN r.seq ELSE last_sequence[c]
  BY <1>2, <1>4, <1>8 DEF EventOf
<1>17. ASSUME NEW c \in Cpus, EventOf(r, c)
       PROVE  /\ Skips(r)[c] \in Seq(Skip)
              /\ \A k \in DOMAIN Skips(r)[c] :
                    /\ Skips(r)[c][k].start <= Skips(r)[c][k].end
                    /\ Skips(r)[c][k].end < r.seq
              /\ CoveredBy(Skips(r)[c]) = Gaps(Numbers(c) \cup {r.seq})
  <2>1. SkipsBelow(c) /\ Covered(c) = Gaps(Numbers(c)) /\ LastOK(c) /\ r.kind # "message"
    BY <1>3, <1>8, <1>17 DEF GapsOK, ShownOK, EventOf
  <2> HIDE DEF r
  <2> QED BY <1>3, <1>5, <1>13, <1>15, <1>17, <2>1, SkipsGrow
<1>18. \A c \in Cpus : ~EventOf(r, c) => Skips(r)[c] = skips[c]
  BY <1>4, <1>8 DEF Skips, InSequence, EventOf
<1>19. DOMAIN Skips(r) = Cpus /\ Skips(r) = [c \in Cpus |-> Skips(r)[c]]
  BY <1>4 DEF Skips
<1>20. PipeTypes'
  <2>1. \A c \in Cpus : Skips(r)[c] \in Seq(Skip)
    BY <1>4, <1>17, <1>18
  <2>2. Skips(r) \in [Cpus -> Seq(Skip)]
    <3> DEFINE f == Skips(r)
    <3> HIDE DEF f
    <3>1. f = [c \in Cpus |-> f[c]] /\ \A c \in Cpus : f[c] \in Seq(Skip)
      BY <1>19, <2>1 DEF f
    <3>2. f \in [Cpus -> Seq(Skip)]
      BY <3>1
    <3> QED BY <3>2 DEF f
  <2> QED BY <1>2, <1>5, <1>10, <1>16, <2>2 DEF PipeTypes
<1>21. OriginsOK'
  <2>1. ASSUME NEW k \in DOMAIN tree' PROVE \E m \in 1..n : Origin(tree'[k], m, g)
    BY <1>3, <1>5 DEF OriginsOK
  <2>2. ASSUME NEW k \in DOMAIN shown' PROVE \E m \in 1..n : Origin(shown'[k].rec, m, g)
    BY <1>3, <1>6, <1>9, <1>10 DEF OriginsOK
  <2>3. g # Unset
    BY <1>6 DEF Unset
  <2> QED BY <1>2, <2>1, <2>2, <2>3 DEF OriginsOK, Origin, InStopwatch
<1>22. TreeOK'
  <2>1. Ordered(tree') /\ Distinct(tree')
    <3>1. ASSUME NEW j \in DOMAIN tree', NEW k \in DOMAIN tree', j < k
          PROVE  ~Later(tree'[j], tree'[k])
      <4>1. j + 1 < k + 1
        BY <1>5, <3>1
      <4> QED BY <1>3, <1>5, <4>1 DEF TreeOK, Ordered
    <3>2. ASSUME NEW j \in DOMAIN tree', NEW k \in DOMAIN tree', j # k,
                 IsEvent(tree'[j]), IsEvent(tree'[k]), tree'[j].cpu = tree'[k].cpu
          PROVE  tree'[j].seq # tree'[k].seq
      <4>1. j + 1 # k + 1
        BY <1>5, <3>2
      <4> QED BY <1>3, <1>5, <3>2, <4>1 DEF TreeOK, Distinct
    <3> QED BY <3>1, <3>2 DEF Ordered, Distinct
  <2>2. ASSUME NEW j \in DOMAIN shown', NEW k \in DOMAIN tree'
        PROVE  Earlier(shown'[j].rec, tree'[k])
    <3>1. k + 1 \in DOMAIN tree /\ k + 1 # 1 /\ tree'[k] = tree[k + 1]
      BY <1>5
    <3>2. CASE j \in DOMAIN shown
      BY <1>3, <1>10, <3>1, <3>2 DEF TreeOK
    <3>3. CASE j = L
      BY <1>9, <1>10, <1>11, <3>1, <3>3
    <3> QED BY <1>10, <3>2, <3>3
  <2> QED BY <2>1, <2>2 DEF TreeOK
<1>23. ShownOK'
  <2>1. ASSUME NEW j \in DOMAIN shown', NEW k \in DOMAIN shown', j < k
        PROVE  Earlier(shown'[j].rec, shown'[k].rec)
    <3>1. j \in DOMAIN shown
      BY <1>10, <2>1
    <3>2. CASE k \in DOMAIN shown
      BY <1>3, <1>10, <2>1, <3>1, <3>2 DEF ShownOK
    <3>3. CASE k = L
      BY <1>9, <1>10, <1>12, <3>1, <3>3
    <3> QED BY <1>10, <3>2, <3>3
  <2>2. ASSUME NEW c \in Cpus
        PROVE  LastOK(c)'
    <3>1. CASE EventOf(r, c)
      <4>1. last_sequence'[c] = r.seq /\ Numbers(c)' = Numbers(c) \cup {r.seq}
        BY <1>14, <1>16, <3>1
      <4>2. \A k \in Numbers(c) : k <= r.seq
        BY <1>8, <1>13, <1>15, <3>1
      <4>3. \A k \in Numbers(c) \cup {r.seq} : k <= r.seq
        BY <1>8, <4>2
      <4> QED BY <4>1, <4>3 DEF LastOK
    <3>2. CASE ~EventOf(r, c)
      <4>1. last_sequence'[c] = last_sequence[c] /\ Numbers(c)' = Numbers(c)
        BY <1>14, <1>16, <3>2
      <4> QED BY <1>3, <4>1 DEF LastOK, ShownOK
    <3> QED BY <3>1, <3>2
  <2> QED BY <2>1, <2>2 DEF ShownOK
<1>24. NoneLost'
  <2> SUFFICES ASSUME \A m \in 1..n : Usable(pipe[m]),
                      NEW m \in 1..n, IsEvent(pipe[m]), InStopwatch(Shifted(pipe[m], g))
               PROVE  \/ \E k \in DOMAIN tree' : tree'[k] = Shifted(pipe[m], g)
                      \/ \E k \in DOMAIN shown' : shown'[k].rec = Shifted(pipe[m], g)
    BY <1>2 DEF NoneLost, InStopwatch
  <2>1. CASE \E k \in DOMAIN shown : shown[k].rec = Shifted(pipe[m], g)
    BY <1>10, <2>1
  <2>2. CASE \E k \in DOMAIN tree : tree[k] = Shifted(pipe[m], g)
    <3>1. PICK k \in DOMAIN tree : tree[k] = Shifted(pipe[m], g)
      BY <2>2
    <3>2. CASE k = 1
      BY <1>9, <1>10, <3>1, <3>2
    <3>3. CASE k # 1
      <4>1. k - 1 \in DOMAIN tree' /\ (k - 1) + 1 = k
        BY <1>5, <3>3
      <4> QED BY <1>5, <3>1, <4>1
    <3> QED BY <3>2, <3>3
  <2> QED BY <1>3, <2>1, <2>2 DEF NoneLost
<1>25. GapsOK'
  <2>1. ASSUME NEW c \in Cpus
        PROVE  SkipsBelow(c)' /\ Covered(c)' = Gaps(Numbers(c)')
    <3>1. skips'[c] = Skips(r)[c] /\ Covered(c)' = CoveredBy(skips'[c])
      BY <1>2 DEF Covered, CoveredBy
    <3>2. CASE EventOf(r, c)
      BY <1>14, <1>16, <1>17, <3>1, <3>2 DEF SkipsBelow
    <3>3. CASE ~EventOf(r, c)
      <4>1. Covered(c)' = Covered(c) /\ Numbers(c)' = Numbers(c)
        BY <1>14, <1>18, <3>1, <3>3 DEF Covered, CoveredBy
      <4>2. SkipsBelow(c)'
        BY <1>3, <1>16, <1>18, <3>1, <3>3 DEF GapsOK, SkipsBelow
      <4> QED BY <1>3, <4>1, <4>2 DEF GapsOK
    <3> QED BY <3>2, <3>3
  <2> QED BY <2>1 DEF GapsOK, Gaps
<1> QED BY <1>20, <1>21, <1>22, <1>23, <1>24, <1>25

\* If all that was read can be used, the first of the tree is in sequence: the
\* number before it is not missing.
LEMMA FirstInSequence ==
    ASSUME KernelInv, ParseTypes, wireEnded, mode = "pipe", taken[0] \in Nat, taken[0] <= Len(pipe),
           genesis_time \in Nat \cup {Unset},
           PipeTypes, OriginsOK, TreeOK, ShownOK, NoneLost,
           \A m \in 1..taken[0] : Usable(pipe[m]), tree # <<>>
    PROVE  InSequence(tree[1])
<1> DEFINE r == tree[1]
           g == genesis_time
           n == taken[0]
           c == r.cpu
           l == last_sequence[c]
<1> SUFFICES ASSUME ~InSequence(r) PROVE FALSE
  OBVIOUS
<1>1. Readable(pipe) /\ Len(pipe) \in Nat /\ n \in Nat /\ n <= Len(pipe)
      /\ DOMAIN pipe = 1..Len(pipe)
  BY PipeReadable DEF Readable
<1>2. /\ tree \in Seq(Records) /\ last_sequence \in [Cpus -> Nat \cup {-1}]
      /\ 1 \in DOMAIN tree /\ Unset = -1 /\ NotYet = -1
  BY TailFields DEF PipeTypes, NotYet, Unset
<1>3. g \in Nat
  BY <1>2 DEF OriginsOK
<1>4. PICK b \in 1..n : Origin(r, b, g)
  BY <1>2 DEF OriginsOK
<1>5. \A m \in 1..n : m \in 1..Len(pipe)
  BY <1>1
<1>6. /\ r.kind # "message" /\ IsEvent(r) /\ r.seq \in Nat /\ c \in Cpus
      /\ IsEvent(pipe[b]) /\ c = pipe[b].cpu /\ r.seq = pipe[b].seq
      /\ r.time = pipe[b].time - g
  <2>1. r.kind # "message"
    BY DEF InSequence
  <2> HIDE DEF r
  <2> QED BY <1>1, <1>3, <1>4, <1>5, <2>1, RecordOfPipe
<1>7. l \in Nat /\ l + 1 # r.seq /\ l # NotYet
  BY <1>2, <1>6 DEF InSequence, Expected
<1>8. l \in Numbers(c) /\ \A k \in Numbers(c) : k <= l
  BY <1>6, <1>7 DEF ShownOK, LastOK
<1>9. PICK j \in DOMAIN shown : EventOf(shown[j].rec, c) /\ shown[j].rec.seq = l
  BY <1>8 DEF Numbers
<1>10. PICK a \in 1..n : Origin(shown[j].rec, a, g)
  BY DEF OriginsOK
<1>11. /\ IsEvent(pipe[a]) /\ c = pipe[a].cpu /\ l = pipe[a].seq
       /\ shown[j].rec.time = pipe[a].time - g
  BY <1>1, <1>3, <1>5, <1>9, <1>10, RecordOfPipe DEF EventOf
<1>12. l < r.seq
  BY <1>2, <1>6, <1>9 DEF TreeOK, Earlier, EventOf
\* The number is in the pipe, between the two.
<1>13. PICK e \in DOMAIN pipe : IsEvent(pipe[e]) /\ pipe[e].cpu = c /\ pipe[e].seq = l + 1
  <2>1. /\ Wire(c) = pipe /\ relay[c] = <<>> /\ AllPossible(Wire(c), now, sequence)
        /\ \A q \in 1..sequence[c] : Has(Wire(c), c, q) \/ Has(relay[c], c, q)
    BY <1>6 DEF KernelInv, StreamOK, WireOK, Wire
  <2>2. r.seq \in 1..sequence[c]
    <3>1. b \in DOMAIN pipe
      BY <1>1, <1>5
    <3>2. Possible(pipe[b], now, sequence)
      BY <2>1, <3>1 DEF AllPossible
    <3>3. pipe[b].seq \in 1..sequence[pipe[b].cpu]
      BY <1>6, <3>2 DEF Possible
    <3> QED BY <1>6, <3>3
  <2>3. sequence[c] \in Nat
    BY <1>6, KernelEventsAssumption DEF KernelInv, KernelTypes
  <2>4. l + 1 \in 1..sequence[c]
    BY <1>7, <1>12, <2>2, <2>3
  <2>5. ~Has(<<>>, c, l + 1)
    BY DEF Has
  <2> QED BY <2>1, <2>4, <2>5 DEF Has
<1>14. /\ \A i, k \in DOMAIN pipe : i < k /\ pipe[i].cpu = pipe[k].cpu => Before(pipe[i], pipe[k])
       /\ \A k \in DOMAIN pipe : pipe[k].time \in Nat /\ pipe[k] \in Records
  BY <1>1, RecordFields DEF Readable, InOrder
<1>15. a < e /\ e < b
  <2> HIDE DEF c, l, r, g
  <2>0. a \in DOMAIN pipe /\ b \in DOMAIN pipe
    BY <1>1, <1>5
  <2>1. ~(b < e) /\ ~(e < a)
    <3>1. ASSUME b < e PROVE FALSE
      <4>1. pipe[b].seq < pipe[e].seq
        BY <1>6, <1>13, <1>14, <2>0, <3>1 DEF Before
      <4> QED BY <1>6, <1>7, <1>12, <1>13, <4>1
    <3>2. ASSUME e < a PROVE FALSE
      <4>1. pipe[e].seq < pipe[a].seq
        BY <1>11, <1>13, <1>14, <2>0, <3>2 DEF Before
      <4> QED BY <1>7, <1>11, <1>13, <4>1
    <3> QED BY <3>1, <3>2
  <2>2. a # e /\ e # b
    BY <1>6, <1>7, <1>11, <1>13
  <2> QED BY <1>1, <2>1, <2>2
<1>16. e \in 1..n /\ pipe[a].time <= pipe[e].time /\ pipe[e].time <= pipe[b].time
  <2>1. e \in 1..n
    BY <1>1, <1>15
  <2>2. a \in DOMAIN pipe /\ b \in DOMAIN pipe
    BY <1>1, <1>5
  <2>3. Before(pipe[a], pipe[e])
    BY <1>11, <1>13, <1>14, <1>15, <2>2
  <2>4. Before(pipe[e], pipe[b])
    BY <1>6, <1>13, <1>14, <1>15, <2>2
  <2> QED BY <2>1, <2>3, <2>4 DEF Before
<1> DEFINE x == Shifted(pipe[e], g)
<1>17. /\ g <= pipe[a].time /\ InStopwatch(shown[j].rec) /\ InStopwatch(r)
       /\ pipe[a].time \in Nat /\ pipe[b].time \in Nat /\ pipe[e].time \in Nat
  BY <1>1, <1>4, <1>5, <1>10, <1>14 DEF Origin
<1>18. /\ x.time = pipe[e].time - g /\ x.seq = l + 1 /\ x.cpu = c /\ IsEvent(x)
  <2>1. g <= pipe[e].time /\ pipe[e] \in Records
    BY <1>3, <1>14, <1>16, <1>17
  <2> QED BY <1>3, <1>13, <2>1, ShiftedFields
<1> HIDE DEF x
<1>19. InStopwatch(x)
  <2>1. stopwatch.start \in Nat /\ stopwatch.end \in Nat
    BY DEF ParseTypes
  <2>2. r.time < stopwatch.end /\ shown[j].rec.time >= stopwatch.start
    BY <1>17 DEF InStopwatch
  <2> HIDE DEF r, c, l, g
  <2>3. x.time < stopwatch.end
    BY <1>3, <1>6, <1>16, <1>17, <1>18, <2>1, <2>2
  <2>4. x.time >= stopwatch.start
    BY <1>3, <1>11, <1>16, <1>17, <1>18, <2>1, <2>2
  <2> QED BY <2>3, <2>4 DEF InStopwatch
<1>20. \/ \E k \in DOMAIN tree : tree[k] = x
       \/ \E k \in DOMAIN shown : shown[k].rec = x
  BY <1>13, <1>16, <1>19 DEF NoneLost, x
<1>21. ASSUME NEW k \in DOMAIN tree, tree[k] = x PROVE FALSE
  <2>1. k # 1
    BY <1>7, <1>18, <1>21
  <2>2. Earlier(r, tree[k])
    BY <1>1, <1>2, <1>3, <2>1, FirstEarlier DEF TreeOK, OriginsOK
  <2>3. r.seq < l + 1
    BY <1>6, <1>18, <1>21, <2>2 DEF Earlier
  <2> QED BY <1>6, <1>7, <1>12, <2>3
<1>22. ASSUME NEW k \in DOMAIN shown, shown[k].rec = x PROVE FALSE
  <2>1. l + 1 \in Numbers(c)
    BY <1>18, <1>22 DEF Numbers, EventOf
  <2> QED BY <1>7, <1>8, <2>1
<1> QED BY <1>20, <1>21, <1>22

-----------------------------------------------------------------------------
(* The invariant of the pipe.                                              *)

\* blkparse has not read anything from a pipe.
Fresh ==
    /\ taken = [c \in Cpus |-> 0] /\ genesis_time = Unset /\ shown = <<>>
    /\ tree = <<>> /\ last_sequence = [c \in Cpus |-> NotYet]
    /\ skips = [c \in Cpus |-> <<>>]

\* It holds before anything is read.
LEMMA PipeInvFresh == KernelTypes /\ Fresh => PipeInv
<1> SUFFICES ASSUME KernelTypes, Fresh, mode = "pipe"
             PROVE  /\ taken \in [Cpus -> Nat] /\ taken[0] <= Len(pipe)
                    /\ genesis_time \in Nat \cup {Unset}
                    /\ PipeTypes /\ OriginsOK /\ TreeOK /\ ShownOK /\ NoneLost /\ GapsOK
  BY DEF PipeInv
<1>1. /\ taken = [c \in Cpus |-> 0] /\ genesis_time = Unset /\ shown = <<>>
      /\ tree = <<>> /\ last_sequence = [c \in Cpus |-> NotYet]
      /\ skips = [c \in Cpus |-> <<>>]
  BY DEF Fresh
<1>2. 0 \in Cpus /\ Len(pipe) \in Nat
  <2>1. pipe \in Seq(Records)
    BY DEF KernelTypes
  <2> QED BY <2>1, LenProperties, BlkparseAssumption, LiveTraceAssumption
<1>3. taken \in [Cpus -> Nat] /\ taken[0] = 0 /\ taken[0] <= Len(pipe)
      /\ \A m \in 1..taken[0] : FALSE
  BY <1>1, <1>2
<1>4. DOMAIN tree = {} /\ DOMAIN shown = {} /\ \A c \in Cpus : DOMAIN skips[c] = {}
  BY <1>1
<1>5. PipeTypes
  <2>1. <<>> \in Seq(Records) /\ <<>> \in Seq(Shown) /\ <<>> \in Seq(Skip)
    OBVIOUS
  <2> QED BY <1>1, <2>1 DEF PipeTypes
<1>6. \A c : Numbers(c) = {}
  BY <1>4 DEF Numbers
<1>7. OriginsOK
  BY <1>3, <1>4 DEF OriginsOK
<1>8. TreeOK
  BY <1>4 DEF TreeOK, Ordered, Distinct
<1>9. ShownOK
  BY <1>1, <1>4, <1>6 DEF ShownOK, LastOK
<1>10. NoneLost
  BY <1>1, <1>3 DEF NoneLost
<1>11. GapsOK
  <2>1. \A c \in Cpus : Covered(c) = {}
    BY <1>4 DEF Covered
  <2> QED BY <1>4, <1>6, <2>1, NoGaps DEF GapsOK, SkipsBelow
<1> QED BY <1>1, <1>3, <1>5, <1>7, <1>8, <1>9, <1>10, <1>11

\* Steps that leave the pipe's part of blkparse alone.
LEMMA PipeInvSame ==
    ASSUME PipeInv,
           UNCHANGED <<pipe, mode, stopwatch, taken, genesis_time, shown, pipevars>>,
           mode = "pipe" /\ ~Early /\ bpc' = "read" /\ bpc # "read"
           /\ (\A m \in 1..taken[0] : Usable(pipe[m])) => tree = <<>>
    PROVE  PipeInv'
<1> SUFFICES ASSUME mode = "pipe" PROVE PipeInv'
  BY DEF PipeInv
<1>1. UNCHANGED <<pipe, mode, stopwatch, taken, genesis_time, shown, tree,
                  last_sequence, skips>>
  BY DEF pipevars
<1> SUFFICES ASSUME ~Early'
             PROVE  (PipeTypes /\ OriginsOK /\ TreeOK /\ ShownOK /\ NoneLost /\ GapsOK)'
  BY <1>1 DEF PipeInv
<1>2. ~Early
  BY <1>1 DEF Early, ReadSoFar
<1>3. PipeTypes /\ OriginsOK /\ TreeOK /\ ShownOK /\ NoneLost /\ GapsOK
  BY <1>2 DEF PipeInv
<1>4. PipeTypes'
  BY <1>1, <1>3 DEF PipeTypes
<1>5. OriginsOK'
  BY <1>1, <1>3 DEF OriginsOK, Origin, InStopwatch
<1>6. TreeOK'
  BY <1>1, <1>3 DEF TreeOK
<1>7. ShownOK'
  BY <1>1, <1>3 DEF ShownOK, LastOK, Numbers
<1>8. NoneLost'
  BY <1>1, <1>2, <1>3 DEF NoneLost, InStopwatch
<1>9. GapsOK'
  BY <1>1, <1>3 DEF GapsOK, SkipsBelow, Covered, Numbers
<1> QED BY <1>4, <1>5, <1>6, <1>7, <1>8, <1>9

\* Every step preserves the invariant of the pipe.
LEMMA PipeInvStep ==
    ASSUME KernelInv, KernelInv', ParseTypes, PipeInv, [Next]_vars
    PROVE  PipeInv'
<1>1. (KernelTypes /\ Fresh => PipeInv)'
  BY PipeInvFresh, PTL
<1>2. KernelTypes'
  BY DEF KernelInv
<1>3. bpc = "start" => Fresh
  BY DEF ParseTypes, Unstarted, Fresh
<1>4. ASSUME UNCHANGED blkparse, bpc = "start"
      PROVE  PipeInv'
  <2>1. Fresh'
    BY <1>3, <1>4 DEF Fresh, blkparse, pipevars
  <2> QED BY <1>1, <1>2, <2>1
<1>5. ~wireEnded => bpc = "start"
  BY DEF ParseTypes
<1>6. CASE ~wireEnded /\ KernelNext /\ UNCHANGED <<pipe, files, wireEnded, blkparse>>
  BY <1>4, <1>5, <1>6
<1>7. ASSUME NEW c \in Cpus, NEW state, Transfer(c, state)
      PROVE  PipeInv'
  BY <1>4, <1>5, <1>7 DEF Transfer
<1>8. CASE EndWire
  BY <1>4, <1>5, <1>8 DEF EndWire
<1>9. CASE wireEnded /\ ParseStep /\ UNCHANGED <<kernel, wireEnded>>
  <2>1. UNCHANGED <<pipe, mode, stopwatch>>
    BY <1>9, ParsingOnlyReads
  <2>2. ASSUME mode # "pipe" PROVE PipeInv'
    BY <2>1, <2>2 DEF PipeInv
  <2>3. bpc \in {"setup", "merge"} => mode # "pipe"
    BY DEF ParseTypes
  <2>4. ASSUME NEW k \in 0..Len(pipe) - taken[0], ReadBatch(k) PROVE PipeInv'
    BY <2>2, <2>4, ReadBatchInv
  <2>5. CASE ShowFirst
    BY <2>2, <2>5, ShowFirstInv
  <2>6. CASE ShowNoMore
    <3>1. /\ tree # <<>> => bpc = "show" /\ ~InSequence(tree[1])
          /\ bpc' = IF bpc = "show" THEN "read" ELSE "end"
          /\ UNCHANGED <<pipe, mode, stopwatch, taken, genesis_time, shown, pipevars>>
      BY <2>6 DEF ShowNoMore
    <3>2. ASSUME mode = "pipe", ~Early, tree # <<>>,
                 \A m \in 1..taken[0] : Usable(pipe[m])
          PROVE  FALSE
      <4>1. /\ PipeTypes /\ OriginsOK /\ TreeOK /\ ShownOK /\ NoneLost
            /\ taken \in [Cpus -> Nat] /\ taken[0] <= Len(pipe)
            /\ genesis_time \in Nat \cup {Unset}
        BY <3>2 DEF PipeInv
      <4>2. taken[0] \in Nat
        BY <3>2, <4>1, PipeReadable
      <4> QED BY <1>9, <3>1, <3>2, <4>1, <4>2, FirstInSequence
    <3> QED BY <3>1, <3>2, PipeInvSame
  <2>7. CASE GiveUpPipe
    <3>1. /\ bpc' = "force"
          /\ UNCHANGED <<pipe, mode, stopwatch, taken, genesis_time, shown, pipevars>>
      BY <2>7 DEF GiveUpPipe
    <3> QED BY <3>1, PipeInvSame
  <2>8. ASSUME NEW c, SetupFile(c) PROVE PipeInv'
    <3>1. bpc = "setup"
      BY <2>8, Zenon DEF SetupFile
    <3> QED BY <2>2, <2>3, <3>1
  <2>9. ASSUME NEW c, Handle(c) PROVE PipeInv'
    <3>1. bpc = "merge"
      BY <2>9, Zenon DEF Handle
    <3> QED BY <2>2, <2>3, <3>1
  <2>10. CASE Merge \/ MergeEnds
    <3>1. bpc \in {"setup", "merge"}
      BY <2>10 DEF Merge, MergeEnds
    <3> QED BY <2>2, <2>3, <3>1
  <2>11. CASE StartParsing
    <3>1. bpc = "start" /\ UNCHANGED <<taken, genesis_time, shown, tree, last_sequence, skips>>
      BY <2>11 DEF StartParsing, pipevars
    <3>2. Fresh'
      BY <1>3, <3>1 DEF Fresh
    <3> QED BY <1>1, <1>2, <3>2
  <2> QED BY <1>9, <2>4, <2>5, <2>6, <2>7, <2>8, <2>9, <2>10, <2>11 DEF ParseStep
<1>10. CASE wireEnded /\ Interrupt /\ UNCHANGED <<kernel, wireEnded>>
  <2>1. /\ bpc' = bpc
        /\ UNCHANGED <<pipe, mode, stopwatch, taken, genesis_time, shown, pipevars>>
    BY <1>10 DEF Interrupt
  <2> QED BY <2>1, PipeInvSame
<1>11. CASE UNCHANGED vars
  <2>1. /\ bpc' = bpc
        /\ UNCHANGED <<pipe, mode, stopwatch, taken, genesis_time, shown, pipevars>>
    BY <1>11 DEF vars, blkparse
  <2> QED BY <2>1, PipeInvSame
<1> QED BY <1>6, <1>7, <1>8, <1>9, <1>10, <1>11 DEF Next

\* What blkparse does with a pipe.
THEOREM PipeInvariant == Spec => [](KernelInv /\ ParseTypes /\ PipeInv)
<1>1. Init => KernelInv /\ ParseTypes /\ PipeInv
  <2> SUFFICES ASSUME Init PROVE KernelInv /\ ParseTypes /\ PipeInv
    OBVIOUS
  <2>1. KernelInv /\ ParseTypes
    BY KernelInvInit, ParseTypesInit
  <2>2. Fresh
    BY LiveTraceAssumption DEF Init, BlkparseInit, Fresh
  <2>3. KernelTypes
    BY <2>1 DEF KernelInv
  <2> QED BY <2>1, <2>2, <2>3, PipeInvFresh
<1>2. KernelInv /\ ParseTypes /\ PipeInv /\ [Next]_vars => (KernelInv /\ ParseTypes /\ PipeInv)'
  <2> SUFFICES ASSUME KernelInv, ParseTypes, PipeInv, [Next]_vars
               PROVE  (KernelInv /\ ParseTypes /\ PipeInv)'
    OBVIOUS
  <2>1. KernelTypes
    BY DEF KernelInv
  <2>2. KernelInv' /\ ParseTypes'
    BY <2>1, KernelInvStep, ParseTypesStep
  <2> QED BY <2>2, PipeInvStep
<1> QED BY <1>1, <1>2, PTL DEF Spec

-----------------------------------------------------------------------------
(* Results about a pipe.                                                   *)

\* What is shown of a CPU's events stands in shown, in the same order.
LEMMA ShownOfShown ==
    ASSUME PipeTypes, NEW c
    PROVE  \E p : /\ DOMAIN ShownOf(c) = 1..Len(ShownOf(c)) /\ Len(ShownOf(c)) \in Nat
                  /\ p \in [1..Len(ShownOf(c)) -> DOMAIN shown]
                  /\ \A i, j \in 1..Len(ShownOf(c)) : i < j => p[i] < p[j]
                  /\ \A i \in 1..Len(ShownOf(c)) :
                        EventOf(shown[p[i]].rec, c) /\ ShownOf(c)[i] = shown[p[i]]
                  /\ \A k \in DOMAIN shown : EventOf(shown[k].rec, c)
                        => \E i \in 1..Len(ShownOf(c)) : p[i] = k
<1> DEFINE K == {k \in DOMAIN shown : /\ shown[k].rec.cpu = c
                                      /\ shown[k].rec.kind = "event"}
           u == ShownOf(c)
<1>1. shown \in Seq(Shown) /\ DOMAIN shown = 1..Len(shown)
  BY LenProperties DEF PipeTypes
<1>2. u = Those(shown, K)
  BY DEF ShownOf
<1>3. \A k \in DOMAIN shown : k \in K <=> EventOf(shown[k].rec, c)
  BY DEF EventOf, IsEvent
<1> HIDE DEF K, u
<1>4. u \in Seq(Shown)
  BY <1>1, <1>2, ThoseType
<1>5. DOMAIN u = 1..Len(u) /\ Len(u) \in Nat
  BY <1>4, LenProperties
<1>6. PICK p : PositionsIn(p, u, shown, K)
  BY <1>1, <1>2, ThosePositions
<1>7. /\ p \in [1..Len(u) -> DOMAIN shown]
      /\ \A i, j \in 1..Len(u) : i < j => p[i] < p[j]
      /\ \A i \in 1..Len(u) : p[i] \in K /\ u[i] = shown[p[i]]
      /\ \A k \in DOMAIN shown : k \in K => \E i \in 1..Len(u) : p[i] = k
  BY <1>1, <1>6 DEF PositionsIn
<1>8. \A i \in 1..Len(u) : EventOf(shown[p[i]].rec, c)
  BY <1>3, <1>7
<1>9. \A k \in DOMAIN shown : EventOf(shown[k].rec, c) => \E i \in 1..Len(u) : p[i] = k
  BY <1>3, <1>7
<1> QED BY <1>5, <1>7, <1>8, <1>9 DEF u

\* From a pipe the events of a CPU are shown in their order, and none waits for
\* the end of the trace unless a record has come damaged (ShownLive): for any
\* batches, buffers, times, CPUs and numbers of events.
THEOREM PipeIsShownLive == Spec => []ShownLive
<1>1. KernelInv /\ ParseTypes /\ PipeInv => ShownLive
  <2> SUFFICES ASSUME PipeInv, mode = "pipe", ~Early
               PROVE  /\ \A c \in Cpus : \A j, k \in DOMAIN ShownOf(c) :
                            j < k => ShownOf(c)[j].rec.seq < ShownOf(c)[k].rec.seq
                      /\ bpc = "read" /\ (\A r \in ReadSoFar : r.state = "good")
                            => tree = <<>>
    BY DEF ShownLive
  <2>1. PipeTypes /\ ShownOK /\ NoneLost
    BY DEF PipeInv
  <2>2. ASSUME NEW c \in Cpus, NEW j \in DOMAIN ShownOf(c),
               NEW k \in DOMAIN ShownOf(c), j < k
        PROVE  ShownOf(c)[j].rec.seq < ShownOf(c)[k].rec.seq
    <3>1. PICK p : /\ DOMAIN ShownOf(c) = 1..Len(ShownOf(c))
                   /\ p \in [1..Len(ShownOf(c)) -> DOMAIN shown]
                   /\ \A i, l \in 1..Len(ShownOf(c)) : i < l => p[i] < p[l]
                   /\ \A i \in 1..Len(ShownOf(c)) :
                         EventOf(shown[p[i]].rec, c) /\ ShownOf(c)[i] = shown[p[i]]
      BY <2>1, ShownOfShown
    <3>2. /\ p[j] \in DOMAIN shown /\ p[k] \in DOMAIN shown /\ p[j] < p[k]
          /\ EventOf(shown[p[j]].rec, c) /\ EventOf(shown[p[k]].rec, c)
          /\ ShownOf(c)[j] = shown[p[j]] /\ ShownOf(c)[k] = shown[p[k]]
      BY <2>2, <3>1
    <3> QED BY <2>1, <3>2 DEF ShownOK, Earlier, EventOf
  <2>3. ASSUME bpc = "read", \A r \in ReadSoFar : r.state = "good"
        PROVE  tree = <<>>
    BY <2>1, <2>3 DEF NoneLost, ReadSoFar, Usable
  <2> QED BY <2>2, <2>3
<1> QED BY <1>1, PipeInvariant, PTL

\* At the end of a pipe the skips of a CPU are the numbers missing between the
\* first and the last that were shown (SkipsAreTheGaps).
THEOREM SkipsAreGaps == Spec => []SkipsAreTheGaps
<1>1. KernelInv /\ ParseTypes /\ PipeInv => SkipsAreTheGaps
  <2> SUFFICES ASSUME KernelInv, PipeInv, mode = "pipe", ~Early, NEW c \in Cpus
               PROVE  LET seqs == {ShownOf(c)[k].rec.seq : k \in DOMAIN ShownOf(c)}
                      IN Covered(c) = {n \in 1..MaxEvents :
                                         /\ n \notin seqs
                                         /\ \E a, b \in seqs : a < n /\ n < b}
    BY DEF SkipsAreTheGaps
  <2> DEFINE seqs == {ShownOf(c)[k].rec.seq : k \in DOMAIN ShownOf(c)}
  <2>1. /\ PipeTypes /\ OriginsOK /\ GapsOK /\ taken \in [Cpus -> Nat]
        /\ taken[0] <= Len(pipe) /\ genesis_time \in Nat \cup {Unset}
    BY DEF PipeInv
  <2>2. Readable(pipe) /\ Len(pipe) \in Nat /\ 0 \in Cpus
    BY PipeReadable
  <2>3. seqs = Numbers(c)
    <3>1. PICK p : /\ DOMAIN ShownOf(c) = 1..Len(ShownOf(c))
                   /\ p \in [1..Len(ShownOf(c)) -> DOMAIN shown]
                   /\ \A i \in 1..Len(ShownOf(c)) :
                         EventOf(shown[p[i]].rec, c) /\ ShownOf(c)[i] = shown[p[i]]
                   /\ \A k \in DOMAIN shown : EventOf(shown[k].rec, c)
                         => \E i \in 1..Len(ShownOf(c)) : p[i] = k
      BY <2>1, ShownOfShown
    <3>2. \A k \in DOMAIN ShownOf(c) : ShownOf(c)[k].rec.seq \in Numbers(c)
      BY <3>1 DEF Numbers
    <3>3. \A k \in DOMAIN shown : EventOf(shown[k].rec, c)
             => \E i \in DOMAIN ShownOf(c) : shown[k].rec.seq = ShownOf(c)[i].rec.seq
      BY <3>1
    <3>4. Numbers(c) \subseteq seqs
      BY <3>3 DEF Numbers
    <3> QED BY <3>2, <3>4
  <2> HIDE DEF seqs
  <2>4. Numbers(c) \subseteq 1..MaxEvents
    <3>1. ASSUME NEW k \in DOMAIN shown, EventOf(shown[k].rec, c)
          PROVE  shown[k].rec.seq \in 1..MaxEvents
      <4>1. genesis_time \in Nat
        BY <2>1 DEF OriginsOK
      <4>2. PICK m \in 1..taken[0] : Origin(shown[k].rec, m, genesis_time)
        BY <2>1 DEF OriginsOK
      <4>3. m \in 1..Len(pipe)
        BY <2>1, <2>2
      <4> QED BY <2>2, <3>1, <4>1, <4>2, <4>3, RecordOfPipe DEF EventOf
    <3> QED BY <3>1 DEF Numbers
  <2>5. Covered(c) = Gaps(seqs)
    BY <2>1, <2>3 DEF GapsOK
  <2>6. Gaps(seqs) = {n \in 1..MaxEvents : /\ n \notin seqs
                                           /\ \E a, b \in seqs : a < n /\ n < b}
    <3>1. ASSUME NEW n \in Nat, NEW a \in seqs, NEW b \in seqs, a < n, n < b
          PROVE  n \in 1..MaxEvents
      BY <2>3, <2>4, <3>1, KernelEventsAssumption
    <3>2. 1..MaxEvents \subseteq Nat
      BY KernelEventsAssumption
    <3> QED BY <3>1, <3>2 DEF Gaps
  <2> QED BY <2>5, <2>6 DEF seqs
<1> QED BY <1>1, PipeInvariant, PTL

-----------------------------------------------------------------------------
(* Parts of a file.                                                        *)

\* The first bad record of a file, or behind its end.
LEMMA BadAtFirst ==
    ASSUME NEW c \in Cpus, files[c] \in Seq(Records)
    PROVE  /\ BadAt(c) \in 1..Len(files[c]) + 1
           /\ BadAt(c) <= Len(files[c]) => files[c][BadAt(c)].state # "good"
           /\ \A j \in 1..BadAt(c) - 1 : files[c][j].state = "good"
<1> DEFINE f == files[c]
           L == Len(f)
           T == {k \in 1..L + 1 : k <= L => f[k].state # "good"}
<1>1. L \in Nat
  BY LenProperties
<1>2. PICK m \in T : \A y \in T : ~(y < m)
  <2>1. L + 1 \in T /\ T \subseteq Nat
    BY <1>1
  <2> HIDE DEF T
  <2> QED BY <2>1, LeastOf
<1>3. \A j \in 1..m - 1 : ~(f[j].state # "good")
  <2> SUFFICES ASSUME NEW j \in 1..m - 1, f[j].state # "good" PROVE FALSE
    OBVIOUS
  <2>1. j \in 1..L + 1 /\ j < m
    BY <1>1, <1>2
  <2>2. j \in T
    BY <2>1
  <2> HIDE DEF T
  <2> QED BY <1>2, <2>1, <2>2
<1>4. \E k \in 1..L + 1 : /\ k <= L => f[k].state # "good"
                          /\ \A j \in 1..k - 1 : ~(f[j].state # "good")
  BY <1>2, <1>3
<1>5. BadAt(c) = CHOOSE k \in 1..L + 1 : /\ k <= L => f[k].state # "good"
                                         /\ \A j \in 1..k - 1 : ~(f[j].state # "good")
  BY DEF BadAt, FirstWhere
<1> DEFINE b == BadAt(c)
<1> HIDE DEF b
<1>6. /\ b \in 1..L + 1 /\ (b <= L => f[b].state # "good")
      /\ \A j \in 1..b - 1 : ~(f[j].state # "good")
  BY <1>4, <1>5 DEF b
<1> QED BY <1>6 DEF b

\* A part of a sequence is two parts behind each other.
LEMMA PartsJoin ==
    ASSUME NEW S, NEW s \in Seq(S), NEW a \in Nat, NEW b \in Nat, NEW e \in Nat,
           a <= b, b <= e, e <= Len(s)
    PROVE  /\ SubSeq(s, a + 1, e) = SubSeq(s, a + 1, b) \o SubSeq(s, b + 1, e)
           /\ SubSeq(s, a + 1, b) \in Seq(S) /\ SubSeq(s, b + 1, e) \in Seq(S)
<1>1. Len(s) \in Nat /\ \A i \in 1..Len(s) : s[i] \in S
  BY LenProperties, ElementOfSeq
<1>2. /\ a + 1 \in 1..Len(s) + 1 /\ b \in (a + 1) - 1..Len(s) /\ e \in b..Len(s)
  BY <1>1
<1>3. SubSeq(s, a + 1, e) = SubSeq(s, a + 1, b) \o SubSeq(s, b + 1, e)
  BY <1>2, ConcatAdjacentSubSeq
<1>4. \A i \in a + 1..b : s[i] \in S
  BY <1>1
<1>5. \A i \in b + 1..e : s[i] \in S
  BY <1>1
<1>6. SubSeq(s, a + 1, b) \in Seq(S) /\ SubSeq(s, b + 1, e) \in Seq(S)
  BY <1>4, <1>5, SubSeqProperties
<1> QED BY <1>3, <1>6

\* The traces of two parts.
LEMMA TracesConcat ==
    ASSUME NEW s \in Seq(Records), NEW t \in Seq(Records)
    PROVE  Traces(s \o t) = Traces(s) \o Traces(t)
<1> DEFINE u == s \o t
           In(v) == {k \in DOMAIN v : Usable(v[k]) /\ IsTrace(v[k])}
<1>1. /\ Len(s) \in Nat /\ Len(t) \in Nat
      /\ DOMAIN s = 1..Len(s) /\ DOMAIN t = 1..Len(t)
  BY LenProperties
<1>2. /\ u \in Seq(Records) /\ Len(u) = Len(s) + Len(t)
      /\ \A i \in 1..Len(s) + Len(t) : u[i] = IF i <= Len(s) THEN s[i] ELSE t[i - Len(s)]
  BY ConcatProperties
<1>3. DOMAIN u = 1..Len(s) + Len(t)
  <2> HIDE DEF u
  <2> QED BY <1>2, LenProperties
<1> HIDE DEF u
<1>4. Upto(Len(s), In(u), In(s))
  <2> SUFFICES ASSUME NEW n \in 1..Len(s) PROVE n \in In(u) <=> n \in In(s)
    BY DEF Upto
  <2>1. n \in DOMAIN u /\ u[n] = s[n] /\ n \in DOMAIN s
    BY <1>1, <1>2, <1>3
  <2> QED BY <2>1
<1>5. Behind(Len(s), Len(t), In(u), In(t))
  <2> SUFFICES ASSUME NEW n \in 1..Len(t) PROVE Len(s) + n \in In(u) <=> n \in In(t)
    BY DEF Behind
  <2>1. Len(s) + n \in DOMAIN u /\ n \in DOMAIN t /\ ~(Len(s) + n <= Len(s))
        /\ (Len(s) + n) - Len(s) = n
    BY <1>1, <1>3
  <2>2. u[Len(s) + n] = t[n]
    BY <1>2, <1>3, <2>1
  <2> QED BY <2>1, <2>2
<1> HIDE DEF In
<1>6. Those(s \o t, In(u)) = Those(s, In(s)) \o Those(t, In(t))
  BY <1>4, <1>5, ThoseConcat
<1> QED BY <1>6 DEF Traces, In, u

\* Of no records there are no traces.
LEMMA TracesOfNothing == Traces(<<>>) = <<>>
BY ThoseOfNothing DEF Traces

\* p is what can be read ahead of a file: its traces go before the rest, its
\* notes are taken care of, and if there are no traces the file is at its end.
ReadsAhead(c, p) ==
    /\ p.traces \in Seq(Records) /\ p.position \in Nat
    /\ taken[c] <= p.position /\ p.position <= Len(files[c])
    /\ Rest(c) = p.traces \o Traces(SubSeq(files[c], p.position + 1, BadAt(c) - 1))
    /\ p.traces = <<>> => p.position = Len(files[c])
    /\ \A m \in taken[c] + 1..p.position :
          m < BadAt(c) /\ files[c][m].kind = "process" => files[c][m].pid \in p.names
    /\ \A k \in DOMAIN p.traces : \E m \in 1..p.position : p.traces[k] = files[c][m]

\* Those read up to e.
LEMMA PartReads ==
    ASSUME NEW c \in Cpus, files[c] \in Seq(Records), taken[c] \in Nat,
           taken[c] <= Len(files[c]), NEW e \in Nat, e <= BadAt(c) - 1
    PROVE  /\ Traces(SubSeq(files[c], taken[c] + 1, e)) \in Seq(Records)
           /\ \A m \in taken[c] + 1..e : files[c][m].kind = "process"
                 => files[c][m].pid \in Names(SubSeq(files[c], taken[c] + 1, e))
           /\ \A k \in DOMAIN Traces(SubSeq(files[c], taken[c] + 1, e)) : \E m \in 1..e :
                 Traces(SubSeq(files[c], taken[c] + 1, e))[k] = files[c][m]
<1> DEFINE f == files[c]
           a == taken[c]
           s == SubSeq(f, a + 1, e)
           t == Traces(s)
<1>1. /\ Len(f) \in Nat /\ BadAt(c) \in 1..Len(f) + 1 /\ e <= Len(f)
      /\ \A j \in 1..e : f[j].state = "good"
      /\ \A j \in 1..Len(f) : f[j] \in Records
  <2>1. Len(f) \in Nat /\ BadAt(c) \in 1..Len(f) + 1
    BY BadAtFirst, LenProperties
  <2>2. \A j \in 1..BadAt(c) - 1 : f[j].state = "good"
    BY BadAtFirst
  <2>3. e <= Len(f) /\ \A j \in 1..e : j \in 1..BadAt(c) - 1
    BY <2>1
  <2>4. \A j \in 1..Len(f) : f[j] \in Records
    BY ElementOfSeq
  <2> QED BY <2>1, <2>2, <2>3, <2>4
<1>2. CASE e <= a
  <2>1. s = <<>>
    BY <1>2, SubSeqEmpty
  <2>2. t = <<>>
    BY <2>1, TracesOfNothing
  <2>3. \A m \in a + 1..e : FALSE
    BY <1>2
  <2>4. t \in Seq(Records) /\ DOMAIN t = {}
    <3>1. <<>> \in Seq(Records) /\ DOMAIN <<>> = {}
      OBVIOUS
    <3> HIDE DEF t
    <3> QED BY <2>2, <3>1
  <2> HIDE DEF t
  <2> QED BY <2>3, <2>4 DEF t
<1>3. CASE ~(e <= a)
  <2>1. e - a \in Nat /\ a + (e - a) = e /\ a + (e - a) <= Len(f)
    BY <1>1, <1>3
  <2>2. t \in Seq(Records) /\ \E p : GoodIn(p, t, f, a, e - a)
    <3>1. \A k \in Nat : a + k <= Len(f) =>
             /\ Traces(SubSeq(f, a + 1, a + k)) \in Seq(Records)
             /\ \E p : GoodIn(p, Traces(SubSeq(f, a + 1, a + k)), f, a, k)
      BY TracesOfPart
    <3> QED BY <2>1, <3>1
  <2>3. PICK p : GoodIn(p, t, f, a, e - a)
    BY <2>2
  <2>4. ASSUME NEW k \in DOMAIN t PROVE \E m \in 1..e : t[k] = f[m]
    <3>1. p[k] \in a + 1..a + (e - a) /\ t[k] = f[p[k]]
      BY <2>3 DEF GoodIn
    <3>2. p[k] \in 1..e
      BY <2>1, <3>1
    <3> QED BY <3>1, <3>2
  <2>5. ASSUME NEW m \in a + 1..e, f[m].kind = "process"
        PROVE  f[m].pid \in Names(s)
    <3>1. \A i \in a + 1..e : f[i] \in Records
      BY <1>1
    <3>2. /\ s \in Seq(Records) /\ Len(s) = e - (a + 1) + 1
          /\ \A i \in 1..e - (a + 1) + 1 : s[i] = f[a + 1 + i - 1]
      <4>1. /\ s \in Seq(Records)
            /\ Len(s) = IF a + 1 <= e THEN e - (a + 1) + 1 ELSE 0
            /\ \A i \in 1..e - (a + 1) + 1 : s[i] = f[a + 1 + i - 1]
        BY <3>1, SubSeqProperties
      <4> HIDE DEF s
      <4> QED BY <1>3, <4>1
    <3>3. DOMAIN s = 1..Len(s)
      <4> HIDE DEF s
      <4> QED BY <3>2, LenProperties
    <3> HIDE DEF s
    <3>4. m - a \in 1..e - (a + 1) + 1 /\ a + 1 + (m - a) - 1 = m
      <4>1. a \in Nat
        OBVIOUS
      <4> HIDE DEF a
      <4> QED BY <4>1
    <3>5. m - a \in DOMAIN s /\ s[m - a] = f[m]
      BY <3>2, <3>3, <3>4
    <3>6. Usable(f[m])
      BY <1>1 DEF Usable
    <3> QED BY <2>5, <3>5, <3>6 DEF Names
  <2> QED BY <2>2, <2>4, <2>5
<1> QED BY <1>2, <1>3

\* ms_prime reads ahead.
LEMMA PrimeReads ==
    ASSUME NEW c \in Cpus, files[c] \in Seq(Records), taken[c] \in Nat,
           taken[c] <= Len(files[c])
    PROVE  ReadsAhead(c, Prime(c))
<1> DEFINE f == files[c]
           a == taken[c]
           bad == BadAt(c)
           Read(k) == SubSeq(f, a + 1, k)
           ends == {k \in a..bad - 1 : Len(Traces(Read(k))) = rb_batch}
           least == CHOOSE e \in ends : \A d \in ends : e <= d
           k == IF ends = {} THEN bad - 1 ELSE least
           p == [traces |-> Traces(Read(k)), names |-> Names(Read(k)),
                 position |-> IF ends = {} THEN Len(f) ELSE k]
<1>1. Prime(c) = p
  BY DEF Prime, BadAt
<1>2. Len(f) \in Nat /\ bad \in 1..Len(f) + 1
  BY BadAtFirst, LenProperties
<1>3. ends # {} => least \in ends
  <2> SUFFICES ASSUME ends # {} PROVE least \in ends
    OBVIOUS
  <2>1. ends \subseteq Nat
    BY <1>2
  <2> HIDE DEF ends
  <2>2. PICK e \in ends : \A d \in ends : ~(d < e)
    BY <2>1, LeastOf
  <2>3. \A d \in ends : e <= d
    BY <2>1, <2>2
  <2> QED BY <2>3
<1>4. k \in Nat /\ k <= bad - 1
  <2>1. CASE ends = {}
    BY <1>2, <2>1
  <2>2. CASE ends # {}
    <3>1. least \in a..bad - 1
      BY <1>3, <2>2
    <3>2. k = least
      BY <2>2
    <3>3. a \in Nat
      OBVIOUS
    <3> HIDE DEF least, k, bad, a
    <3> QED BY <1>2, <3>1, <3>2, <3>3
  <2> QED BY <2>1, <2>2
<1>5. /\ Traces(Read(k)) \in Seq(Records)
      /\ \A m \in a + 1..k : f[m].kind = "process" => f[m].pid \in Names(Read(k))
      /\ \A i \in DOMAIN Traces(Read(k)) : \E m \in 1..k : Traces(Read(k))[i] = f[m]
  <2> HIDE DEF k
  <2> QED BY <1>4, PartReads
<1>6. /\ p.traces = Traces(Read(k)) /\ p.names = Names(Read(k))
      /\ p.position = IF ends = {} THEN Len(f) ELSE k
  OBVIOUS
<1>7. CASE ends = {}
  <2>1. k = bad - 1 /\ p.position = Len(f)
    BY <1>7
  <2>2. SubSeq(f, Len(f) + 1, bad - 1) = <<>>
    BY <1>2, SubSeqEmpty
  <2>3. Rest(c) = Traces(Read(k)) \o Traces(SubSeq(f, Len(f) + 1, bad - 1))
    <3>1. Rest(c) = Traces(Read(k))
      BY <2>1 DEF Rest
    <3> HIDE DEF k
    <3> QED BY <1>5, <2>2, <3>1, TracesOfNothing, ConcatEmptySeq
  <2>4. \A m \in a + 1..Len(f) : m < bad => m \in a + 1..k
    BY <1>2, <2>1
  <2>5. \A i \in DOMAIN Traces(Read(k)) : \E m \in 1..Len(f) : Traces(Read(k))[i] = f[m]
    <3> HIDE DEF k, bad
    <3>1. 1..k \subseteq 1..Len(f)
      BY <1>2, <2>1
    <3> QED BY <1>5, <3>1
  <2> HIDE DEF p, k
  <2>6. ReadsAhead(c, p)
    BY <1>2, <1>5, <1>6, <1>7, <2>1, <2>3, <2>4, <2>5 DEF ReadsAhead
  <2> QED BY <1>1, <2>6
<1>8. CASE ends # {}
  <2>1. k = least /\ p.position = k
    BY <1>8
  <2>2. k \in a..bad - 1 /\ Len(Traces(Read(k))) = rb_batch
    BY <1>3, <1>8, <2>1
  <2>3. Traces(Read(k)) # <<>>
    <3>1. rb_batch # 0
      BY BlkparseAssumption
    <3> HIDE DEF k
    <3> QED BY <2>2, <3>1
  <2>4. Rest(c) = Traces(Read(k)) \o Traces(SubSeq(f, k + 1, bad - 1))
    <3>1. bad - 1 \in Nat /\ a <= k /\ k <= bad - 1 /\ bad - 1 <= Len(f)
      BY <1>2, <2>2
    <3> HIDE DEF k, bad
    <3> DEFINE e == bad - 1
    <3>2. /\ SubSeq(f, a + 1, e) = SubSeq(f, a + 1, k) \o SubSeq(f, k + 1, e)
          /\ SubSeq(f, a + 1, k) \in Seq(Records) /\ SubSeq(f, k + 1, e) \in Seq(Records)
      <4> HIDE DEF e
      <4> QED BY <1>4, <3>1, PartsJoin DEF e
    <3>3. Rest(c) = Traces(SubSeq(f, a + 1, e))
      BY DEF Rest, bad
    <3> QED BY <3>2, <3>3, TracesConcat
  <2>5. a <= k /\ k <= Len(f)
    BY <1>2, <2>2
  <2> HIDE DEF p, k
  <2>6. ReadsAhead(c, p)
    BY <1>4, <1>5, <1>6, <1>8, <2>1, <2>3, <2>4, <2>5 DEF ReadsAhead
  <2> QED BY <1>1, <2>6
<1> QED BY <1>7, <1>8

-----------------------------------------------------------------------------
(* The list of the streams.                                                *)

\* pr[d][1] is the first record of a stream d; the list o has the streams with
\* records, those of c apart, in the order of the times of their first records.
InTime(o, pr) ==
    /\ \A j, k \in DOMAIN o : j # k => o[j] # o[k]
    /\ \A j, k \in DOMAIN o : j < k => pr[o[j]][1].time <= pr[o[k]][1].time
HeadsIn(o, pr) ==
    /\ InTime(o, pr)
    /\ \A d \in Cpus : pr[d] # <<>> <=> \E k \in DOMAIN o : o[k] = d
OthersIn(c, o, pr) ==
    /\ o \in Seq(Cpus) /\ pr \in [Cpus -> Seq(Records)]
    /\ InTime(o, pr)
    /\ \A k \in DOMAIN o : o[k] # c
    /\ \A d \in Cpus \ {c} : pr[d] # <<>> <=> \E k \in DOMAIN o : o[k] = d

\* HeadsOK, with the list and the streams as parameters.
LEMMA HeadsAreIn == HeadsOK <=> HeadsIn(ms_head, primed)
BY DEF HeadsOK, HeadsIn, InTime, HeadTime

\* The first record of a stream.
LEMMA HeadRecord ==
    ASSUME NEW s \in Seq(Records), s # <<>>
    PROVE  s[1] \in Records /\ s[1].time \in Nat
<1>1. s[1] \in Records
  BY TailFields
<1> QED BY <1>1, RecordFields

\* A stream comes to stand in the list where its time belongs.
LEMMA InsertedHeads ==
    ASSUME NEW c \in Cpus, NEW o, NEW pr, OthersIn(c, o, pr), NEW m, NEW t,
           InsertedAt(t, Cpus, o, c, m), NEW v \in Seq(Records), v # <<>>,
           \A k \in 1..m : pr[o[k]][1].time <= v[1].time,
           \A k \in m + 1..Len(o) : v[1].time <= pr[o[k]][1].time
    PROVE  HeadsIn(t, [pr EXCEPT ![c] = v]) /\ t \in Seq(Cpus)
<1> DEFINE w == [pr EXCEPT ![c] = v]
<1>1. /\ m + 1 \in DOMAIN t /\ t[m + 1] = c
      /\ \A k \in DOMAIN t : k # m + 1 => \E j \in DOMAIN o :
            /\ t[k] = o[j]
            /\ (k <= m /\ j = k) \/ (k > m + 1 /\ k = j + 1)
      /\ \A j \in DOMAIN o : \E k \in DOMAIN t : t[k] = o[j]
  BY InsertedElements
<1>2. /\ t \in Seq(Cpus) /\ Len(o) \in Nat /\ DOMAIN o = 1..Len(o)
      /\ DOMAIN t = 1..Len(o) + 1 /\ m \in 0..Len(o)
  BY DEF InsertedAt
<1>3. /\ pr \in [Cpus -> Seq(Records)] /\ InTime(o, pr)
      /\ \A k \in DOMAIN o : o[k] # c /\ o[k] \in Cpus
      /\ \A d \in Cpus \ {c} : pr[d] # <<>> <=> \E k \in DOMAIN o : o[k] = d
  BY <1>2, ElementOfSeq DEF OthersIn
<1>4. w[c] = v /\ \A d \in Cpus \ {c} : w[d] = pr[d]
  BY <1>3
<1>5. \A k \in DOMAIN o : w[o[k]] = pr[o[k]]
  BY <1>3, <1>4
<1> HIDE DEF w
<1>6. ASSUME NEW j \in DOMAIN t, NEW k \in DOMAIN t, j < k
      PROVE  t[j] # t[k] /\ w[t[j]][1].time <= w[t[k]][1].time
  <2>1. CASE k = m + 1
    <3>1. PICK i \in DOMAIN o : t[j] = o[i] /\ i \in 1..m
      BY <1>1, <1>2, <1>6, <2>1
    <3> QED BY <1>1, <1>3, <1>4, <1>5, <2>1, <3>1
  <2>2. CASE j = m + 1
    <3>1. PICK i \in DOMAIN o : t[k] = o[i] /\ i \in m + 1..Len(o)
      BY <1>1, <1>2, <1>6, <2>2
    <3> QED BY <1>1, <1>3, <1>4, <1>5, <2>2, <3>1
  <2>3. CASE k # m + 1 /\ j # m + 1
    <3>1. PICK a \in DOMAIN o : /\ t[j] = o[a]
                                /\ (j <= m /\ a = j) \/ (j > m + 1 /\ j = a + 1)
      BY <1>1, <2>3
    <3>2. PICK b \in DOMAIN o : /\ t[k] = o[b]
                                /\ (k <= m /\ b = k) \/ (k > m + 1 /\ k = b + 1)
      BY <1>1, <2>3
    <3>3. a < b /\ a # b
      BY <1>2, <1>6, <3>1, <3>2
    <3> QED BY <1>3, <1>5, <3>1, <3>2, <3>3 DEF InTime
  <2> QED BY <2>1, <2>2, <2>3
<1>7. InTime(t, w)
  <2>1. \A j, k \in DOMAIN t : j # k => j < k \/ k < j
    BY <1>2
  <2> QED BY <1>6, <2>1 DEF InTime
<1>8. ASSUME NEW d \in Cpus
      PROVE  w[d] # <<>> <=> \E k \in DOMAIN t : t[k] = d
  <2>1. CASE d = c
    BY <1>1, <1>4, <2>1
  <2>2. CASE d # c
    <3>1. (\E k \in DOMAIN t : t[k] = d) <=> \E k \in DOMAIN o : o[k] = d
      BY <1>1, <2>2
    <3> QED BY <1>3, <1>4, <2>2, <3>1
  <2> QED BY <2>1, <2>2
<1>9. HeadsIn(t, w)
  BY <1>7, <1>8 DEF HeadsIn
<1> QED BY <1>2, <1>9 DEF w

\* ms_sort puts a stream where its time belongs.
LEMMA SortedPlace ==
    ASSUME NEW c \in Cpus, NEW o, OthersIn(c, o, primed), NEW t \in Nat
    PROVE  \E m \in 0..Len(o) :
              /\ InsertedAt(Sorted(o, c, t), Cpus, o, c, m)
              /\ \A k \in 1..m : primed[o[k]][1].time <= t
              /\ \A k \in m + 1..Len(o) : t <= primed[o[k]][1].time
<1> DEFINE L == Len(o)
           at(k) == primed[o[k]][1].time
           T == {k \in 1..L + 1 : k <= L => t <= at(k)}
<1>1. /\ L \in Nat /\ DOMAIN o = 1..L /\ o \in Seq(Cpus)
      /\ \A k \in 1..L : o[k] \in Cpus /\ o[k] # c
  BY LenProperties, ElementOfSeq DEF OthersIn
<1>2. \A k \in 1..L : at(k) \in Nat
  <2> SUFFICES ASSUME NEW k \in 1..L PROVE at(k) \in Nat
    OBVIOUS
  <2>1. primed[o[k]] # <<>> /\ primed[o[k]] \in Seq(Records)
    BY <1>1 DEF OthersIn
  <2> QED BY <2>1, HeadRecord
<1>3. \A j, k \in 1..L : j < k => at(j) <= at(k)
  BY <1>1 DEF OthersIn, InTime
<1>4. PICK f \in T : \A y \in T : ~(y < f)
  <2>1. L + 1 \in T /\ T \subseteq Nat
    BY <1>1
  <2> HIDE DEF T
  <2> QED BY <2>1, LeastOf
<1>5. \A j \in 1..f - 1 : ~(t <= at(j))
  <2> SUFFICES ASSUME NEW j \in 1..f - 1, t <= at(j) PROVE FALSE
    OBVIOUS
  <2>1. j \in 1..L + 1 /\ j < f
    BY <1>1, <1>4
  <2>2. j \in T
    BY <2>1
  <2> HIDE DEF T
  <2> QED BY <1>4, <2>1, <2>2
<1> DEFINE b == FirstWhere(o, LAMBDA d : t <= HeadTime(d))
<1>6. /\ b \in 1..L + 1 /\ (b <= L => t <= at(b))
      /\ \A j \in 1..b - 1 : ~(t <= at(j))
  <2>1. b = CHOOSE k \in 1..L + 1 : /\ k <= L => t <= at(k)
                                    /\ \A j \in 1..k - 1 : ~(t <= at(j))
    BY DEF FirstWhere, HeadTime
  <2>2. \E k \in 1..L + 1 : /\ k <= L => t <= at(k)
                            /\ \A j \in 1..k - 1 : ~(t <= at(j))
    BY <1>4, <1>5
  <2> HIDE DEF b, at
  <2> QED BY <2>1, <2>2
<1> DEFINE n == b - 1
           m == IF n = 0 /\ o # <<>> /\ HeadTime(o[1]) = t THEN 1 ELSE n
<1>7. Sorted(o, c, t) = SubSeq(o, 1, m) \o <<c>> \o SubSeq(o, m + 1, L)
  BY DEF Sorted
<1>8. HeadTime(o[1]) = at(1) /\ (o # <<>> => L # 0)
  BY <1>1, EmptySeq DEF HeadTime, OthersIn
<1> HIDE DEF b, at, L
<1>9. m \in 0..L
  BY <1>1, <1>6, <1>8
<1>10. \A k \in 1..m : at(k) <= t
  <2> SUFFICES ASSUME NEW k \in 1..m PROVE at(k) <= t
    OBVIOUS
  <2>1. CASE n = 0 /\ o # <<>> /\ HeadTime(o[1]) = t
    <3>1. k = 1
      BY <2>1
    <3> QED BY <1>8, <2>1, <3>1
  <2>2. CASE ~(n = 0 /\ o # <<>> /\ HeadTime(o[1]) = t)
    <3>1. k \in 1..b - 1 /\ k \in 1..L
      BY <1>1, <1>6, <2>2
    <3> QED BY <1>2, <1>6, <3>1
  <2> QED BY <2>1, <2>2
<1>11. \A k \in m + 1..L : t <= at(k)
  <2> SUFFICES ASSUME NEW k \in m + 1..L PROVE t <= at(k)
    OBVIOUS
  <2>1. k \in 1..L /\ b <= k /\ b \in 1..L
    BY <1>1, <1>6, <1>9
  <2>2. t <= at(b) /\ (b = k \/ b < k)
    BY <1>6, <2>1
  <2> QED BY <1>2, <1>3, <2>1, <2>2
<1> HIDE DEF m
<1>12. InsertedAt(Sorted(o, c, t), Cpus, o, c, m)
  BY <1>1, <1>7, <1>9, SplitInserts DEF L
<1> QED BY <1>9, <1>10, <1>11, <1>12 DEF L, at

-----------------------------------------------------------------------------
(* A file, read in order.                                                  *)

\* A file holds the records of its CPU, in order.
LEMMA FileReadable ==
    ASSUME KernelInv, mode = "files", NEW c \in Cpus
    PROVE  /\ files[c] \in Seq(Records) /\ Len(files[c]) \in Nat /\ Readable(files[c])
           /\ DOMAIN files[c] = 1..Len(files[c])
           /\ AllOf(files[c], c)
<1>1. Wire(c) = files[c]
  BY DEF Wire
<1>2. Readable(files[c])
  BY <1>1, WireReadable
<1> QED BY <1>2 DEF Readable, KernelInv, StreamOK

\* The records of a file are in the order of their times.
LEMMA ReadableOrder ==
    ASSUME NEW s, Readable(s), NEW c, AllOf(s, c),
           NEW j \in DOMAIN s, NEW k \in DOMAIN s, j <= k
    PROVE  s[j].time <= s[k].time
<1>1. s[j].time \in Nat /\ s[j].cpu = s[k].cpu
  BY RecordFields DEF Readable, AllOf
<1>2. CASE j = k
  BY <1>1, <1>2
<1>3. CASE j < k
  BY <1>1, <1>3 DEF Readable, InOrder, Before
<1> QED BY <1>2, <1>3 DEF Readable

\* A sequence in the order of times, of one CPU's records.
Timed(s, c) ==
    /\ \A k \in DOMAIN s : s[k] \in Records /\ s[k].cpu = c
    /\ \A j, k \in DOMAIN s : j < k => s[j].time <= s[k].time

\* So are the traces up to its first bad record.
LEMMA GoodPartTimed ==
    ASSUME KernelInv, mode = "files", NEW c \in Cpus
    PROVE  GoodPart(c) \in Seq(Records) /\ Timed(GoodPart(c), c)
<1> DEFINE f == files[c]
           e == BadAt(c) - 1
           t == GoodPart(c)
<1>1. f \in Seq(Records) /\ Len(f) \in Nat /\ Readable(f) /\ AllOf(f, c)
      /\ DOMAIN f = 1..Len(f)
  BY FileReadable
<1>2. e \in Nat /\ e <= Len(f)
  <2>1. BadAt(c) \in 1..Len(f) + 1
    BY <1>1, BadAtFirst
  <2> QED BY <1>1, <2>1
<1>3. t = Traces(SubSeq(f, 1, e))
  BY DEF GoodPart, BadAt
<1> HIDE DEF e, t
<1>4. t \in Seq(Records) /\ \E p : GoodIn(p, t, f, 0, e)
  <2>1. \A n \in Nat : n + e <= Len(f) =>
           /\ Traces(SubSeq(f, n + 1, n + e)) \in Seq(Records)
           /\ \E p : GoodIn(p, Traces(SubSeq(f, n + 1, n + e)), f, n, e)
    BY <1>1, <1>2, TracesOfPart
  <2>2. 0 + 1 = 1 /\ 0 + e = e /\ 0 \in Nat
    BY <1>2
  <2>3. /\ Traces(SubSeq(f, 0 + 1, 0 + e)) \in Seq(Records)
        /\ \E p : GoodIn(p, Traces(SubSeq(f, 0 + 1, 0 + e)), f, 0, e)
    BY <1>2, <2>1, <2>2
  <2> QED BY <1>3, <2>2, <2>3
<1>5. PICK p : GoodIn(p, t, f, 0, e)
  BY <1>4
<1>6. /\ DOMAIN t = 1..Len(t) /\ Len(t) \in Nat
      /\ \A i \in DOMAIN t : p[i] \in DOMAIN f /\ t[i] = f[p[i]]
      /\ \A i, j \in DOMAIN t : i < j => p[i] < p[j]
  <2>1. /\ DOMAIN t = 1..Len(t) /\ Len(t) \in Nat
        /\ p \in [1..Len(t) -> 0 + 1..0 + e]
        /\ \A i, j \in 1..Len(t) : i < j => p[i] < p[j]
        /\ \A i \in 1..Len(t) : t[i] = f[p[i]]
    BY <1>5 DEF GoodIn
  <2>2. 0 + 1..0 + e \subseteq DOMAIN f
    BY <1>1, <1>2
  <2> QED BY <2>1, <2>2
<1>7. ASSUME NEW k \in DOMAIN t
      PROVE  t[k] \in Records /\ t[k].cpu = c
  BY <1>1, <1>6 DEF Readable, AllOf
<1>8. ASSUME NEW j \in DOMAIN t, NEW k \in DOMAIN t, j < k
      PROVE  t[j].time <= t[k].time
  <2>1. p[j] < p[k] /\ p[j] \in DOMAIN f /\ p[k] \in DOMAIN f
    BY <1>6, <1>8
  <2>2. p[j] <= p[k]
    BY <1>1, <2>1
  <2>3. f[p[j]].time <= f[p[k]].time
    BY <1>1, <2>1, <2>2, ReadableOrder
  <2> QED BY <1>6, <2>3
<1>9. Timed(t, c)
  BY <1>7, <1>8 DEF Timed
<1> QED BY <1>4, <1>9 DEF t

\* The first of s goes to the end of h.
LEMMA ShiftOne ==
    ASSUME NEW S, NEW h \in Seq(S), NEW s \in Seq(S), NEW t \in Seq(S), s # <<>>
    PROVE  /\ h \o (s \o t) = Append(h, s[1]) \o (Tail(s) \o t)
           /\ s \o t = <<s[1]>> \o (Tail(s) \o t)
           /\ Append(h, s[1]) \in Seq(S) /\ Tail(s) \o t \in Seq(S) /\ s[1] \in S
<1> DEFINE x == s[1]
           w == Tail(s)
<1>1. x \in S /\ w \in Seq(S) /\ <<x>> \in Seq(S)
  BY TailFields
<1>2. s = <<x>> \o w
  <2>1. Len(s) \in Nat /\ 1 \in 1..Len(s) /\ Len(s) \in 1..Len(s)
    <3>1. Len(s) \in Nat /\ DOMAIN s = 1..Len(s) /\ 1 \in DOMAIN s
      BY TailFields
    <3> QED BY <3>1
  <2>2. SubSeq(s, 1, Len(s)) = <<s[1]>> \o SubSeq(s, 1 + 1, Len(s))
    BY <2>1, SubSeqRecursiveFirst
  <2>3. SubSeq(s, 1, Len(s)) = s /\ w = SubSeq(s, 2, Len(s))
    BY SubSeqFull, TailIsSubSeq
  <2> QED BY <2>2, <2>3
<1> HIDE DEF x, w
<1>3. w \o t \in Seq(S) /\ h \o <<x>> \in Seq(S) /\ Append(h, x) = h \o <<x>>
      /\ Append(h, x) \in Seq(S)
  <2>1. \A a, b \in Seq(S) : a \o b \in Seq(S)
    BY ConcatProperties
  <2>2. Append(h, x) = h \o <<x>> /\ Append(h, x) \in Seq(S)
    BY <1>1, AppendIsConcat, AppendProperties
  <2> QED BY <1>1, <2>1, <2>2
<1>4. \A a, b, d \in Seq(S) : (a \o b) \o d = a \o (b \o d)
  BY ConcatAssociative
<1>5. s \o t = <<x>> \o (w \o t)
  BY <1>1, <1>2, <1>4
<1>6. h \o (<<x>> \o (w \o t)) = (h \o <<x>>) \o (w \o t)
  BY <1>1, <1>3, <1>4
<1> QED BY <1>1, <1>3, <1>5, <1>6 DEF x, w

\* In a sequence in the order of times what follows an element is not earlier.
LEMMA TimedAfter ==
    ASSUME NEW c, NEW h \in Seq(Records), NEW x \in Records, NEW w \in Seq(Records),
           Timed(Append(h, x) \o w, c)
    PROVE  /\ x.cpu = c
           /\ \A k \in DOMAIN w : x.time <= w[k].time
           /\ \A k \in DOMAIN (<<x>> \o w) : x.time <= (<<x>> \o w)[k].time
<1> DEFINE a == Append(h, x)
           s == a \o w
           L == Len(h) + 1
<1>1. /\ Len(h) \in Nat /\ Len(w) \in Nat /\ DOMAIN w = 1..Len(w)
      /\ a \in Seq(Records) /\ Len(a) = L /\ a[L] = x /\ L \in 1..L
  BY AppendProperties, LenProperties
<1> HIDE DEF a, L
<1>2. /\ s \in Seq(Records) /\ Len(s) = L + Len(w)
      /\ \A k \in 1..L + Len(w) : s[k] = IF k <= L THEN a[k] ELSE w[k - L]
  <2>1. /\ s \in Seq(Records) /\ Len(s) = Len(a) + Len(w)
        /\ \A k \in 1..Len(a) + Len(w) : s[k] = IF k <= Len(a) THEN a[k] ELSE w[k - Len(a)]
    BY <1>1, ConcatProperties
  <2> HIDE DEF s
  <2> QED BY <1>1, <2>1
<1>3. DOMAIN s = 1..L + Len(w)
  <2> HIDE DEF s
  <2> QED BY <1>2, LenProperties
<1>4. Timed(s, c)
  BY DEF a
<1> HIDE DEF s
<1>5. L \in DOMAIN s /\ s[L] = x
  BY <1>1, <1>2, <1>3
<1>6. ASSUME NEW k \in DOMAIN w PROVE x.time <= w[k].time
  <2>1. L + k \in DOMAIN s /\ ~(L + k <= L) /\ (L + k) - L = k /\ L < L + k
    BY <1>1, <1>3
  <2>2. s[L + k] = w[k]
    BY <1>2, <1>3, <2>1
  <2> QED BY <1>4, <1>5, <2>1, <2>2 DEF Timed
<1>7. x.cpu = c
  BY <1>4, <1>5 DEF Timed
<1>8. ASSUME NEW k \in DOMAIN (<<x>> \o w) PROVE x.time <= (<<x>> \o w)[k].time
  <2> DEFINE u == <<x>> \o w
  <2>1. <<x>> \in Seq(Records) /\ Len(<<x>>) = 1 /\ <<x>>[1] = x
    OBVIOUS
  <2>2. /\ u \in Seq(Records) /\ Len(u) = 1 + Len(w)
        /\ \A i \in 1..1 + Len(w) : u[i] = IF i <= 1 THEN <<x>>[i] ELSE w[i - 1]
    BY <2>1, ConcatProperties
  <2>3. DOMAIN u = 1..1 + Len(w)
    <3> HIDE DEF u
    <3> QED BY <2>2, LenProperties
  <2>4. k \in 1..1 + Len(w)
    BY <2>3
  <2> HIDE DEF u
  <2>5. x.time \in Nat
    BY RecordFields
  <2>6. CASE k = 1
    <3>1. u[k] = x
      BY <2>1, <2>2, <2>4, <2>6
    <3> QED BY <2>5, <3>1 DEF u
  <2>7. CASE k # 1
    <3>1. k - 1 \in DOMAIN w /\ ~(k <= 1)
      BY <1>1, <2>4, <2>7
    <3>2. u[k] = w[k - 1]
      BY <2>2, <2>4, <3>1
    <3> QED BY <1>6, <3>1, <3>2 DEF u
  <2> QED BY <2>6, <2>7
<1> QED BY <1>6, <1>7, <1>8

\* Of no records none is within the stopwatch.
LEMMA WithinNothing == Within(<<>>) = <<>>
BY ThoseOfNothing DEF Within

\* What does not change when the file does not.
LEMMA SameFile ==
    ASSUME NEW c, files' = files
    PROVE  BadAt(c)' = BadAt(c) /\ GoodPart(c)' = GoodPart(c)
<1>1. BadAt(c)' = BadAt(c)
  BY DEF BadAt, FirstWhere
<1>2. GoodPart(c) = Traces(SubSeq(files[c], 1, BadAt(c) - 1))
      /\ GoodPart(c)' = Traces(SubSeq(files'[c], 1, BadAt(c)' - 1))
  BY DEF GoodPart, BadAt
<1> QED BY <1>1, <1>2

\* Nor does the rest of it that is still to be read.
LEMMA SameRest ==
    ASSUME NEW c, files' = files, taken'[c] = taken[c]
    PROVE  Rest(c)' = Rest(c)
BY SameFile DEF Rest

\* The part read and the part shown of a file, when both are as they were.
LEMMA FilePartKept ==
    ASSUME NEW c, FilePart(c), UNCHANGED <<files, stopwatch>>,
           primed'[c] \o Rest(c)' = primed[c] \o Rest(c),
           ShownFrom(c)' = ShownFrom(c),
           genesis_time' = genesis_time \/ bpc \in {"start", "setup"},
           bpc' \in {"start", "setup"} => bpc \in {"start", "setup"}
    PROVE  FilePart(c)'
<1>1. PICK h \in Seq(Records) :
         /\ GoodPart(c) = h \o (primed[c] \o Rest(c))
         /\ SameNumbers(ShownFrom(c), Within(h))
         /\ bpc \in {"start", "setup"} => h = <<>>
  BY DEF FilePart
<1>2. GoodPart(c)' = h \o (primed'[c] \o Rest(c)')
  BY <1>1, SameFile
<1>3. Within(h)' = Within(h)
  <2>1. CASE bpc \in {"start", "setup"}
    <3>1. h = <<>> /\ Within(<<>>) = <<>>
      BY <1>1, <2>1, WithinNothing
    <3>2. (Within(<<>>) = <<>>)'
      BY WithinNothing, PTL
    <3> QED BY <3>1, <3>2
  <2>2. CASE genesis_time' = genesis_time
    BY <2>2 DEF Within, InWindow
  <2> QED BY <2>1, <2>2
<1>4. SameNumbers(ShownFrom(c)', Within(h)')
  BY <1>1, <1>3
<1> QED BY <1>1, <1>2, <1>4 DEF FilePart

\* A file that nothing is read from, and of which nothing more is shown, is as it
\* was.
LEMMA FileKept ==
    ASSUME NEW c, FileOK(c), UNCHANGED <<files, stopwatch>>,
           taken'[c] = taken[c], primed'[c] = primed[c],
           c \in opened' <=> c \in opened, ppm \subseteq ppm',
           ShownFrom(c)' = ShownFrom(c),
           genesis_time' = genesis_time \/ bpc \in {"start", "setup"},
           bpc' \in {"start", "setup"} => bpc \in {"start", "setup"},
           NothingLeft(c)'
    PROVE  FileOK(c)'
<1>1. BadAt(c)' = BadAt(c) /\ Rest(c)' = Rest(c)
  BY SameFile, SameRest
<1>2. NotesRead(c)'
  BY <1>1 DEF FileOK, NotesRead
<1>3. FilePart(c)'
  BY <1>1, FilePartKept DEF FileOK
<1>4. FromFile(c)'
  BY DEF FileOK, FromFile
<1> QED BY <1>2, <1>3, <1>4 DEF FileOK

\* A file that is read ahead when the stream has given its last record away.
LEMMA FileReadAhead ==
    ASSUME NEW c \in Cpus, FileOK(c), UNCHANGED <<files, stopwatch>>,
           taken \in [Cpus -> Nat],
           NEW p, ReadsAhead(c, p), taken'[c] = p.position, primed'[c] = p.traces,
           c \in opened', ppm' = ppm \cup p.names, FilePart(c)', NothingLeft(c)'
    PROVE  FileOK(c)'
<1>1. BadAt(c)' = BadAt(c)
  BY SameFile
<1>2. NotesRead(c)'
  <2> SUFFICES ASSUME NEW k \in 1..p.position, k < BadAt(c), files[c][k].kind = "process"
               PROVE  files[c][k].pid \in ppm'
    BY <1>1 DEF NotesRead
  <2>1. taken[c] \in Nat /\ p.position \in Nat /\ taken[c] <= p.position
    BY DEF ReadsAhead
  <2>2. k \in 1..taken[c] \/ k \in taken[c] + 1..p.position
    BY <2>1
  <2> QED BY <2>2 DEF FileOK, NotesRead, ReadsAhead
<1>3. FromFile(c)'
  BY DEF FromFile, ReadsAhead
<1> QED BY <1>2, <1>3 DEF FileOK, ReadsAhead

\* What is still to be read of a file.
LEMMA RestType ==
    ASSUME NEW c \in Cpus, files[c] \in Seq(Records), taken[c] \in Nat,
           taken[c] <= Len(files[c])
    PROVE  Rest(c) \in Seq(Records)
<1> DEFINE e == BadAt(c) - 1
<1>1. e \in Nat /\ e <= BadAt(c) - 1
  <2>1. BadAt(c) \in 1..Len(files[c]) + 1 /\ Len(files[c]) \in Nat
    BY BadAtFirst, LenProperties
  <2> QED BY <2>1
<1>2. Rest(c) = Traces(SubSeq(files[c], taken[c] + 1, e))
  BY DEF Rest
<1> HIDE DEF e
<1> QED BY <1>1, <1>2, PartReads

\* What is read ahead was to be read before.
LEMMA ReadsRest ==
    ASSUME NEW c, NEW p, ReadsAhead(c, p), files' = files, taken'[c] = p.position
    PROVE  Rest(c) = p.traces \o Rest(c)'
<1>1. Rest(c)' = Traces(SubSeq(files[c], p.position + 1, BadAt(c) - 1))
  BY SameFile DEF Rest
<1> QED BY <1>1 DEF ReadsAhead

\* The list depends on the streams of its CPUs alone.
LEMMA HeadsSame ==
    ASSUME NEW o \in Seq(Cpus), NEW pr, NEW qr, HeadsIn(o, pr),
           \A d \in Cpus : qr[d] = pr[d]
    PROVE  HeadsIn(o, qr)
<1>1. \A k \in DOMAIN o : o[k] \in Cpus
  BY ElementOfSeq, LenProperties
<1> QED BY <1>1 DEF HeadsIn, InTime

\* setup_file preserves the invariant of the files.
LEMMA SetupFileInv ==
    ASSUME KernelInv, FilesInv, mode = "files", NEW c \in Cpus, SetupFile(c)
    PROVE  FilesInv'
<1> DEFINE p == Prime(c)
<1>1. FilesTypes /\ (\A d \in Cpus : FileOK(d)) /\ HeadsOK
  BY DEF FilesInv
<1>2. /\ taken \in [Cpus -> Nat] /\ genesis_time \in Nat \cup {Unset}
      /\ shown \in Seq(Shown) /\ opened \subseteq Cpus
      /\ primed \in [Cpus -> Seq(Records)] /\ ms_head \in Seq(Cpus)
  BY <1>1 DEF FilesTypes
<1>3. /\ bpc = "setup" /\ c \notin opened /\ opened' = opened \cup {c}
      /\ primed' = [primed EXCEPT ![c] = p.traces]
      /\ ppm' = ppm \cup p.names
      /\ taken' = [taken EXCEPT ![c] = p.position]
      /\ ms_head' = IF p.traces = <<>> THEN ms_head
                    ELSE Sorted(ms_head, c, p.traces[1].time)
      /\ UNCHANGED <<pipe, files, mode, stopwatch, bpc, done, genesis_time, shown>>
  BY Zenon DEF SetupFile
<1>4. shown = <<>>
  BY <1>1, <1>3 DEF FilesTypes
<1>5. files[c] \in Seq(Records) /\ taken[c] \in Nat /\ taken[c] <= Len(files[c])
  BY <1>1, <1>2, FileReadable DEF FileOK
<1>6. ReadsAhead(c, p)
  BY <1>5, PrimeReads
<1> HIDE DEF p
<1>7. p.traces \in Seq(Records) /\ p.position \in Nat
  BY <1>6 DEF ReadsAhead
<1>8. /\ taken' \in [Cpus -> Nat] /\ primed' \in [Cpus -> Seq(Records)]
      /\ taken'[c] = p.position /\ primed'[c] = p.traces
      /\ \A d \in Cpus \ {c} : taken'[d] = taken[d] /\ primed'[d] = primed[d]
  BY <1>2, <1>3, <1>7
<1>9. primed[c] = <<>>
  BY <1>1, <1>3 DEF FileOK
<1>10. HeadsOK' /\ ms_head' \in Seq(Cpus)
  <2>1. HeadsIn(ms_head, primed)
    BY <1>1, HeadsAreIn
  <2>2. (HeadsOK <=> HeadsIn(ms_head, primed))'
    BY HeadsAreIn, PTL
  <2>3. CASE p.traces = <<>>
    <3>1. ms_head' = ms_head /\ \A d \in Cpus : primed'[d] = primed[d]
      BY <1>3, <1>8, <1>9, <2>3
    <3>2. HeadsIn(ms_head, primed')
      BY <1>2, <2>1, <3>1, HeadsSame
    <3> QED BY <1>2, <2>2, <3>1, <3>2
  <2>4. CASE p.traces # <<>>
    <3>1. OthersIn(c, ms_head, primed)
      BY <1>2, <1>9, <2>1 DEF OthersIn, HeadsIn
    <3>2. p.traces[1].time \in Nat
      BY <1>7, <2>4, HeadRecord
    <3> DEFINE t == p.traces[1].time
               o == Sorted(ms_head, c, t)
    <3>3. PICK m \in 0..Len(ms_head) :
             /\ InsertedAt(o, Cpus, ms_head, c, m)
             /\ \A k \in 1..m : primed[ms_head[k]][1].time <= t
             /\ \A k \in m + 1..Len(ms_head) : t <= primed[ms_head[k]][1].time
      BY <3>1, <3>2, SortedPlace
    <3>4. ms_head' = o
      BY <1>3, <2>4
    <3> HIDE DEF o
    <3>5. HeadsIn(o, primed') /\ o \in Seq(Cpus)
      BY <1>3, <1>7, <2>4, <3>1, <3>3, InsertedHeads
    <3> QED BY <2>2, <3>4, <3>5
  <2> QED BY <2>3, <2>4
<1>11. FilesTypes'
  BY <1>1, <1>2, <1>3, <1>8, <1>10 DEF FilesTypes
<1>12. ASSUME NEW d \in Cpus
       PROVE  FileOK(d)'
  <2>1. FileOK(d) /\ NothingLeft(d)' /\ ShownFrom(d)' = ShownFrom(d)
    BY <1>1, <1>3 DEF NothingLeft, ShownFrom
  <2>2. CASE d # c
    BY <1>3, <1>8, <2>1, <2>2, FileKept
  <2>3. CASE d = c
    <3>1. Rest(c) = p.traces \o Rest(c)' /\ Rest(c) \in Seq(Records)
      BY <1>3, <1>5, <1>6, <1>8, ReadsRest, RestType
    <3>2. primed'[c] \o Rest(c)' = primed[c] \o Rest(c)
      BY <1>8, <1>9, <3>1, ConcatEmptySeq
    <3>3. FilePart(c)'
      BY <1>3, <2>1, <2>3, <3>2, FilePartKept DEF FileOK
    <3> QED BY <1>2, <1>3, <1>6, <1>8, <2>1, <2>3, <3>3, FileReadAhead
  <2> QED BY <2>2, <2>3
<1>13. DOMAIN shown' = {}
  BY <1>3, <1>4
<1>14. TimesOK' /\ NamesKnown'
  BY <1>3, <1>13 DEF TimesOK, NamesKnown
<1> QED BY <1>10, <1>11, <1>12, <1>14 DEF FilesInv

-----------------------------------------------------------------------------
(* The first record of the first stream.                                   *)

\* h is what of the file has been dealt with before the first record primed.
HeadPart(c, h) ==
    /\ h \in Seq(Records)
    /\ GoodPart(c) = Append(h, primed[c][1]) \o (Tail(primed[c]) \o Rest(c))
    /\ SameNumbers(ShownFrom(c), Within(h))

\* The first of a sequence of records goes to the end of h.
LEMMA ShiftRecord ==
    ASSUME NEW h \in Seq(Records), NEW s \in Seq(Records), NEW t \in Seq(Records),
           s # <<>>
    PROVE  /\ h \o (s \o t) = Append(h, s[1]) \o (Tail(s) \o t)
           /\ s \o t = <<s[1]>> \o (Tail(s) \o t)
           /\ Append(h, s[1]) \in Seq(Records)
           /\ Tail(s) \o t \in Seq(Records) /\ s[1] \in Records
BY ShiftOne

\* A file with a record primed: what has been dealt with is in front of that
\* record, and what is behind it is not earlier.
LEMMA FilePartFirst ==
    ASSUME KernelInv, mode = "files", NEW c \in Cpus, FileOK(c),
           taken \in [Cpus -> Nat], primed \in [Cpus -> Seq(Records)], primed[c] # <<>>
    PROVE  /\ \E h : HeadPart(c, h)
           /\ primed[c][1] \in Records /\ primed[c][1].cpu = c
           /\ Rest(c) \in Seq(Records) /\ Tail(primed[c]) \in Seq(Records)
           /\ \A k \in DOMAIN (Tail(primed[c]) \o Rest(c)) :
                 primed[c][1].time <= (Tail(primed[c]) \o Rest(c))[k].time
           /\ \A k \in DOMAIN (primed[c] \o Rest(c)) :
                 primed[c][1].time <= (primed[c] \o Rest(c))[k].time
<1> DEFINE s == primed[c]
           x == s[1]
           t == Rest(c)
           w == Tail(s) \o t
<1>1. s \in Seq(Records) /\ t \in Seq(Records) /\ Tail(s) \in Seq(Records)
  <2>1. files[c] \in Seq(Records) /\ taken[c] \in Nat /\ taken[c] <= Len(files[c])
    BY FileReadable DEF FileOK
  <2>2. s \in Seq(Records)
    OBVIOUS
  <2> QED BY <2>1, <2>2, RestType, TailFields
<1>2. PICK h \in Seq(Records) :
         GoodPart(c) = h \o (s \o t) /\ SameNumbers(ShownFrom(c), Within(h))
  BY DEF FileOK, FilePart
<1> HIDE DEF s, t
<1>3. s # <<>>
  BY DEF s
<1>4. /\ h \o (s \o t) = Append(h, x) \o w
      /\ s \o t = <<x>> \o w
      /\ w \in Seq(Records) /\ x \in Records
  <2>1. h \in Seq(Records)
    BY <1>2
  <2> QED BY <1>1, <1>3, <2>1, ShiftRecord DEF x, w
<1>5. Timed(Append(h, x) \o w, c)
  BY <1>2, <1>4, GoodPartTimed
<1> HIDE DEF x, w
<1>6. /\ x.cpu = c
      /\ \A k \in DOMAIN w : x.time <= w[k].time
      /\ \A k \in DOMAIN (<<x>> \o w) : x.time <= (<<x>> \o w)[k].time
  BY <1>4, <1>5, TimedAfter
<1>7. HeadPart(c, h)
  BY <1>2, <1>4 DEF HeadPart, x, w, s, t
<1> QED BY <1>1, <1>4, <1>6, <1>7 DEF x, w, s, t

\* handle takes the first record of the first stream, which is not earlier than
\* the time that times count from.
LEMMA HandleFirst ==
    ASSUME KernelInv, FilesInv, mode = "files", NEW c \in Cpus, Handle(c)
    PROVE  /\ opened = Cpus /\ primed[c] # <<>> /\ genesis_time \in Nat
           /\ 1 \in DOMAIN ms_head /\ ms_head[1] = c
           /\ primed[c][1] \in Records /\ genesis_time <= primed[c][1].time
           /\ Adjusted(primed[c][1]) = Shifted(primed[c][1], genesis_time)
<1>1. FilesTypes /\ FileOK(c) /\ HeadsOK /\ TimesOK
  BY DEF FilesInv
<1>2. /\ bpc = "merge" /\ ms_head # <<>> /\ c = ms_head[1]
      /\ genesis_time' = genesis_time
  BY Zenon DEF Handle
<1>3. opened = Cpus /\ ms_head \in Seq(Cpus) /\ primed \in [Cpus -> Seq(Records)]
      /\ genesis_time \in Nat \cup {Unset} /\ taken \in [Cpus -> Nat]
  BY <1>1, <1>2 DEF FilesTypes
<1>4. 1 \in DOMAIN ms_head
  BY <1>2, <1>3, TailFields
<1>5. primed[c] # <<>>
  BY <1>1, <1>2, <1>4 DEF HeadsOK
<1>6. genesis_time \in Nat /\ genesis_time <= primed[c][1].time
  BY <1>1, <1>2, <1>3, <1>5 DEF TimesOK, HeadTime
<1>7. primed[c][1] \in Records /\ 1 \in DOMAIN primed[c]
  BY <1>3, <1>5, TailFields
<1>8. PICK m \in 1..taken[c] : primed[c][1] = files[c][m]
  BY <1>1, <1>7 DEF FileOK, FromFile
<1>9. primed[c][1].time <= MaxEvents + 1
  <2>1. Readable(files[c]) /\ Len(files[c]) \in Nat /\ DOMAIN files[c] = 1..Len(files[c])
    BY FileReadable
  <2>2. m \in DOMAIN files[c]
    BY <1>1, <1>3, <2>1 DEF FileOK
  <2> QED BY <1>8, <2>1, <2>2 DEF Readable
<1>10. Adjusted(primed[c][1]) = Shifted(primed[c][1], genesis_time)
  <2> DEFINE x == primed[c][1]
  <2>1. x \in Records /\ x.time <= MaxEvents + 1 /\ genesis_time' \in Nat
        /\ genesis_time' <= x.time
    BY <1>2, <1>6, <1>7, <1>9
  <2> HIDE DEF x
  <2>2. Adjusted(x) = Shifted(x, genesis_time')
    BY <2>1, AdjustedIsShifted
  <2> QED BY <1>2, <2>2 DEF x
<1> QED BY <1>2, <1>3, <1>4, <1>5, <1>6, <1>7, <1>10

\* The first stream has the first record of all.
LEMMA FirstOfAll ==
    ASSUME FilesTypes, HeadsOK, 1 \in DOMAIN ms_head, NEW d \in Cpus, primed[d] # <<>>
    PROVE  HeadTime(ms_head[1]) <= HeadTime(d)
<1>1. ms_head \in Seq(Cpus) /\ DOMAIN ms_head = 1..Len(ms_head) /\ Len(ms_head) \in Nat
  BY LenProperties DEF FilesTypes
<1>2. PICK k \in DOMAIN ms_head : ms_head[k] = d
  BY DEF HeadsOK
<1>3. CASE k = 1
  <2>1. HeadTime(d) \in Nat
    BY HeadRecord DEF FilesTypes, HeadTime
  <2> QED BY <1>2, <1>3, <2>1
<1>4. CASE k # 1
  <2>1. 1 < k
    BY <1>1, <1>4
  <2> QED BY <1>2, <2>1 DEF HeadsOK
<1> QED BY <1>3, <1>4

\* What is not in a file ahead of a stream that has no records.
LEMMA NoneAhead ==
    ASSUME KernelInv, mode = "files", NEW c \in Cpus, FileOK(c), c \in opened,
           primed[c] = <<>>
    PROVE  DOMAIN (primed[c] \o Rest(c)) = {}
<1>1. files[c] \in Seq(Records) /\ Len(files[c]) \in Nat
  BY FileReadable
<1>2. BadAt(c) \in 1..Len(files[c]) + 1
  BY <1>1, BadAtFirst
<1>3. taken[c] = Len(files[c])
  BY DEF FileOK
<1>4. SubSeq(files[c], taken[c] + 1, BadAt(c) - 1) = <<>>
  BY <1>1, <1>2, <1>3, SubSeqEmpty
<1>5. Rest(c) = <<>>
  BY <1>4, TracesOfNothing DEF Rest
<1>6. primed[c] \o Rest(c) = <<>>
  BY <1>5
<1> QED BY <1>6

\* If that record is behind the stopwatch all that is left is, and handle ends.
LEMMA HandleEnds ==
    ASSUME KernelInv, ParseTypes, FilesInv, mode = "files", NEW c \in Cpus, Handle(c),
           UNCHANGED dropped,
           Adjusted(primed[c][1]).time > stopwatch.end
    PROVE  FilesInv'
<1> DEFINE x == primed[c][1]
           g == genesis_time
<1>1. FilesTypes /\ (\A d \in Cpus : FileOK(d)) /\ HeadsOK /\ TimesOK /\ NamesKnown
  BY DEF FilesInv
<1>2. /\ bpc = "merge" /\ bpc' = "end"
      /\ UNCHANGED <<pipe, files, mode, stopwatch, done, genesis_time, opened,
                     taken, ppm, shown, primed, ms_head>>
  BY Zenon DEF Handle
<1>3. /\ opened = Cpus /\ g \in Nat /\ 1 \in DOMAIN ms_head /\ ms_head[1] = c
      /\ x \in Records /\ g <= x.time /\ Adjusted(x) = Shifted(x, g)
  BY HandleFirst
<1>4. x.time - g > stopwatch.end
  BY <1>3 DEF Shifted, Records
<1>5. x.time \in Nat /\ stopwatch.start \in Nat /\ stopwatch.end \in Nat
  BY <1>3, RecordFields DEF ParseTypes
<1>6. taken \in [Cpus -> Nat] /\ primed \in [Cpus -> Seq(Records)]
  BY <1>1 DEF FilesTypes
<1>7. ASSUME NEW d \in Cpus
      PROVE  FileOK(d)'
  <2> DEFINE s == primed[d] \o Rest(d)
  <2>1. FileOK(d) /\ d \in opened
    BY <1>1, <1>3
  <2>2. \A k \in DOMAIN s : ~InWindow(s[k])
    <3>1. CASE primed[d] = <<>>
      BY <2>1, <3>1, NoneAhead
    <3>2. CASE primed[d] # <<>>
      <4>1. /\ \A k \in DOMAIN s : primed[d][1].time <= s[k].time
            /\ primed[d] \in Seq(Records) /\ Rest(d) \in Seq(Records)
        BY <1>6, <2>1, <3>2, FilePartFirst
      <4>2. x.time <= primed[d][1].time
        BY <1>1, <1>3, <3>2, FirstOfAll DEF HeadTime
      <4>3. s \in Seq(Records)
        BY <4>1, ConcatProperties
      <4> HIDE DEF s
      <4>4. ASSUME NEW k \in DOMAIN s PROVE ~InWindow(s[k])
        <5>1. s[k] \in Records
          BY <4>3, ElementOfSeq, LenProperties
        <5>2. s[k].time \in Nat /\ primed[d][1].time \in Nat
          BY <3>2, <4>1, <5>1, RecordFields, HeadRecord
        <5>3. primed[d][1].time <= s[k].time
          BY <4>1
        <5>4. s[k].time - g > stopwatch.end
          <6> HIDE DEF x, g
          <6> QED BY <1>3, <1>4, <1>5, <4>2, <5>2, <5>3
        <5> QED BY <1>3, <1>5, <5>2, <5>4 DEF InWindow
      <4> QED BY <4>4
    <3> QED BY <3>1, <3>2
  <2>3. Rest(d)' = Rest(d) /\ ShownFrom(d)' = ShownFrom(d)
    BY <1>2, SameRest DEF ShownFrom
  <2>4. NothingLeft(d)'
    <3>1. primed'[d] \o Rest(d)' = s
      BY <1>2, <2>3
    <3>2. \A k \in DOMAIN s :
             s[k].time - genesis_time' \notin stopwatch'.start..stopwatch'.end
      BY <1>2, <2>2 DEF InWindow
    <3> HIDE DEF s
    <3> QED BY <3>1, <3>2 DEF NothingLeft, InWindow
  <2> QED BY <1>2, <2>1, <2>3, <2>4, FileKept
<1>8. FilesTypes'
  BY <1>1, <1>2, <1>3 DEF FilesTypes
<1>9. HeadsOK'
  BY <1>1, <1>2 DEF HeadsOK, HeadTime
<1>10. TimesOK'
  BY <1>1, <1>2 DEF TimesOK, HeadTime
<1>11. NamesKnown'
  BY <1>1, <1>2 DEF NamesKnown, Damaged, Arrived
<1> QED BY <1>7, <1>8, <1>9, <1>10, <1>11 DEF FilesInv

-----------------------------------------------------------------------------
(* The first record is dealt with and its stream reads on.                 *)

\* What Dequeue does to the stream.
ReadOn(c) ==
    /\ primed' = [primed EXCEPT ![c] = primed'[c]]
    /\ taken' \in [Cpus -> Nat] /\ primed' \in [Cpus -> Seq(Records)]
    /\ primed'[c] \o Rest(c)' = Tail(primed[c]) \o Rest(c)
    /\ \A d \in Cpus \ {c} : taken'[d] = taken[d] /\ primed'[d] = primed[d]
    /\ ppm \subseteq ppm'
    /\ FilePart(c)' /\ NothingLeft(c)' => FileOK(c)'
    /\ ms_head' = IF primed'[c] = <<>> THEN Tail(ms_head)
                  ELSE IF Tail(ms_head) # <<>> /\ primed'[c][1].time > HeadTime(Tail(ms_head)[1])
                  THEN Sorted(Tail(ms_head), c, primed'[c][1].time)
                  ELSE ms_head

\* Dequeue reads on: what was ahead, less its first record, is ahead.
LEMMA DequeueReads ==
    ASSUME KernelInv, mode = "files", FilesTypes, opened = Cpus, NEW c \in Cpus,
           FileOK(c), primed[c] # <<>>, Dequeue(c),
           UNCHANGED <<files, stopwatch, opened>>
    PROVE  ReadOn(c)
<1> DEFINE p == Prime(c)
           rest == Tail(primed[c])
           left == IF rest = <<>> THEN p.traces ELSE rest
<1>1. /\ primed' = [primed EXCEPT ![c] = left]
      /\ taken' = IF rest = <<>> THEN [taken EXCEPT ![c] = p.position] ELSE taken
      /\ ppm' = IF rest = <<>> THEN ppm \cup p.names ELSE ppm
      /\ ms_head' = IF left = <<>> THEN Tail(ms_head)
                    ELSE IF Tail(ms_head) # <<>> /\ left[1].time > HeadTime(Tail(ms_head)[1])
                    THEN Sorted(Tail(ms_head), c, left[1].time)
                    ELSE ms_head
  BY Zenon DEF Dequeue
<1>2. /\ taken \in [Cpus -> Nat] /\ primed \in [Cpus -> Seq(Records)]
  BY DEF FilesTypes
<1>3. files[c] \in Seq(Records) /\ taken[c] \in Nat /\ taken[c] <= Len(files[c])
  BY <1>2, FileReadable DEF FileOK
<1>4. ReadsAhead(c, p)
  BY <1>3, PrimeReads
<1> HIDE DEF p
<1>5. p.traces \in Seq(Records) /\ p.position \in Nat
  BY <1>4 DEF ReadsAhead
<1>6. primed[c] \in Seq(Records) /\ rest \in Seq(Records)
  BY <1>2, TailFields
<1>7. left \in Seq(Records) /\ (rest = <<>> => left = p.traces) /\ (rest # <<>> => left = rest)
  BY <1>5, <1>6
<1>8. /\ taken' \in [Cpus -> Nat] /\ primed' \in [Cpus -> Seq(Records)]
      /\ primed'[c] = left
      /\ \A d \in Cpus \ {c} : taken'[d] = taken[d] /\ primed'[d] = primed[d]
      /\ ppm \subseteq ppm'
  <2> HIDE DEF left, rest
  <2>1. /\ primed' \in [Cpus -> Seq(Records)] /\ primed'[c] = left
        /\ \A d \in Cpus \ {c} : primed'[d] = primed[d]
    BY <1>1, <1>2, <1>7
  <2>2. taken' \in [Cpus -> Nat] /\ \A d \in Cpus \ {c} : taken'[d] = taken[d]
    BY <1>1, <1>2, <1>5
  <2>3. ppm \subseteq ppm'
    BY <1>1
  <2> QED BY <2>1, <2>2, <2>3
<1>9. CASE rest = <<>>
  <2>1. taken'[c] = p.position /\ primed'[c] = p.traces /\ ppm' = ppm \cup p.names
    <3> HIDE DEF rest
    <3> QED BY <1>1, <1>2, <1>7, <1>8, <1>9
  <2>2. Rest(c) = p.traces \o Rest(c)' /\ Rest(c) \in Seq(Records)
    BY <1>3, <1>4, <2>1, ReadsRest, RestType
  <2>3. rest \o Rest(c) = Rest(c)
    <3> HIDE DEF rest
    <3> QED BY <1>9, <2>2, ConcatEmptySeq
  <2>4. primed'[c] \o Rest(c)' = rest \o Rest(c)
    BY <2>1, <2>2, <2>3
  <2>5. FilePart(c)' /\ NothingLeft(c)' => FileOK(c)'
    BY <1>2, <1>4, <2>1, FileReadAhead
  <2> HIDE DEF left
  <2> QED BY <1>1, <1>8, <2>4, <2>5 DEF ReadOn
<1>10. CASE rest # <<>>
  <2>1. taken' = taken /\ primed'[c] = rest /\ ppm' = ppm
    <3> HIDE DEF rest
    <3> QED BY <1>1, <1>7, <1>8, <1>10
  <2>2. Rest(c)' = Rest(c) /\ BadAt(c)' = BadAt(c)
    BY <2>1, SameFile, SameRest
  <2>3. NotesRead(c)'
    BY <2>1, <2>2 DEF FileOK, NotesRead
  <2>4. FromFile(c)'
    <3> SUFFICES ASSUME NEW k \in DOMAIN rest
                 PROVE  \E m \in 1..taken[c] : rest[k] = files[c][m]
      BY <2>1 DEF FromFile
    <3>1. rest[k] = primed[c][k + 1] /\ k + 1 \in DOMAIN primed[c]
      BY <1>6, TailFields
    <3> QED BY <3>1 DEF FileOK, FromFile
  <2>5. FilePart(c)' /\ NothingLeft(c)' => FileOK(c)'
    BY <1>10, <2>1, <2>3, <2>4 DEF FileOK
  <2>6. primed'[c] \o Rest(c)' = rest \o Rest(c)
    BY <2>1, <2>2
  <2> HIDE DEF left
  <2> QED BY <1>1, <1>8, <2>5, <2>6 DEF ReadOn
<1> QED BY <1>9, <1>10

-----------------------------------------------------------------------------
(* What is shown of a file, and what of it has been dealt with.            *)

\* A record more is shown: it is shown of its CPU.
LEMMA ShownMore ==
    ASSUME shown \in Seq(Shown), NEW x \in Shown, shown' = Append(shown, x), NEW d
    PROVE  ShownFrom(d)' = IF x.rec.cpu = d THEN Append(ShownFrom(d), x) ELSE ShownFrom(d)
<1> DEFINE t == Append(shown, x)
           K == {k \in DOMAIN t : t[k].rec.cpu = d}
           L == {k \in DOMAIN shown : shown[k].rec.cpu = d}
<1>1. /\ Len(shown) \in Nat /\ DOMAIN shown = 1..Len(shown)
      /\ DOMAIN t = 1..Len(shown) + 1
      /\ \A k \in DOMAIN shown : t[k] = shown[k] /\ k \in DOMAIN t
      /\ t[Len(shown) + 1] = x
  BY AppendFields
<1>2. Those(t, K) = ShownFrom(d)'
  BY DEF ShownFrom
<1>3. Those(shown, L) = ShownFrom(d)
  BY DEF ShownFrom
<1>4. Len(shown) + 1 \in K <=> x.rec.cpu = d
  <2>1. Len(shown) + 1 \in 1..Len(shown) + 1
    BY <1>1
  <2> HIDE DEF t
  <2> QED BY <1>1, <2>1
<1>5. Upto(Len(shown), K, L)
  <2> HIDE DEF t
  <2> QED BY <1>1 DEF Upto
<1> HIDE DEF K, L
<1>6. Those(t, K) = IF Len(shown) + 1 \in K THEN Append(Those(shown, L), x)
                    ELSE Those(shown, L)
  BY <1>5, ThoseAppend
<1> HIDE DEF t
<1> QED BY <1>2, <1>3, <1>4, <1>6

\* A record more has been dealt with: it counts if it is within the stopwatch.
LEMMA WithinMore ==
    ASSUME NEW h \in Seq(Records), NEW r \in Records
    PROVE  Within(Append(h, r)) = IF InWindow(r) THEN Append(Within(h), r) ELSE Within(h)
<1> DEFINE t == Append(h, r)
           K == {k \in DOMAIN t : InWindow(t[k])}
           L == {k \in DOMAIN h : InWindow(h[k])}
<1>1. /\ Len(h) \in Nat /\ DOMAIN h = 1..Len(h) /\ DOMAIN t = 1..Len(h) + 1
      /\ \A k \in DOMAIN h : t[k] = h[k] /\ k \in DOMAIN t
      /\ t[Len(h) + 1] = r
  BY AppendFields
<1>2. Those(t, K) = Within(t) /\ Those(h, L) = Within(h)
  BY DEF Within
<1>3. Len(h) + 1 \in K <=> InWindow(r)
  <2>1. Len(h) + 1 \in 1..Len(h) + 1
    BY <1>1
  <2> HIDE DEF t
  <2> QED BY <1>1, <2>1
<1>4. Upto(Len(h), K, L)
  <2> HIDE DEF t
  <2> QED BY <1>1 DEF Upto
<1> HIDE DEF K, L
<1>5. Those(t, K) = IF Len(h) + 1 \in K THEN Append(Those(h, L), r) ELSE Those(h, L)
  BY <1>4, ThoseAppend
<1> QED BY <1>2, <1>3, <1>5

\* A record more that is dealt with and shown has the same number in both.
LEMMA SameNumbersMore ==
    ASSUME NEW u \in Seq(Shown), NEW v \in Seq(Records), SameNumbers(u, v),
           NEW x \in Shown, NEW r \in Records, x.rec.seq = r.seq
    PROVE  SameNumbers(Append(u, x), Append(v, r))
<1>1. Len(u) = Len(v) /\ \A k \in DOMAIN v : u[k].rec.seq = v[k].seq
  BY DEF SameNumbers
<1>2. /\ Len(u) \in Nat /\ DOMAIN u = 1..Len(u) /\ DOMAIN v = 1..Len(u)
      /\ \A k \in DOMAIN u : Append(u, x)[k] = u[k]
      /\ \A k \in DOMAIN v : Append(v, r)[k] = v[k]
      /\ Append(u, x)[Len(u) + 1] = x /\ Append(v, r)[Len(u) + 1] = r
      /\ \A k \in DOMAIN Append(v, r) : k \in DOMAIN v \/ k = Len(u) + 1
  BY <1>1, AppendFields
<1>3. Len(Append(u, x)) = Len(Append(v, r))
  BY <1>1, AppendProperties
<1>4. \A k \in DOMAIN Append(v, r) : Append(u, x)[k].rec.seq = Append(v, r)[k].seq
  BY <1>1, <1>2
<1> QED BY <1>3, <1>4 DEF SameNumbers

\* What Handle makes of a record within the stopwatch or before it.
Handled(c) ==
    /\ UNCHANGED <<pipe, files, mode, stopwatch, bpc, done, genesis_time, opened>>
    /\ bpc = "merge" /\ opened = Cpus
    /\ shown' = IF InWindow(primed[c][1])
                THEN Append(shown, [rec |-> Shifted(primed[c][1], genesis_time),
                                    known |-> Known(primed[c][1])])
                ELSE shown
    /\ ReadOn(c)

\* handle, if the record is not behind the stopwatch.
LEMMA HandleHandles ==
    ASSUME KernelInv, ParseTypes, FilesInv, mode = "files", NEW c \in Cpus, Handle(c),
           ~(Adjusted(primed[c][1]).time > stopwatch.end)
    PROVE  Handled(c)
<1> DEFINE x == primed[c][1]
           r == Adjusted(x)
           g == genesis_time
<1>1. /\ bpc = "merge"
      /\ UNCHANGED <<pipe, files, mode, stopwatch, done, genesis_time, opened, bpc>>
      /\ shown' = IF r.time < stopwatch.start THEN shown
                  ELSE Append(shown, [rec |-> r, known |-> Known(r)])
      /\ Dequeue(c)
  BY Zenon DEF Handle
<1>2. /\ opened = Cpus /\ primed[c] # <<>> /\ g \in Nat /\ x \in Records /\ g <= x.time
      /\ r = Shifted(x, g)
  BY HandleFirst
<1>3. x.time \in Nat /\ stopwatch.start \in Nat /\ stopwatch.end \in Nat
  BY <1>2, RecordFields DEF ParseTypes
<1>4. r.time = x.time - g /\ r.pid = x.pid
  BY <1>2 DEF Shifted, Records
<1>5. InWindow(x) <=> ~(r.time < stopwatch.start)
  <2>1. ~(r.time > stopwatch.end)
    OBVIOUS
  <2> HIDE DEF x, r, g
  <2> QED BY <1>2, <1>3, <1>4, <2>1 DEF InWindow, g
<1>6. FilesTypes /\ FileOK(c)
  BY DEF FilesInv
<1>7. ReadOn(c)
  BY <1>1, <1>2, <1>6, DequeueReads
<1>8. Known(r) <=> Known(x)
  BY <1>4 DEF Known
<1>9. shown' = IF InWindow(x) THEN Append(shown, [rec |-> Shifted(x, g), known |-> Known(x)])
               ELSE shown
  <2>1. Known(r) = Known(x)
    BY <1>4 DEF Known
  <2> QED BY <1>1, <1>2, <1>5, <2>1
<1> QED BY <1>1, <1>2, <1>7, <1>9 DEF Handled

\* c is the first stream of the list.
FirstHead(c) ==
    /\ primed[c] # <<>> /\ genesis_time \in Nat
    /\ 1 \in DOMAIN ms_head /\ ms_head[1] = c
    /\ primed[c][1] \in Records /\ genesis_time <= primed[c][1].time
    /\ primed[c][1].cpu = c

\* When handle is called its CPU is the first of the list.
LEMMA HandleFirstHead ==
    ASSUME KernelInv, FilesInv, mode = "files", NEW c \in Cpus, Handle(c)
    PROVE  FirstHead(c)
<1>1. /\ primed[c] # <<>> /\ genesis_time \in Nat /\ 1 \in DOMAIN ms_head
      /\ ms_head[1] = c /\ primed[c][1] \in Records
      /\ genesis_time <= primed[c][1].time
  BY HandleFirst
<1>2. FileOK(c) /\ taken \in [Cpus -> Nat] /\ primed \in [Cpus -> Seq(Records)]
  BY DEF FilesInv, FilesTypes
<1>3. primed[c][1].cpu = c
  BY <1>1, <1>2, FilePartFirst
<1> QED BY <1>1, <1>3 DEF FirstHead

\* What Handle shows, if it shows anything.
Adds(c, e) ==
    /\ e \in Shown /\ e.rec = Shifted(primed[c][1], genesis_time)
    /\ e.rec.cpu = c /\ e.rec.seq = primed[c][1].seq
    /\ e.rec.kind = primed[c][1].kind /\ e.rec.pid = primed[c][1].pid
    /\ e.rec.time = primed[c][1].time - genesis_time
    /\ e.known = Known(primed[c][1])
    /\ shown' = Append(shown, e)

\* handle shows the record if it is within the stopwatch.
LEMMA HandledShows ==
    ASSUME NEW c \in Cpus, Handled(c), FirstHead(c)
    PROVE  \/ InWindow(primed[c][1]) /\ \E e : Adds(c, e)
           \/ ~InWindow(primed[c][1]) /\ shown' = shown
<1> DEFINE x == primed[c][1]
           e == [rec |-> Shifted(x, genesis_time), known |-> Known(x)]
<1>1. shown' = IF InWindow(x) THEN Append(shown, e) ELSE shown
  BY DEF Handled
<1>2. x \in Records /\ genesis_time \in Nat /\ genesis_time <= x.time /\ x.cpu = c
  BY DEF FirstHead
<1>3. Known(x) \in BOOLEAN
  BY DEF Known
<1> HIDE DEF x
<1>4. /\ Shifted(x, genesis_time) \in Records
      /\ Shifted(x, genesis_time).time = x.time - genesis_time
      /\ Shifted(x, genesis_time).seq = x.seq
      /\ Shifted(x, genesis_time).cpu = x.cpu /\ Shifted(x, genesis_time).kind = x.kind
      /\ Shifted(x, genesis_time).pid = x.pid
  BY <1>2, ShiftedFields
<1>5. /\ e \in Shown /\ e.rec = Shifted(x, genesis_time) /\ e.known = Known(x)
  BY <1>3, <1>4 DEF Shown
<1> HIDE DEF e
<1>6. InWindow(x) => Adds(c, e)
  BY <1>1, <1>2, <1>4, <1>5 DEF Adds, x
<1>7. ~InWindow(x) => shown' = shown
  BY <1>1
<1> QED BY <1>6, <1>7 DEF x

\* shown stays a sequence of records shown.
LEMMA HandledTypes ==
    ASSUME KernelInv, FilesInv, mode = "files", NEW c \in Cpus, Handled(c), FirstHead(c)
    PROVE  shown \in Seq(Shown) /\ shown' \in Seq(Shown)
<1>1. shown \in Seq(Shown)
  BY DEF FilesInv, FilesTypes
<1>2. ASSUME NEW e, Adds(c, e) PROVE shown' \in Seq(Shown)
  BY <1>1, <1>2, AppendProperties DEF Adds
<1>3. shown' = shown => shown' \in Seq(Shown)
  BY <1>1
<1> QED BY <1>1, <1>2, <1>3, HandledShows

\* handle changes neither the stopwatch nor the time that times count from.
LEMMA HandledWithin ==
    ASSUME NEW c, Handled(c), NEW h
    PROVE  Within(h)' = Within(h)
BY DEF Handled, Within, InWindow

\* What has been shown of the file is what is within the stopwatch of what has
\* been dealt with, the first record now among it.
LEMMA HandledFilePart ==
    ASSUME KernelInv, FilesInv, mode = "files", NEW c \in Cpus, Handled(c), FirstHead(c)
    PROVE  FilePart(c)'
<1> DEFINE x == primed[c][1]
<1>1. FileOK(c) /\ taken \in [Cpus -> Nat] /\ primed \in [Cpus -> Seq(Records)]
      /\ primed[c] # <<>>
  BY DEF FilesInv, FilesTypes, FirstHead
<1>2. PICK h : HeadPart(c, h)
  BY <1>1, FilePartFirst
<1>3. /\ h \in Seq(Records) /\ SameNumbers(ShownFrom(c), Within(h))
      /\ GoodPart(c) = Append(h, x) \o (Tail(primed[c]) \o Rest(c))
  BY <1>2 DEF HeadPart
<1>4. x \in Records
  BY DEF FirstHead
<1>5. primed'[c] \o Rest(c)' = Tail(primed[c]) \o Rest(c) /\ files' = files
      /\ bpc' = "merge"
  BY DEF Handled, ReadOn
<1> HIDE DEF x
<1>6. GoodPart(c)' = Append(h, x) \o (primed'[c] \o Rest(c)')
  BY <1>3, <1>5, SameFile
<1>7. Append(h, x) \in Seq(Records)
  BY <1>3, <1>4, AppendProperties
<1>8. Within(Append(h, x)) = IF InWindow(x) THEN Append(Within(h), x) ELSE Within(h)
  BY <1>3, <1>4, WithinMore
<1>9. \A k : Within(k)' = Within(k)
  BY HandledWithin
<1>10. shown \in Seq(Shown)
  BY HandledTypes
<1>11. ShownFrom(c) \in Seq(Shown) /\ Within(h) \in Seq(Records)
  <2>1. \A K : Those(shown, K) \in Seq(Shown) /\ Those(h, K) \in Seq(Records)
    BY <1>3, <1>10, ThoseType
  <2> QED BY <2>1 DEF ShownFrom, Within
<1>12. SameNumbers(ShownFrom(c)', Within(Append(h, x)))
  <2>1. CASE InWindow(x)
    <3>1. PICK e : Adds(c, e)
      BY <2>1, HandledShows DEF x
    <3>2. /\ e \in Shown /\ e.rec.cpu = c /\ e.rec.seq = x.seq
          /\ shown' = Append(shown, e)
      BY <3>1 DEF Adds, x
    <3>3. ShownFrom(c)' = Append(ShownFrom(c), e)
      BY <1>10, <3>2, ShownMore
    <3>4. SameNumbers(Append(ShownFrom(c), e), Append(Within(h), x))
      BY <1>3, <1>4, <1>11, <3>2, SameNumbersMore
    <3> QED BY <1>8, <2>1, <3>3, <3>4
  <2>2. CASE ~InWindow(x)
    <3>1. shown' = shown
      BY <2>2, HandledShows DEF x
    <3>2. ShownFrom(c)' = ShownFrom(c)
      BY <3>1 DEF ShownFrom
    <3> QED BY <1>3, <1>8, <2>2, <3>2
  <2> QED BY <2>1, <2>2
<1>13. PICK hx \in Seq(Records) : hx = Append(h, x)
  BY <1>7
<1>14. SameNumbers(ShownFrom(c)', Within(hx)')
  <2>1. Within(hx)' = Within(hx)
    BY HandledWithin
  <2> QED BY <1>12, <1>13, <2>1
<1>15. \E k \in Seq(Records) :
          /\ GoodPart(c)' = k \o (primed'[c] \o Rest(c)')
          /\ SameNumbers(ShownFrom(c)', Within(k)')
          /\ bpc' \in {"start", "setup"} => k = <<>>
  BY <1>5, <1>6, <1>13, <1>14
<1> QED BY <1>15 DEF FilePart

\* Each file is still read and shown up to the same place.
LEMMA HandledFiles ==
    ASSUME KernelInv, FilesInv, mode = "files", NEW c \in Cpus, Handled(c), FirstHead(c),
           NEW d \in Cpus
    PROVE  FileOK(d)'
<1>1. FileOK(d)
  BY DEF FilesInv
<1>2. NothingLeft(d)'
  BY DEF NothingLeft, Handled
<1>3. CASE d = c
  BY <1>2, <1>3, HandledFilePart DEF Handled, ReadOn
<1>4. CASE d # c
  <2>1. /\ taken'[d] = taken[d] /\ primed'[d] = primed[d] /\ ppm \subseteq ppm'
        /\ UNCHANGED <<files, stopwatch, opened, genesis_time, bpc>>
    BY <1>4 DEF Handled, ReadOn
  <2>2. ShownFrom(d)' = ShownFrom(d)
    <3>1. ASSUME NEW e, Adds(c, e) PROVE ShownFrom(d)' = ShownFrom(d)
      <4>1. /\ e \in Shown /\ e.rec.cpu = c /\ shown' = Append(shown, e)
            /\ shown \in Seq(Shown)
        BY <3>1, HandledTypes DEF Adds
      <4> QED BY <1>4, <4>1, ShownMore
    <3>2. shown' = shown => ShownFrom(d)' = ShownFrom(d)
      BY DEF ShownFrom
    <3> QED BY <3>1, <3>2, HandledShows
  <2> QED BY <1>1, <1>2, <2>1, <2>2, FileKept
<1> QED BY <1>3, <1>4

-----------------------------------------------------------------------------
(* The list of the streams, after the first record.                        *)

\* The list without the first stream is in order; the first is in front of it.
LEMMA OthersOfFirst ==
    ASSUME FilesTypes, HeadsOK, NEW c \in Cpus, FirstHead(c)
    PROVE  /\ OthersIn(c, Tail(ms_head), primed)
           /\ InsertedAt(ms_head, Cpus, Tail(ms_head), c, 0)
<1> DEFINE o == Tail(ms_head)
           L == Len(ms_head)
<1>1. /\ ms_head \in Seq(Cpus) /\ primed \in [Cpus -> Seq(Records)]
      /\ 1 \in DOMAIN ms_head /\ ms_head[1] = c /\ primed[c] # <<>>
  BY DEF FilesTypes, FirstHead
<1>2. ms_head # <<>>
  BY <1>1
<1>3. /\ L \in Nat /\ DOMAIN ms_head = 1..L
      /\ o \in Seq(Cpus) /\ DOMAIN o = 1..L - 1
      /\ \A k \in 1..L - 1 : o[k] = ms_head[k + 1] /\ k + 1 \in DOMAIN ms_head
      /\ \A k \in DOMAIN ms_head : k = 1 \/ k - 1 \in 1..L - 1
  BY <1>1, <1>2, TailFields
<1>4. Len(o) = L - 1 /\ L - 1 \in Nat /\ 1 <= L
  BY <1>1, <1>2, <1>3, HeadTailProperties
<1>5. HeadsIn(ms_head, primed)
  BY HeadsAreIn
<1>6. /\ \A j, k \in DOMAIN ms_head : j # k => ms_head[j] # ms_head[k]
      /\ \A j, k \in DOMAIN ms_head : j < k =>
            primed[ms_head[j]][1].time <= primed[ms_head[k]][1].time
      /\ \A d \in Cpus : primed[d] # <<>> <=> \E k \in DOMAIN ms_head : ms_head[k] = d
  BY <1>5 DEF HeadsIn, InTime
<1> HIDE DEF o, L
<1>7. InTime(o, primed)
  <2>1. ASSUME NEW j \in DOMAIN o, NEW k \in DOMAIN o
        PROVE  /\ j # k => o[j] # o[k]
               /\ j < k => primed[o[j]][1].time <= primed[o[k]][1].time
    <3>1. /\ o[j] = ms_head[j + 1] /\ j + 1 \in DOMAIN ms_head
          /\ o[k] = ms_head[k + 1] /\ k + 1 \in DOMAIN ms_head
      BY <1>3
    <3>2. j \in Nat /\ k \in Nat
      BY <1>3
    <3>3. (j # k => j + 1 # k + 1) /\ (j < k => j + 1 < k + 1)
      BY <3>2
    <3> QED BY <1>6, <3>1, <3>3
  <2> QED BY <2>1 DEF InTime
<1>8. \A k \in DOMAIN o : o[k] # c
  <2> SUFFICES ASSUME NEW k \in DOMAIN o PROVE o[k] # c
    OBVIOUS
  <2>1. o[k] = ms_head[k + 1] /\ k + 1 \in DOMAIN ms_head /\ k + 1 # 1
    BY <1>3
  <2> QED BY <1>1, <1>6, <2>1
<1>9. \A d \in Cpus \ {c} : primed[d] # <<>> <=> \E k \in DOMAIN o : o[k] = d
  <2> SUFFICES ASSUME NEW d \in Cpus \ {c}
               PROVE  (\E k \in DOMAIN ms_head : ms_head[k] = d)
                         <=> \E k \in DOMAIN o : o[k] = d
    BY <1>6
  <2>1. ASSUME NEW k \in DOMAIN ms_head, ms_head[k] = d
        PROVE  \E j \in DOMAIN o : o[j] = d
    <3>1. k # 1 /\ k - 1 \in DOMAIN o /\ (k - 1) + 1 = k
      BY <1>1, <1>3, <2>1
    <3> QED BY <1>3, <2>1, <3>1
  <2>2. ASSUME NEW k \in DOMAIN o, o[k] = d
        PROVE  \E j \in DOMAIN ms_head : ms_head[j] = d
    BY <1>3, <2>2
  <2> QED BY <2>1, <2>2
<1>10. OthersIn(c, o, primed)
  BY <1>1, <1>3, <1>7, <1>8, <1>9 DEF OthersIn
<1>11. InsertedAt(ms_head, Cpus, o, c, 0)
  BY <1>1, <1>3, <1>4 DEF InsertedAt, L
<1> QED BY <1>10, <1>11 DEF o

\* ms_deq and ms_resort leave the list in the order of the first records' times,
\* with the streams that have records.
LEMMA HandledHeads ==
    ASSUME FilesTypes, HeadsOK, NEW c \in Cpus, Handled(c), FirstHead(c)
    PROVE  HeadsOK' /\ ms_head' \in Seq(Cpus)
<1> DEFINE o == Tail(ms_head)
           left == primed'[c]
<1>1. OthersIn(c, o, primed) /\ InsertedAt(ms_head, Cpus, o, c, 0)
  BY OthersOfFirst
<1>2. /\ primed' = [primed EXCEPT ![c] = left] /\ left \in Seq(Records)
      /\ \A d \in Cpus \ {c} : primed'[d] = primed[d]
      /\ ms_head' = IF left = <<>> THEN o
                    ELSE IF o # <<>> /\ left[1].time > HeadTime(o[1])
                    THEN Sorted(o, c, left[1].time)
                    ELSE ms_head
  BY DEF Handled, ReadOn
<1>3. /\ o \in Seq(Cpus) /\ DOMAIN o = 1..Len(o) /\ Len(o) \in Nat
      /\ \A k \in DOMAIN o : o[k] \in Cpus /\ o[k] # c
      /\ InTime(o, primed)
      /\ \A d \in Cpus \ {c} : primed[d] # <<>> <=> \E k \in DOMAIN o : o[k] = d
  BY <1>1, LenProperties, ElementOfSeq DEF OthersIn
<1> HIDE DEF o, left
<1>4. HeadsIn(ms_head', primed') /\ ms_head' \in Seq(Cpus)
  <2>1. CASE left = <<>>
    <3>1. ms_head' = o /\ primed'[c] = <<>>
      BY <1>2, <2>1 DEF left
    <3>2. InTime(o, primed')
      BY <1>2, <1>3 DEF InTime
    <3>3. \A d \in Cpus : primed'[d] # <<>> <=> \E k \in DOMAIN o : o[k] = d
      BY <1>2, <1>3, <3>1
    <3> QED BY <1>3, <3>1, <3>2, <3>3 DEF HeadsIn
  <2>2. CASE left # <<>> /\ o # <<>> /\ left[1].time > HeadTime(o[1])
    <3> DEFINE t == left[1].time
               w == Sorted(o, c, t)
    <3>1. t \in Nat
      BY <1>2, <2>2, HeadRecord
    <3>2. PICK m \in 0..Len(o) :
             /\ InsertedAt(w, Cpus, o, c, m)
             /\ \A k \in 1..m : primed[o[k]][1].time <= t
             /\ \A k \in m + 1..Len(o) : t <= primed[o[k]][1].time
      BY <1>1, <3>1, SortedPlace
    <3>3. ms_head' = w
      BY <1>2, <2>2
    <3> HIDE DEF w
    <3>4. HeadsIn(w, [primed EXCEPT ![c] = left]) /\ w \in Seq(Cpus)
      BY <1>1, <1>2, <2>2, <3>2, InsertedHeads
    <3> QED BY <1>2, <3>3, <3>4
  <2>3. CASE left # <<>> /\ ~(o # <<>> /\ left[1].time > HeadTime(o[1]))
    <3> DEFINE t == left[1].time
    <3>1. t \in Nat
      BY <1>2, <2>3, HeadRecord
    <3>2. \A k \in 1..Len(o) : t <= primed[o[k]][1].time
      <4> SUFFICES ASSUME NEW k \in 1..Len(o) PROVE t <= primed[o[k]][1].time
        OBVIOUS
      <4>1. 1 \in DOMAIN o /\ k \in DOMAIN o /\ o # <<>> /\ (k = 1 \/ 1 < k)
        BY <1>3
      <4>2. \A j \in DOMAIN o : primed[o[j]][1].time \in Nat
        <5> SUFFICES ASSUME NEW j \in DOMAIN o PROVE primed[o[j]][1].time \in Nat
          OBVIOUS
        <5>1. primed[o[j]] # <<>> /\ primed[o[j]] \in Seq(Records)
          BY <1>3 DEF FilesTypes
        <5> QED BY <5>1, HeadRecord
      <4>3. t <= primed[o[1]][1].time
        <5>1. ~(t > primed[o[1]][1].time)
          BY <2>3, <4>1 DEF HeadTime
        <5>2. primed[o[1]][1].time \in Nat
          BY <4>1, <4>2
        <5> QED BY <3>1, <5>1, <5>2
      <4>4. k # 1 => primed[o[1]][1].time <= primed[o[k]][1].time
        BY <1>3, <4>1 DEF InTime
      <4>5. primed[o[1]][1].time \in Nat /\ primed[o[k]][1].time \in Nat
        BY <4>1, <4>2
      <4> HIDE DEF t
      <4> QED BY <3>1, <4>3, <4>4, <4>5
    <3>3. (\A k \in 1..0 : FALSE) /\ 0 + 1 = 1
      OBVIOUS
    <3>4. ms_head' = ms_head
      BY <1>2, <2>3
    <3>5. \A k \in 1..0 : primed[o[k]][1].time <= left[1].time
      BY <3>3
    <3>6. \A k \in 0 + 1..Len(o) : left[1].time <= primed[o[k]][1].time
      BY <3>2
    <3>7. HeadsIn(ms_head, [primed EXCEPT ![c] = left]) /\ ms_head \in Seq(Cpus)
      BY <1>1, <1>2, <2>3, <3>5, <3>6, InsertedHeads
    <3> QED BY <1>2, <3>4, <3>7
  <2> QED BY <2>1, <2>2, <2>3
<1>5. (HeadsOK <=> HeadsIn(ms_head, primed))'
  BY HeadsAreIn, PTL
<1> QED BY <1>4, <1>5

\* No stream has a record earlier than that dealt with.
LEMMA LaterHeads ==
    ASSUME KernelInv, FilesInv, mode = "files", NEW c \in Cpus, Handled(c), FirstHead(c),
           NEW d \in Cpus, primed'[d] # <<>>
    PROVE  primed[c][1].time <= primed'[d][1].time /\ primed'[d][1].time \in Nat
<1>1. /\ FilesTypes /\ HeadsOK /\ FileOK(c) /\ taken \in [Cpus -> Nat]
      /\ primed \in [Cpus -> Seq(Records)] /\ 1 \in DOMAIN ms_head /\ ms_head[1] = c
      /\ primed[c] # <<>>
  BY DEF FilesInv, FilesTypes, FirstHead
<1>2. primed'[d] \in Seq(Records)
  BY DEF Handled, ReadOn
<1>3. primed'[d][1].time \in Nat
  BY <1>2, HeadRecord
<1>4. CASE d # c
  <2>1. primed'[d] = primed[d]
    BY <1>4 DEF Handled, ReadOn
  <2> QED BY <1>1, <1>3, <2>1, FirstOfAll DEF HeadTime
<1>5. CASE d = c
  <2> DEFINE left == primed'[c]
             R == Rest(c)'
             w == Tail(primed[c]) \o Rest(c)
  <2>1. \A k \in DOMAIN w : primed[c][1].time <= w[k].time
    BY <1>1, FilePartFirst
  <2>2. left \o R = w
    BY DEF Handled, ReadOn
  <2>3. w \in Seq(Records) /\ Tail(primed[c]) \in Seq(Records) /\ Rest(c) \in Seq(Records)
    BY <1>1, FilePartFirst, ConcatProperties
  <2>4. /\ files' = files /\ taken'[c] \in Nat
    BY DEF Handled, ReadOn
  <2>5. R = Traces(SubSeq(files[c], taken'[c] + 1, BadAt(c) - 1))
    BY <2>4, SameFile DEF Rest
  <2>6. R \in Seq(Records)
    <3>1. files[c] \in Seq(Records) /\ Len(files[c]) \in Nat
      BY FileReadable
    <3>2. SubSeq(files[c], taken'[c] + 1, BadAt(c) - 1) \in Seq(Records)
      <4>1. BadAt(c) \in 1..Len(files[c]) + 1
        BY <3>1, BadAtFirst
      <4>2. \A k \in 1..Len(files[c]) : files[c][k] \in Records
        BY <3>1, ElementOfSeq
      <4>3. \A k \in taken'[c] + 1..BadAt(c) - 1 : files[c][k] \in Records
        BY <2>4, <3>1, <4>1, <4>2
      <4>4. taken'[c] + 1 \in Int /\ BadAt(c) - 1 \in Int
        BY <2>4, <3>1, <4>1
      <4> QED BY <4>3, <4>4, <2>4, SubSeqProperties
    <3>3. \A K : Those(SubSeq(files[c], taken'[c] + 1, BadAt(c) - 1), K) \in Seq(Records)
      BY <3>2, ThoseType
    <3> QED BY <2>5, <3>3 DEF Traces
  <2> HIDE DEF R, w
  <2>7. left \in Seq(Records) /\ left # <<>>
    BY <1>2, <1>5
  <2>8. Len(left) \in Nat /\ 1 \in DOMAIN left /\ DOMAIN left = 1..Len(left)
    BY <2>7, TailFields
  <2> HIDE DEF left
  <2>9. 1 \in DOMAIN w /\ w[1] = left[1]
    <3>1. /\ Len(w) = Len(left) + Len(R) /\ Len(R) \in Nat
          /\ \A k \in 1..Len(left) + Len(R) : w[k] = IF k <= Len(left) THEN left[k]
                                                    ELSE R[k - Len(left)]
      BY <2>2, <2>6, <2>7, ConcatProperties, LenProperties
    <3>2. DOMAIN w = 1..Len(w)
      BY <2>3, LenProperties
    <3> QED BY <2>8, <3>1, <3>2
  <2>10. primed[c][1].time <= left[1].time
    BY <2>1, <2>9
  <2> QED BY <1>3, <1>5, <2>10 DEF left
<1> QED BY <1>4, <1>5

\* What handle shows is not earlier than what has been shown, nor later than what
\* is primed.
LEMMA HandledTimes ==
    ASSUME KernelInv, FilesInv, mode = "files", NEW c \in Cpus, Handled(c), FirstHead(c)
    PROVE  TimesOK'
<1> DEFINE x == primed[c][1]
           g == genesis_time
<1>1. /\ TimesOK /\ shown \in Seq(Shown) /\ primed[c] # <<>>
      /\ x \in Records /\ g \in Nat /\ g <= x.time /\ genesis_time' = g
  BY DEF FilesInv, FilesTypes, FirstHead, Handled
<1>2. x.time \in Nat
  BY <1>1, RecordFields
<1>3. \A d \in Cpus : primed'[d] # <<>> =>
         x.time <= primed'[d][1].time /\ primed'[d][1].time \in Nat
  BY LaterHeads
<1>4. /\ \A j, k \in DOMAIN shown : j < k => shown[j].rec.time <= shown[k].rec.time
      /\ \A k \in DOMAIN shown : shown[k].rec.time + g <= x.time
  BY <1>1 DEF TimesOK, HeadTime
<1>5. \A k \in DOMAIN shown : shown[k].rec.time \in Nat
  <2> SUFFICES ASSUME NEW k \in DOMAIN shown PROVE shown[k].rec.time \in Nat
    OBVIOUS
  <2>1. shown[k] \in Shown
    BY <1>1, ElementOfSeq, LenProperties
  <2>2. shown[k].rec \in Records
    BY <2>1 DEF Shown
  <2> QED BY <2>2, RecordFields
<1> HIDE DEF x, g
<1>6. \A d \in Cpus : primed'[d] # <<>> => g # Unset /\ g <= primed'[d][1].time
  BY <1>1, <1>2, <1>3 DEF Unset
<1>7. /\ \A j, k \in DOMAIN shown' : j < k => shown'[j].rec.time <= shown'[k].rec.time
      /\ \A k \in DOMAIN shown' : shown'[k].rec.time + g <= x.time
  <2>1. ASSUME NEW e, Adds(c, e)
        PROVE  /\ \A j, k \in DOMAIN shown' :
                     j < k => shown'[j].rec.time <= shown'[k].rec.time
               /\ \A k \in DOMAIN shown' : shown'[k].rec.time + g <= x.time
    <3>1. shown' = Append(shown, e) /\ e \in Shown /\ e.rec.time = x.time - g
      BY <2>1 DEF Adds, x, g
    <3>2. /\ Len(shown) \in Nat /\ DOMAIN shown = 1..Len(shown)
          /\ DOMAIN shown' = 1..Len(shown) + 1
          /\ \A k \in DOMAIN shown : shown'[k] = shown[k]
          /\ shown'[Len(shown) + 1] = e
      BY <1>1, <3>1, AppendFields
    <3>3. \A k \in DOMAIN shown : shown[k].rec.time <= e.rec.time
      BY <1>1, <1>2, <1>4, <1>5, <3>1
    <3>4. ASSUME NEW j \in DOMAIN shown', NEW k \in DOMAIN shown', j < k
          PROVE  shown'[j].rec.time <= shown'[k].rec.time
      <4>1. j \in DOMAIN shown /\ (k \in DOMAIN shown \/ k = Len(shown) + 1)
        BY <3>2, <3>4
      <4> QED BY <1>4, <3>2, <3>3, <3>4, <4>1
    <3>5. ASSUME NEW k \in DOMAIN shown' PROVE shown'[k].rec.time + g <= x.time
      <4>1. k \in DOMAIN shown \/ k = Len(shown) + 1
        BY <3>2
      <4>2. e.rec.time + g <= x.time
        BY <1>1, <1>2, <3>1
      <4> QED BY <1>4, <3>2, <4>1, <4>2
    <3> QED BY <3>4, <3>5
  <2> QED BY <1>4, <2>1, HandledShows
<1>8. \A k \in DOMAIN shown' : shown'[k].rec.time \in Nat
  <2>1. shown' \in Seq(Shown)
    BY HandledTypes
  <2> SUFFICES ASSUME NEW k \in DOMAIN shown' PROVE shown'[k].rec.time \in Nat
    OBVIOUS
  <2>2. shown'[k] \in Shown
    BY <2>1, ElementOfSeq, LenProperties
  <2>3. shown'[k].rec \in Records
    BY <2>2 DEF Shown
  <2> QED BY <2>3, RecordFields
<1>9. \A k \in DOMAIN shown' : \A d \in Cpus : primed'[d] # <<>> =>
         shown'[k].rec.time + g <= primed'[d][1].time
  BY <1>1, <1>2, <1>3, <1>7, <1>8
<1> QED BY <1>1, <1>6, <1>7, <1>9 DEF TimesOK, HeadTime

\* The types after handle.
LEMMA HandledFilesTypes ==
    ASSUME KernelInv, FilesInv, mode = "files", NEW c \in Cpus, Handled(c), FirstHead(c)
    PROVE  FilesTypes'
<1>1. FilesTypes /\ HeadsOK
  BY DEF FilesInv
<1>2. ms_head' \in Seq(Cpus) /\ shown' \in Seq(Shown)
  BY <1>1, HandledHeads, HandledTypes
<1> QED BY <1>1, <1>2 DEF FilesTypes, Handled, ReadOn

-----------------------------------------------------------------------------
(* The names of tasks.                                                     *)

\* If nothing has come damaged a file has no bad record.
LEMMA NothingBad ==
    ASSUME KernelInv, mode = "files", Damaged = {}, NEW c \in Cpus
    PROVE  BadAt(c) = Len(files[c]) + 1
<1>1. files[c] \in Seq(Records) /\ Len(files[c]) \in Nat /\ DOMAIN files[c] = 1..Len(files[c])
  BY FileReadable
<1>2. /\ BadAt(c) \in 1..Len(files[c]) + 1
      /\ BadAt(c) <= Len(files[c]) => files[c][BadAt(c)].state # "good"
  BY <1>1, BadAtFirst
<1>3. \A k \in DOMAIN files[c] : files[c][k].state = "good"
  <2> SUFFICES ASSUME NEW k \in DOMAIN files[c] PROVE files[c][k].state = "good"
    OBVIOUS
  <2>1. files[c][k] \in Arrived
    BY DEF Arrived
  <2> QED BY <2>1 DEF Damaged
<1>4. ~(BadAt(c) <= Len(files[c]))
  BY <1>1, <1>2, <1>3
<1> QED BY <1>1, <1>2, <1>4

\* The task of the first record is known, or its name has been given on another
\* CPU at the very same time.
LEMMA KnownOrNow ==
    ASSUME KernelInv, ParseTypes, FilesInv, mode = "files", NEW c \in Cpus,
           FirstHead(c), bpc = "merge", opened = Cpus, dropped = 0, Damaged = {},
           primed[c][1].kind = "event"
    PROVE  \/ Known(primed[c][1])
           \/ \E d \in Cpus \ {c} : \E j \in DOMAIN files[d] :
                 /\ files[d][j].kind = "process"
                 /\ files[d][j].pid = primed[c][1].pid
                 /\ files[d][j].time = primed[c][1].time
<1> DEFINE x == primed[c][1]
<1>1. /\ FilesTypes /\ HeadsOK /\ \A d \in Cpus : FileOK(d)
      /\ taken \in [Cpus -> Nat] /\ primed \in [Cpus -> Seq(Records)]
      /\ 1 \in DOMAIN ms_head /\ ms_head[1] = c /\ primed[c] # <<>>
      /\ x \in Records
  BY DEF FilesInv, FilesTypes, FirstHead
<1>2. \A d \in Cpus : /\ files[d] \in Seq(Records) /\ Len(files[d]) \in Nat
                      /\ DOMAIN files[d] = 1..Len(files[d])
                      /\ Readable(files[d]) /\ AllOf(files[d], d)
  BY FileReadable
<1>3. \A d \in Cpus : primed[d] # <<>> =>
         \E m \in DOMAIN files[d] : m <= taken[d] /\ primed[d][1] = files[d][m]
  <2> SUFFICES ASSUME NEW d \in Cpus, primed[d] # <<>>
               PROVE  \E m \in DOMAIN files[d] : m <= taken[d] /\ primed[d][1] = files[d][m]
    OBVIOUS
  <2>1. 1 \in DOMAIN primed[d] /\ taken[d] \in Nat
    BY <1>1, TailFields
  <2>2. PICK m \in 1..taken[d] : primed[d][1] = files[d][m]
    BY <1>1, <2>1 DEF FileOK, FromFile
  <2>3. m \in DOMAIN files[d] /\ m <= taken[d]
    BY <1>1, <1>2, <2>1, <2>2 DEF FileOK
  <2> QED BY <2>2, <2>3
<1>4. PICK m \in DOMAIN files[c] : m <= taken[c] /\ x = files[c][m]
  BY <1>1, <1>3
<1>5. \A d \in Cpus : \A j \in DOMAIN files[d] :
         j <= taken[d] /\ files[d][j].kind = "process" => files[d][j].pid \in ppm
  <2> SUFFICES ASSUME NEW d \in Cpus, NEW j \in DOMAIN files[d], j <= taken[d],
                      files[d][j].kind = "process"
               PROVE  files[d][j].pid \in ppm
    OBVIOUS
  <2>1. j \in 1..taken[d] /\ j < BadAt(d)
    <3>1. BadAt(d) = Len(files[d]) + 1 /\ taken[d] \in Nat
      BY <1>1, NothingBad
    <3> QED BY <1>2, <3>1
  <2> QED BY <1>1, <2>1 DEF FileOK, NotesRead
<1>6. IsEvent(files[c][m]) /\ files[c][m].named
  <2>1. AllNamed(files[c])
    BY DEF KernelInv, NamingOK
  <2> QED BY <1>4, <2>1 DEF AllNamed, IsEvent
<1>7. \/ NotedAt(files[c], m)
      \/ NotedElsewhere(files, relay, c, x.pid, x.time)
  BY <1>4, <1>6 DEF KernelInv, NotesOK, FileNotes
<1> HIDE DEF x
<1>8. CASE NotedAt(files[c], m)
  <2>1. PICK j \in DOMAIN files[c] : j < m /\ NoteOf(files[c][j], files[c][m].pid)
    BY <1>8 DEF NotedAt
  <2>2. j <= taken[c] /\ taken[c] \in Nat
    BY <1>1, <1>2, <1>4, <2>1
  <2>3. x.pid \in ppm
    BY <1>4, <1>5, <2>1, <2>2 DEF NoteOf
  <2> QED BY <2>3 DEF Known, x
<1>9. CASE NotedElsewhere(files, relay, c, x.pid, x.time)
  <2>1. \A d \in Cpus : DOMAIN relay[d] = {}
    <3>1. wireEnded
      BY DEF ParseTypes
    <3>2. \A d \in Cpus : relay[d] = <<>>
      BY <3>1 DEF KernelInv, WireOK
    <3> QED BY <3>2
  <2>2. PICK d \in Cpus \ {c} : Noted(files[d], x.pid, x.time)
    BY <1>9, <2>1 DEF NotedElsewhere, Noted
  <2>3. PICK j \in DOMAIN files[d] : /\ files[d][j].kind = "process"
                                     /\ files[d][j].pid = x.pid
                                     /\ files[d][j].time <= x.time
    BY <2>2 DEF Noted, NoteOf
  <2>4. CASE j <= taken[d]
    <3>1. x.pid \in ppm
      BY <1>5, <2>3, <2>4
    <3> QED BY <3>1 DEF Known, x
  <2>5. CASE ~(j <= taken[d])
    <3>1. primed[d] # <<>>
      <4>1. taken[d] # Len(files[d])
        BY <1>2, <2>3, <2>5
      <4> QED BY <1>1, <4>1 DEF FileOK
    <3>2. PICK n \in DOMAIN files[d] : n <= taken[d] /\ primed[d][1] = files[d][n]
      BY <1>3, <3>1
    <3>3. n <= j
      <4>1. taken[d] \in Nat /\ j \in Nat /\ n \in Nat
        BY <1>1, <1>2, <2>3, <3>2
      <4> QED BY <2>5, <3>2, <4>1
    <3>4. primed[d][1].time <= files[d][j].time
      BY <1>2, <2>3, <3>2, <3>3, ReadableOrder
    <3>5. x.time <= primed[d][1].time
      BY <1>1, <3>1, FirstOfAll DEF HeadTime, x
    <3>6. files[d][j].time \in Nat /\ x.time \in Nat /\ primed[d][1].time \in Nat
      <4>1. files[d][j] \in Records /\ primed[d][1] \in Records
        BY <1>2, <2>3, <3>2, ElementOfSeq
      <4> QED BY <1>1, <4>1, RecordFields DEF x
    <3>7. files[d][j].time = x.time
      BY <2>3, <3>4, <3>5, <3>6
    <3> QED BY <2>2, <2>3, <3>7 DEF x
  <2> QED BY <2>4, <2>5
<1> QED BY <1>7, <1>8, <1>9

\* handle preserves NamesKnown.
LEMMA HandledNames ==
    ASSUME KernelInv, ParseTypes, FilesInv, mode = "files", NEW c \in Cpus, Handled(c),
           FirstHead(c), dropped' = dropped
    PROVE  NamesKnown'
<1> SUFFICES ASSUME dropped = 0, Damaged = {}, NEW k \in DOMAIN shown',
                    shown'[k].rec.kind = "event"
             PROVE  \/ shown'[k].known
                    \/ \E d \in Cpus \ {shown'[k].rec.cpu} : \E j \in DOMAIN files[d] :
                          /\ files[d][j].kind = "process"
                          /\ files[d][j].pid = shown'[k].rec.pid
                          /\ files[d][j].time = shown'[k].rec.time + genesis_time
  <2>1. UNCHANGED <<pipe, files, mode, genesis_time>>
    BY DEF Handled
  <2>2. Damaged' = Damaged
    BY <2>1 DEF Damaged, Arrived
  <2> QED BY <2>1, <2>2 DEF NamesKnown
<1>1. /\ NamesKnown /\ bpc = "merge" /\ opened = Cpus /\ shown \in Seq(Shown)
  BY DEF FilesInv, FilesTypes, Handled
<1>2. \A i \in DOMAIN shown : shown[i].rec.kind = "event" =>
         \/ shown[i].known
         \/ \E d \in Cpus \ {shown[i].rec.cpu} : \E j \in DOMAIN files[d] :
               /\ files[d][j].kind = "process"
               /\ files[d][j].pid = shown[i].rec.pid
               /\ files[d][j].time = shown[i].rec.time + genesis_time
  BY <1>1 DEF NamesKnown
<1>3. CASE shown' = shown
  BY <1>2, <1>3
<1>4. ASSUME NEW e, Adds(c, e)
      PROVE  \/ shown'[k].known
             \/ \E d \in Cpus \ {shown'[k].rec.cpu} : \E j \in DOMAIN files[d] :
                   /\ files[d][j].kind = "process"
                   /\ files[d][j].pid = shown'[k].rec.pid
                   /\ files[d][j].time = shown'[k].rec.time + genesis_time
  <2>1. /\ shown' = Append(shown, e) /\ e \in Shown
        /\ e.rec.cpu = c /\ e.rec.pid = primed[c][1].pid
        /\ e.rec.kind = primed[c][1].kind
        /\ e.rec.time = primed[c][1].time - genesis_time
        /\ e.known = Known(primed[c][1])
    BY <1>4 DEF Adds
  <2>2. /\ \A i \in DOMAIN shown : shown'[i] = shown[i]
        /\ shown'[Len(shown) + 1] = e
        /\ k \in DOMAIN shown \/ k = Len(shown) + 1
    BY <1>1, <2>1, AppendFields
  <2>3. CASE k \in DOMAIN shown
    BY <1>2, <2>2, <2>3
  <2>4. CASE k = Len(shown) + 1
    <3>1. shown'[k] = e
      BY <2>2, <2>4
    <3>2. \/ Known(primed[c][1])
          \/ \E d \in Cpus \ {c} : \E j \in DOMAIN files[d] :
                /\ files[d][j].kind = "process"
                /\ files[d][j].pid = primed[c][1].pid
                /\ files[d][j].time = primed[c][1].time
      BY <1>1, <2>1, <3>1, KnownOrNow
    <3>3. e.rec.time + genesis_time = primed[c][1].time
      <4>1. primed[c][1].time \in Nat /\ genesis_time \in Nat
        BY RecordFields DEF FirstHead
      <4> QED BY <2>1, <4>1
    <3> QED BY <2>1, <3>1, <3>2, <3>3
  <2> QED BY <2>2, <2>3, <2>4
<1> QED BY <1>3, <1>4, HandledShows

\* handle preserves the invariant of the files.
LEMMA HandleInv ==
    ASSUME KernelInv, ParseTypes, FilesInv, mode = "files", NEW c \in Cpus, Handle(c),
           dropped' = dropped
    PROVE  FilesInv'
<1>1. CASE Adjusted(primed[c][1]).time > stopwatch.end
  BY <1>1, HandleEnds
<1>2. CASE ~(Adjusted(primed[c][1]).time > stopwatch.end)
  <2>1. Handled(c) /\ FirstHead(c)
    BY <1>2, HandleHandles, HandleFirstHead
  <2>2. FilesTypes /\ HeadsOK
    BY DEF FilesInv
  <2>3. FilesTypes' /\ HeadsOK' /\ TimesOK' /\ NamesKnown'
    BY <2>1, <2>2, HandledFilesTypes, HandledHeads, HandledTimes, HandledNames
  <2>4. \A d \in Cpus : FileOK(d)'
    BY <2>1, HandledFiles
  <2> QED BY <2>3, <2>4 DEF FilesInv
<1> QED BY <1>1, <1>2

-----------------------------------------------------------------------------
(* The rest of the steps.                                                  *)

\* Nothing has been read of the files.
Unread ==
    /\ taken = [c \in Cpus |-> 0] /\ genesis_time = Unset /\ shown = <<>>
    /\ opened = {} /\ primed = [c \in Cpus |-> <<>>] /\ ms_head = <<>>

\* The invariant of the files holds before anything is read.
LEMMA FilesInvUnread ==
    KernelInv /\ Unread /\ bpc \in {"start", "setup", "read"} => FilesInv
<1> SUFFICES ASSUME KernelInv, Unread, bpc \in {"start", "setup", "read"}, mode = "files"
             PROVE  /\ FilesTypes /\ (\A c \in Cpus : FileOK(c)) /\ HeadsOK /\ TimesOK
                    /\ NamesKnown
  BY DEF FilesInv
<1>1. /\ taken = [c \in Cpus |-> 0] /\ genesis_time = Unset /\ shown = <<>>
      /\ opened = {} /\ primed = [c \in Cpus |-> <<>>] /\ ms_head = <<>>
  BY DEF Unread
<1>2. /\ <<>> \in Seq(Shown) /\ <<>> \in Seq(Records) /\ <<>> \in Seq(Cpus)
      /\ DOMAIN <<>> = {} /\ Len(<<>>) = 0
  OBVIOUS
<1>3. FilesTypes
  BY <1>1, <1>2 DEF FilesTypes
<1>4. HeadsOK /\ TimesOK /\ NamesKnown
  <2>1. \A c \in Cpus : primed[c] = <<>>
    BY <1>1
  <2>2. DOMAIN shown = {} /\ DOMAIN ms_head = {} /\ bpc # "merge"
    BY <1>1, <1>2
  <2> QED BY <2>1, <2>2 DEF HeadsOK, TimesOK, NamesKnown
<1>5. ASSUME NEW c \in Cpus
      PROVE  FileOK(c)
  <2>1. taken[c] = 0 /\ primed[c] = <<>> /\ c \notin opened /\ taken[c] \in Nat
    BY <1>1
  <2>2. files[c] \in Seq(Records) /\ Len(files[c]) \in Nat
    BY FileReadable
  <2>3. taken[c] <= Len(files[c]) /\ \A k \in 1..taken[c] : FALSE
    BY <2>1, <2>2
  <2>4. Rest(c) \in Seq(Records)
    BY <2>1, <2>2, <2>3, RestType
  <2>5. GoodPart(c) = Rest(c)
    <3>1. taken[c] + 1 = 1
      BY <2>1
    <3> QED BY <3>1 DEF GoodPart, Rest, BadAt
  <2>6. FilePart(c)
    <3>1. GoodPart(c) = <<>> \o (primed[c] \o Rest(c))
      BY <2>1, <2>4, <2>5, ConcatEmptySeq
    <3>2. ShownFrom(c) = <<>> /\ Within(<<>>) = <<>>
      BY <1>1, ThoseOfNothing, WithinNothing DEF ShownFrom
    <3>3. SameNumbers(ShownFrom(c), Within(<<>>))
      BY <1>2, <3>2 DEF SameNumbers
    <3> QED BY <1>2, <3>1, <3>3 DEF FilePart
  <2>7. NotesRead(c) /\ FromFile(c) /\ NothingLeft(c)
    <3>1. DOMAIN primed[c] = {}
      BY <1>2, <2>1
    <3> QED BY <2>3, <3>1 DEF NotesRead, FromFile, NothingLeft
  <2> QED BY <2>1, <2>3, <2>6, <2>7 DEF FileOK
<1> QED BY <1>3, <1>4, <1>5

\* It stays true when nothing is read, primed or shown.
LEMMA FilesInvSame ==
    ASSUME FilesInv, mode = "files",
           UNCHANGED <<pipe, files, mode, stopwatch, taken, genesis_time, ppm, shown,
                       filevars, dropped>>,
           bpc' = bpc \/ (bpc = "merge" /\ bpc' = "end"),
           \A c \in Cpus : NothingLeft(c)'
    PROVE  FilesInv'
<1>1. FilesTypes /\ (\A c \in Cpus : FileOK(c)) /\ HeadsOK /\ TimesOK /\ NamesKnown
  BY DEF FilesInv
<1>2. UNCHANGED <<pipe, files, mode, stopwatch, taken, genesis_time, ppm, shown,
                  opened, primed, ms_head, dropped>>
  BY DEF filevars
<1>3. FilesTypes'
  BY <1>1, <1>2 DEF FilesTypes
<1>4. ASSUME NEW c \in Cpus PROVE FileOK(c)'
  <2>1. FileOK(c) /\ NothingLeft(c)' /\ ShownFrom(c)' = ShownFrom(c)
    BY <1>1, <1>2 DEF ShownFrom
  <2> QED BY <1>2, <2>1, FileKept
<1>5. HeadsOK'
  BY <1>1, <1>2 DEF HeadsOK, HeadTime
<1>6. TimesOK'
  BY <1>1, <1>2 DEF TimesOK, HeadTime
<1>7. NamesKnown'
  BY <1>1, <1>2 DEF NamesKnown, Damaged, Arrived
<1> QED BY <1>3, <1>4, <1>5, <1>6, <1>7 DEF FilesInv

\* do_file's setting of the time that times count from preserves it: that is the
\* time of the first record of all.
LEMMA MergeInv ==
    ASSUME FilesInv, mode = "files", Merge
    PROVE  FilesInv'
<1>1. FilesTypes /\ (\A c \in Cpus : FileOK(c)) /\ HeadsOK
  BY DEF FilesInv
<1>2. /\ bpc = "setup" /\ bpc' = "merge" /\ opened = Cpus
      /\ genesis_time' = IF ms_head = <<>> THEN Unset ELSE HeadTime(ms_head[1])
      /\ UNCHANGED <<pipe, files, mode, stopwatch, done, taken, ppm, shown,
                     opened, primed, ms_head>>
  BY LiveTraceAssumption DEF Merge, filevars
<1>3. /\ shown = <<>> /\ DOMAIN shown = {} /\ ms_head \in Seq(Cpus)
      /\ primed \in [Cpus -> Seq(Records)]
  BY <1>1, <1>2 DEF FilesTypes
<1>4. ms_head # <<>> => 1 \in DOMAIN ms_head /\ HeadTime(ms_head[1]) \in Nat
  <2> SUFFICES ASSUME ms_head # <<>>
               PROVE  1 \in DOMAIN ms_head /\ HeadTime(ms_head[1]) \in Nat
    OBVIOUS
  <2>1. 1 \in DOMAIN ms_head /\ ms_head[1] \in Cpus
    BY <1>3, TailFields
  <2>2. primed[ms_head[1]] # <<>> /\ primed[ms_head[1]] \in Seq(Records)
    BY <1>1, <1>3, <2>1 DEF HeadsOK
  <2> QED BY <2>1, <2>2, HeadRecord DEF HeadTime
<1>5. FilesTypes'
  <2>1. genesis_time' \in Nat \cup {Unset}
    BY <1>2, <1>4
  <2> QED BY <1>1, <1>2, <2>1 DEF FilesTypes
<1>6. ASSUME NEW c \in Cpus PROVE FileOK(c)'
  <2>1. FileOK(c) /\ NothingLeft(c)' /\ ShownFrom(c)' = ShownFrom(c)
    BY <1>1, <1>2 DEF ShownFrom, NothingLeft
  <2> QED BY <1>2, <2>1, FileKept
<1>7. HeadsOK'
  BY <1>1, <1>2 DEF HeadsOK, HeadTime
<1>8. ASSUME NEW c \in Cpus, primed[c] # <<>>
      PROVE  genesis_time' # Unset /\ genesis_time' <= HeadTime(c)
  <2>1. ms_head # <<>>
    <3>1. \E k \in DOMAIN ms_head : ms_head[k] = c
      BY <1>1, <1>8 DEF HeadsOK
    <3> QED BY <3>1
  <2>2. HeadTime(ms_head[1]) <= HeadTime(c)
    BY <1>1, <1>4, <1>8, <2>1, FirstOfAll
  <2> QED BY <1>2, <1>4, <2>1, <2>2 DEF Unset
<1>9. TimesOK'
  BY <1>2, <1>3, <1>8 DEF TimesOK, HeadTime
<1>10. NamesKnown'
  BY <1>2, <1>3 DEF NamesKnown
<1> QED BY <1>5, <1>6, <1>7, <1>9, <1>10 DEF FilesInv

\* When no stream has a record left, all files have been read.
LEMMA MergeEndsInv ==
    ASSUME KernelInv, FilesInv, mode = "files", MergeEnds, dropped' = dropped
    PROVE  FilesInv'
<1>1. FilesTypes /\ (\A c \in Cpus : FileOK(c)) /\ HeadsOK
  BY DEF FilesInv
<1>2. /\ bpc = "merge" /\ bpc' = "end" /\ (done \/ ms_head = <<>>) /\ done' = done
      /\ UNCHANGED <<pipe, files, mode, stopwatch, taken, genesis_time, ppm, shown,
                     filevars>>
  BY DEF MergeEnds
<1>3. UNCHANGED <<primed, ms_head, opened>> /\ opened = Cpus
  BY <1>1, <1>2 DEF filevars, FilesTypes
<1>4. ASSUME NEW c \in Cpus PROVE NothingLeft(c)'
  <2>1. CASE done
    BY <1>2, <2>1 DEF NothingLeft
  <2>2. CASE ms_head = <<>>
    <3>1. primed[c] = <<>>
      <4>1. DOMAIN ms_head = {}
        BY <2>2
      <4> QED BY <1>1, <4>1 DEF HeadsOK
    <3>2. DOMAIN (primed[c] \o Rest(c)) = {}
      BY <1>1, <1>3, <3>1, NoneAhead
    <3>3. primed'[c] \o Rest(c)' = primed[c] \o Rest(c)
      BY <1>2, <1>3, SameRest
    <3> QED BY <3>2, <3>3 DEF NothingLeft
  <2> QED BY <1>2, <2>1, <2>2
<1> QED BY <1>2, <1>4, FilesInvSame

\* Every step preserves the invariant of the files.
LEMMA FilesInvStep ==
    ASSUME KernelInv, KernelInv', ParseTypes, ParseTypes', FilesInv, [Next]_vars
    PROVE  FilesInv'
<1>1. (KernelInv /\ Unread /\ bpc \in {"start", "setup", "read"} => FilesInv)'
  BY FilesInvUnread, PTL
<1>2. bpc = "start" => Unread
  BY DEF ParseTypes, Unstarted, Unread
<1>3. ASSUME UNCHANGED blkparse, bpc = "start"
      PROVE  FilesInv'
  <2>1. Unread' /\ bpc' = "start"
    BY <1>2, <1>3 DEF Unread, blkparse, filevars
  <2> QED BY <1>1, <2>1
<1>4. ~wireEnded => bpc = "start"
  BY DEF ParseTypes
<1>5. CASE ~wireEnded /\ KernelNext /\ UNCHANGED <<pipe, files, wireEnded, blkparse>>
  BY <1>3, <1>4, <1>5
<1>6. ASSUME NEW c \in Cpus, NEW state, Transfer(c, state)
      PROVE  FilesInv'
  BY <1>3, <1>4, <1>6 DEF Transfer
<1>7. CASE EndWire
  BY <1>3, <1>4, <1>7 DEF EndWire
<1>8. CASE wireEnded /\ ParseStep /\ UNCHANGED <<kernel, wireEnded>>
  <2>1. UNCHANGED <<pipe, mode, stopwatch>> /\ dropped' = dropped
    BY <1>8, ParsingOnlyReads DEF kernel
  <2>2. ASSUME mode # "files" PROVE FilesInv'
    BY <2>1, <2>2 DEF FilesInv
  <2>3. bpc \in {"read", "show", "force"} => mode # "files"
    BY DEF ParseTypes
  <2>4. ASSUME NEW k \in 0..Len(pipe) - taken[0], ReadBatch(k) PROVE FilesInv'
    <3>1. bpc = "read"
      BY <2>4, Zenon DEF ReadBatch
    <3> QED BY <2>2, <2>3, <3>1
  <2>5. CASE ShowFirst \/ ShowNoMore \/ GiveUpPipe
    <3>1. bpc \in {"read", "show", "force"}
      BY <2>5 DEF ShowFirst, ShowNoMore, GiveUpPipe
    <3> QED BY <2>2, <2>3, <3>1
  <2>6. ASSUME NEW c \in Cpus, SetupFile(c) PROVE FilesInv'
    BY <2>2, <2>6, SetupFileInv
  <2>7. ASSUME NEW c \in Cpus, Handle(c) PROVE FilesInv'
    <3>1. mode = "files" => FilesInv'
      BY <2>1, <2>7, HandleInv
    <3> QED BY <2>2, <3>1
  <2>8. CASE Merge
    BY <2>2, <2>8, MergeInv
  <2>9. CASE MergeEnds
    BY <2>1, <2>2, <2>9, MergeEndsInv
  <2>10. CASE StartParsing
    <3>1. /\ bpc = "start" /\ bpc' \in {"setup", "read"}
          /\ UNCHANGED <<taken, genesis_time, shown, opened, primed, ms_head>>
      BY <2>10 DEF StartParsing, filevars
    <3>2. Unread'
      BY <1>2, <3>1 DEF Unread
    <3> QED BY <1>1, <3>1, <3>2
  <2> QED BY <1>8, <2>4, <2>5, <2>6, <2>7, <2>8, <2>9, <2>10, LiveTraceAssumption
          DEF ParseStep
<1>9. ASSUME UNCHANGED <<pipe, files, mode, stopwatch, taken, genesis_time, ppm, shown,
                         filevars, dropped>>,
             bpc' = bpc, done' = done \/ done', mode = "files"
      PROVE  FilesInv'
  <2>1. ASSUME NEW c \in Cpus PROVE NothingLeft(c)'
    <3>1. CASE done'
      BY <3>1 DEF NothingLeft
    <3>2. CASE done' = done
      <4>1. UNCHANGED <<primed, genesis_time, stopwatch>> /\ Rest(c)' = Rest(c)
        BY <1>9, SameRest DEF filevars
      <4>2. NothingLeft(c)
        BY <1>9 DEF FilesInv, FileOK
      <4> QED BY <1>9, <3>2, <4>1, <4>2 DEF NothingLeft, InWindow
    <3> QED BY <1>9, <3>1, <3>2
  <2> QED BY <1>9, <2>1, FilesInvSame
<1>10. CASE wireEnded /\ Interrupt /\ UNCHANGED <<kernel, wireEnded>>
  <2>1. /\ UNCHANGED <<pipe, files, mode, stopwatch, taken, genesis_time, ppm, shown,
                       filevars, dropped>>
        /\ bpc' = bpc /\ (done' = done \/ done')
    BY <1>10 DEF Interrupt, kernel
  <2> QED BY <1>9, <2>1 DEF FilesInv
<1>11. CASE UNCHANGED vars
  <2>1. /\ UNCHANGED <<pipe, files, mode, stopwatch, taken, genesis_time, ppm, shown,
                       filevars, dropped>>
        /\ bpc' = bpc /\ (done' = done \/ done')
    BY <1>11 DEF vars, blkparse, kernel
  <2> QED BY <1>9, <2>1 DEF FilesInv
<1> QED BY <1>5, <1>6, <1>7, <1>8, <1>10, <1>11 DEF Next

\* What blkparse does with files.
THEOREM FilesInvariant == Spec => [](KernelInv /\ ParseTypes /\ FilesInv)
<1>1. Init => KernelInv /\ ParseTypes /\ FilesInv
  <2> SUFFICES ASSUME Init PROVE KernelInv /\ ParseTypes /\ FilesInv
    OBVIOUS
  <2>1. KernelInv /\ ParseTypes
    BY KernelInvInit, ParseTypesInit
  <2>2. Unread /\ bpc = "start"
    BY LiveTraceAssumption DEF Init, BlkparseInit, Unread
  <2> QED BY <2>1, <2>2, FilesInvUnread
<1>2. KernelInv /\ ParseTypes /\ FilesInv /\ [Next]_vars
         => (KernelInv /\ ParseTypes /\ FilesInv)'
  <2> SUFFICES ASSUME KernelInv, ParseTypes, FilesInv, [Next]_vars
               PROVE  (KernelInv /\ ParseTypes /\ FilesInv)'
    OBVIOUS
  <2>1. KernelTypes
    BY DEF KernelInv
  <2>2. KernelInv' /\ ParseTypes'
    BY <2>1, KernelInvStep, ParseTypesStep
  <2> QED BY <2>2, FilesInvStep
<1> QED BY <1>1, <1>2, PTL DEF Spec

-----------------------------------------------------------------------------
(* Results about files.                                                    *)

\* If none of the positions is a position of the sequence, none are there.
LEMMA ThoseNone ==
    ASSUME NEW S, NEW s \in Seq(S), NEW K, \A k \in DOMAIN s : k \notin K
    PROVE  Those(s, K) = <<>>
<1> DEFINE u == Those(s, K)
<1>1. PICK p : PositionsIn(p, u, s, K)
  BY ThosePositions
<1>2. u \in Seq(S)
  BY ThoseType
<1>3. DOMAIN s = 1..Len(s)
  BY LenProperties
<1> HIDE DEF u
<1>4. ASSUME u # <<>> PROVE FALSE
  <2>1. 1 \in 1..Len(u)
    BY <1>2, <1>4, TailFields
  <2>2. p[1] \in K /\ p[1] \in 1..Len(s)
    BY <1>1, <2>1 DEF PositionsIn
  <2> QED BY <1>3, <2>2
<1> QED BY <1>4 DEF u

\* What is outside the stopwatch does not count.
LEMMA WithinFirst ==
    ASSUME NEW h \in Seq(Records), NEW s \in Seq(Records),
           \A k \in DOMAIN s : ~InWindow(s[k])
    PROVE  Within(h \o s) = Within(h)
<1> DEFINE t == h \o s
           K == {k \in DOMAIN t : InWindow(t[k])}
           L == {k \in DOMAIN h : InWindow(h[k])}
           M == {k \in DOMAIN s : InWindow(s[k])}
<1>1. /\ t \in Seq(Records) /\ Len(t) = Len(h) + Len(s)
      /\ Len(h) \in Nat /\ Len(s) \in Nat /\ DOMAIN h = 1..Len(h) /\ DOMAIN s = 1..Len(s)
      /\ \A k \in 1..Len(h) : t[k] = h[k]
      /\ \A k \in 1..Len(s) : t[Len(h) + k] = s[k]
  BY ConcatProperties, LenProperties
<1>2. Those(t, K) = Within(t) /\ Those(h, L) = Within(h)
  BY DEF Within
<1> HIDE DEF t
<1>3. DOMAIN t = 1..Len(h) + Len(s)
  BY <1>1, LenProperties
<1>4. Upto(Len(h), K, L)
  BY <1>1, <1>3 DEF Upto
<1>5. Behind(Len(h), Len(s), K, M)
  BY <1>1, <1>3 DEF Behind
<1>6. \A k \in DOMAIN s : k \notin M
  OBVIOUS
<1> HIDE DEF K, L, M
<1>7. Those(s, M) = <<>>
  BY <1>6, ThoseNone
<1>8. Those(t, K) = Those(h, L) \o Those(s, M)
  BY <1>4, <1>5, ThoseConcat DEF t
<1>9. Those(h, L) \in Seq(Records)
  BY ThoseType
<1>10. Those(h, L) \o <<>> = Those(h, L)
  BY <1>9, ConcatEmptySeq
<1> QED BY <1>2, <1>7, <1>8, <1>10 DEF t

\* From files the records are shown in the order of their times, and at the end
\* without a signal every record within the stopwatch has been shown, once, up
\* to its file's first bad one (FilesMerged): for any CPUs, files and batches.
THEOREM FilesAreMerged == Spec => []FilesMerged
<1>1. KernelInv /\ ParseTypes /\ FilesInv => FilesMerged
  <2> SUFFICES ASSUME KernelInv, FilesInv, mode = "files"
               PROVE  FilesMerged
    BY DEF FilesMerged
  <2>1. /\ FilesTypes /\ TimesOK /\ \A c \in Cpus : FileOK(c)
    BY DEF FilesInv
  <2>2. \A j, k \in DOMAIN shown : j < k => shown[j].rec.time <= shown[k].rec.time
    BY <2>1 DEF TimesOK
  <2>3. ASSUME bpc = "end", ~done, NEW c \in Cpus
        PROVE  SameNumbers(ShownFrom(c), Within(GoodPart(c)))
    <3>1. FileOK(c) /\ c \in opened /\ taken \in [Cpus -> Nat]
          /\ primed \in [Cpus -> Seq(Records)]
      BY <2>1, <2>3 DEF FilesTypes
    <3>2. PICK h \in Seq(Records) : /\ GoodPart(c) = h \o (primed[c] \o Rest(c))
                                    /\ SameNumbers(ShownFrom(c), Within(h))
      BY <3>1 DEF FileOK, FilePart
    <3>3. files[c] \in Seq(Records) /\ taken[c] \in Nat /\ taken[c] <= Len(files[c])
      BY <3>1, FileReadable DEF FileOK
    <3>4. primed[c] \o Rest(c) \in Seq(Records)
      <4>1. Rest(c) \in Seq(Records) /\ primed[c] \in Seq(Records)
        BY <3>1, <3>3, RestType
      <4> QED BY <4>1, ConcatProperties
    <3> DEFINE s == primed[c] \o Rest(c)
    <3>5. \A k \in DOMAIN s : ~InWindow(s[k])
      BY <2>3, <3>1 DEF FileOK, NothingLeft
    <3> HIDE DEF s
    <3>6. Within(h \o s) = Within(h)
      BY <3>2, <3>4, <3>5, WithinFirst DEF s
    <3> QED BY <3>2, <3>6 DEF s
  <2> QED BY <2>2, <2>3 DEF FilesMerged, SameNumbers, ShownFrom, Within
<1> QED BY <1>1, FilesInvariant, PTL

\* The names of tasks reach blkparse in time: the kernel names a task before
\* its events, and from files the name is read before an event is shown, unless
\* it bears the event's very time (NamesTrue).
THEOREM NamesAreTrue == Spec => []NamesTrue
<1>1. KernelInv /\ ParseTypes /\ FilesInv => NamesTrue
  <2>1. KernelInv => TasksNamed
    BY KernelNamesTasks
  <2>2. mode # "files" => NamesKnown
    BY DEF NamesKnown
  <2> QED BY <2>1, <2>2 DEF NamesTrue, FilesInv
<1> QED BY <1>1, FilesInvariant, PTL
=============================================================================
