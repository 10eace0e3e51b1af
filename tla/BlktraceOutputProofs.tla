----------------------- MODULE BlktraceOutputProofs -----------------------
(***************************************************************************)
(* Proofs about how blktrace writes what it reads: into a pipe             *)
(* (PipedOutput) and into mapped files (MmapWindow).                       *)
(*                                                                         *)
(* PipedOutput: for any number of devices and CPUs, any events and any     *)
(* size of the reads.  EntriesAccounted holds whether or not writes fail;  *)
(* that the statistics are exact, and that the piped output implements     *)
(* EventStream, is proved when none does.  The sums of EntriesAccounted    *)
(* are folds over finite sets, and Ends is a recursive function: the first *)
(* sections derive the induction they need from the library's theorems on  *)
(* well-founded relations, as statements about sets.                       *)
(*                                                                         *)
(* MmapWindow: for every page size, buffer size and number of buffers that *)
(* satisfy WindowAssumption, whatever fails.                               *)
(***************************************************************************)
EXTENDS PipedOutput, MmapWindow, FiniteSetTheorems, SequenceTheorems,
        WellFoundedInduction, TLAPS

-----------------------------------------------------------------------------
(* Induction.                                                              *)

\* A set of naturals that is not empty has a least element.
LEMMA LeastOf ==
    ASSUME NEW T, T \subseteq Nat, T # {}
    PROVE  \E x \in T : \A y \in T : ~(y < x)
<1> DEFINE R == OpToRel(<, Nat)
<1>1. IsWellFoundedOn(R, Nat)
    BY NatLessThanWellFounded, Zenon
<1>2. \E x \in T : \A y \in T : <<y, x>> \notin R
  <2> HIDE DEF R
  <2> QED BY <1>1, WFMin
<1>3. \A x, y \in Nat : y < x => <<y, x>> \in R
    BY SMT DEF OpToRel
<1> QED BY <1>2, <1>3

\* Induction up to m: a set that holds 0 and, with each n below m, n + 1.
LEMMA InductionUpTo ==
    ASSUME NEW S, NEW m \in Nat, 0 \in S, \A n \in 0..m - 1 : n \in S
        => n + 1 \in S
    PROVE  0..m \subseteq S
<1> SUFFICES ASSUME 0..m \ S # {} PROVE FALSE
    OBVIOUS
<1>1. PICK x \in 0..m \ S : \A y \in 0..m \ S : ~(y < x)
  <2>1. 0..m \ S \subseteq Nat
    OBVIOUS
  <2> QED BY <2>1, LeastOf
<1>2. x - 1 \in 0..m - 1 /\ x - 1 < x
    BY <1>1
<1>3. x - 1 \in S
    BY <1>1, <1>2
<1> QED BY <1>1, <1>2, <1>3

-----------------------------------------------------------------------------
(* The ends of the events.                                                 *)

\* The recursive function Ends is defined by its equations.
LEMMA EndsDef ==
    /\ Ends \in [0..Len(EventLens) -> Nat]
    /\ Ends[0] = 0
    /\ \A n \in 1..Len(EventLens) : Ends[n] = Ends[n - 1] + EventLens[n]
<1> DEFINE N == Len(EventLens)
           Def(g, n) == IF n = 0 THEN 0 ELSE g[n - 1] + EventLens[n]
           K == {k \in 0..N : \E g \in [0..N -> Nat] : \A n \in 0..k
               : g[n] = Def(g, n)}
<1>1. N \in Nat /\ \A n \in 1..N : EventLens[n] \in Nat \ {0}
    BY PipedOutputAssumption
<1>2. 0 \in K
  <2> DEFINE g == [n \in 0..N |-> 0]
  <2>1. g \in [0..N -> Nat] /\ \A n \in 0..0 : g[n] = Def(g, n)
    BY <1>1
  <2>2. \E f \in [0..N -> Nat] : \A n \in 0..0 : f[n] = Def(f, n)
    BY <2>1
  <2> QED BY <1>1, <2>2
<1>3. ASSUME NEW k \in 0..N - 1, k \in K
      PROVE  k + 1 \in K
  <2>1. PICK g \in [0..N -> Nat] : \A n \in 0..k : g[n] = Def(g, n)
    BY <1>3
  <2> DEFINE h == [g EXCEPT ![k + 1] = g[k] + EventLens[k + 1]]
  <2>2. k + 1 \in 1..N /\ g[k] \in Nat
    BY <1>1, <2>1
  <2>3. h \in [0..N -> Nat]
    BY <1>1, <2>2
  <2>4. \A n \in 0..k + 1 : h[n] = Def(h, n)
    BY <1>1, <2>1, <2>2
  <2>5. \E f \in [0..N -> Nat] : \A n \in 0..k + 1 : f[n] = Def(f, n)
    BY <2>3, <2>4
  <2>6. k + 1 \in 0..N
    BY <1>1
  <2> QED BY <2>5, <2>6
<1>4. N \in K
  <2> HIDE DEF K, N
  <2>1. 0..N \subseteq K
    BY <1>1, <1>2, <1>3, InductionUpTo
  <2> QED BY <1>1, <2>1
<1>5. PICK g \in [0..N -> Nat] : \A n \in 0..N : g[n] = Def(g, n)
    BY <1>4
<1>6. g = [n \in 0..N |-> Def(g, n)]
    BY <1>5
<1>7. Ends = CHOOSE e : e = [n \in 0..N |-> Def(e, n)]
    BY DEF Ends
<1>8. Ends = [n \in 0..N |-> Def(Ends, n)]
    BY <1>6, <1>7
<1> DEFINE J == {n \in 0..N : Ends[n] \in Nat}
<1>9. N \in Nat /\ 0..N \subseteq J
  <2>1. 0 \in J
    BY <1>1, <1>8
  <2>2. ASSUME NEW n \in 0..N - 1, n \in J
        PROVE  n + 1 \in J
    <3>1. n + 1 \in 0..N /\ n + 1 \in 1..N /\ n + 1 # 0 /\ (n + 1) - 1 = n
      BY <1>1
    <3>2. Ends[n + 1] = Def(Ends, n + 1)
      BY <1>8, <3>1
    <3>3. Ends[n + 1] = Ends[n] + EventLens[n + 1]
      BY <3>1, <3>2
    <3> QED BY <1>1, <2>2, <3>1, <3>3
  <2> HIDE DEF J, N
  <2> QED BY <1>1, <2>1, <2>2, InductionUpTo
<1>10. Ends \in [0..N -> Nat]
    BY <1>8, <1>9
<1>11. Ends[0] = 0
    BY <1>1, <1>8
<1>12. ASSUME NEW n \in 1..N
       PROVE  Ends[n] = Ends[n - 1] + EventLens[n]
  <2>1. n \in 0..N /\ n # 0
    BY <1>1
  <2> QED BY <1>8, <2>1
<1> QED BY <1>10, <1>11, <1>12

\* Every event is at least a byte long, so Ends is strictly increasing.
LEMMA EndsGrow ==
    /\ \A m, n \in 0..Len(EventLens) : m < n => Ends[m] < Ends[n]
    /\ \A m, n \in 0..Len(EventLens) : m <= n <=> Ends[m] <= Ends[n]
    /\ \A m, n \in 0..Len(EventLens) : Ends[m] = Ends[n] => m = n
    /\ \A m \in 0..Len(EventLens) : Ends[m] \in Nat
<1> DEFINE N == Len(EventLens)
           J == {n \in 0..N : \A m \in 0..n - 1 : Ends[m] < Ends[n]}
<1>1. N \in Nat /\ \A n \in 1..N : EventLens[n] \in Nat \ {0}
    BY PipedOutputAssumption
<1>2. 0 \in J
    BY <1>1
<1>3. ASSUME NEW n \in 0..N - 1, n \in J
      PROVE  n + 1 \in J
  <2>1. n + 1 \in 1..N /\ Ends[n + 1] = Ends[n] + EventLens[n + 1]
    BY <1>1, EndsDef
  <2>2. \A m \in 0..n : Ends[m] \in Nat /\ (m = n \/ Ends[m] < Ends[n])
    BY <1>1, <1>3, EndsDef
  <2> QED BY <1>1, <2>1, <2>2
<1>4. 0..N \subseteq J
  <2> HIDE DEF J, N
  <2> QED BY <1>1, <1>2, <1>3, InductionUpTo
<1>5. \A m, n \in 0..N : Ends[m] \in Nat /\ Ends[n] \in Nat
          /\ (m < n => Ends[m] < Ends[n])
  <2>1. \A m, n \in 0..N : m < n => m \in 0..n - 1
    BY <1>1
  <2> QED BY <1>4, <2>1, EndsDef
<1>6. \A m, n \in 0..N : m < n \/ m = n \/ n < m
    BY <1>1
<1> HIDE DEF N
<1>7. \A m, n \in 0..N : m \in Nat /\ n \in Nat
    BY <1>1
<1>8. \A m, n \in 0..N : Ends[m] = Ends[n] => m = n
    BY <1>5, <1>6
<1>9. \A m, n \in 0..N : m <= n <=> Ends[m] <= Ends[n]
    BY <1>5, <1>6, <1>7
<1> QED BY <1>5, <1>8, <1>9 DEF N

-----------------------------------------------------------------------------
(* Sums over finite sets.                                                  *)

\* The sums of f over the subsets of S: FoldSet's recursion, as a function.
Pick(s) == CHOOSE x \in s : TRUE
Sums(f, S) ==
    CHOOSE g : g = [s \in SUBSET S |->
                       IF s = {} THEN 0 ELSE f[Pick(s)] + g[s \ {Pick(s)}]]

\* SumOver's fold is that function at S.
LEMMA SumDef ==
    ASSUME NEW S, NEW f
    PROVE  SumOver(f, S) = Sums(f, S)[S]
BY DEF SumOver, Sums, Pick, FoldSet, MapThenFoldSet

\* The element the fold takes first is one of the set.
LEMMA PickIn == \A s : s # {} => Pick(s) \in s
BY DEF Pick

\* Induction along the fold: from a set without its first element to the set.
LEMMA PickInduction ==
    ASSUME NEW S, IsFiniteSet(S), NEW G, {} \in G,
           \A s \in SUBSET S : s # {} /\ s \ {Pick(s)} \in G => s \in G
    PROVE  SUBSET S \subseteq G
<1> DEFINE Bad == {s \in SUBSET S : s \notin G}
<1> SUFFICES ASSUME Bad # {} PROVE FALSE
    OBVIOUS
<1>1. IsWellFoundedOn(StrictSubsetOrdering(S), SUBSET S)
    BY FS_StrictSubsetOrderingWellFounded, FS_FiniteSubsetsOfFinite
<1>2. PICK s \in Bad : \A u \in Bad : <<u, s>> \notin StrictSubsetOrdering(S)
  <2> Bad \subseteq SUBSET S
    OBVIOUS
  <2> HIDE DEF Bad
  <2> QED BY <1>1, WFMin
<1>3. s # {} /\ Pick(s) \in s
    BY PickIn
<1>4. s \ {Pick(s)} \notin Bad
  <2>1. <<s \ {Pick(s)}, s>> \in StrictSubsetOrdering(S)
    BY <1>3 DEF StrictSubsetOrdering
  <2> QED BY <1>2, <2>1
<1> QED BY <1>3, <1>4

\* The fold over a finite set is defined by its equations.
LEMMA SumsDef ==
    ASSUME NEW S, IsFiniteSet(S), NEW f \in [S -> Nat]
    PROVE  /\ Sums(f, S) \in [SUBSET S -> Nat]
           /\ Sums(f, S)[{}] = 0
           /\ \A s \in SUBSET S : s # {} =>
                 Sums(f, S)[s] = f[Pick(s)] + Sums(f, S)[s \ {Pick(s)}]
<1> DEFINE N == Cardinality(S)
           Def(g, s) == IF s = {} THEN 0 ELSE f[Pick(s)] + g[s \ {Pick(s)}]
           Upto(g, k) == \A s \in SUBSET S : Cardinality(s) <= k
               => g[s] = Def(g, s)
           K == {k \in 0..N : \E g \in [SUBSET S -> Nat] : Upto(g, k)}
<1>1. N \in Nat
    BY FS_CardinalityType
<1>2. \A s \in SUBSET S : s # {}
          => /\ Pick(s) \in S /\ s \ {Pick(s)} \in SUBSET S
                                    /\ Cardinality(s) \in Nat \ {0}
                                    /\ Cardinality(s \ {Pick(s)})
                                        = Cardinality(s) - 1
  <2> TAKE s \in SUBSET S
  <2> HAVE s # {}
  <2>1. IsFiniteSet(s) /\ Pick(s) \in s
    BY FS_Subset, PickIn
  <2> QED BY <2>1, FS_RemoveElement, FS_CardinalityType, FS_EmptySet
<1>3. 0 \in K
  <2> DEFINE g == [s \in SUBSET S |-> 0]
  <2>1. ASSUME NEW s \in SUBSET S, Cardinality(s) <= 0 PROVE g[s] = Def(g, s)
    <3>1. s = {}
      BY <1>2, <2>1, FS_EmptySet, FS_Subset, FS_CardinalityType, SMT
    <3>2. g[s] = 0
      OBVIOUS
    <3>3. Def(g, s) = 0
      BY <3>1
    <3> HIDE DEF g, Def
    <3> QED BY <3>2, <3>3
  <2>2. \E h \in [SUBSET S -> Nat] : Upto(h, 0)
    <3>1. g \in [SUBSET S -> Nat]
      OBVIOUS
    <3>2. Upto(g, 0)
      BY <2>1
    <3> HIDE DEF g, Upto
    <3> QED BY <3>1, <3>2
  <2> HIDE DEF Upto
  <2> QED BY <1>1, <2>2
<1>4. ASSUME NEW k \in 0..N - 1, k \in K
      PROVE  k + 1 \in K
  <2>1. PICK g \in [SUBSET S -> Nat] : Upto(g, k)
    BY <1>4
  <2> DEFINE h == [s \in SUBSET S |-> Def(g, s)]
  <2>2. h \in [SUBSET S -> Nat]
    <3>1. ASSUME NEW s \in SUBSET S PROVE Def(g, s) \in Nat
      <4>1. s # {} => f[Pick(s)] \in Nat /\ g[s \ {Pick(s)}] \in Nat
        BY <1>2
      <4> QED BY <4>1
    <3> QED BY <3>1
  <2>3. ASSUME NEW s \in SUBSET S, Cardinality(s) <= k + 1
            PROVE h[s] = Def(h, s)
    <3>1. CASE s = {}
      BY <3>1
    <3>2. CASE s # {}
      <4>1. s \ {Pick(s)} \in SUBSET S /\ Cardinality(s \ {Pick(s)}) <= k
        BY <1>2, <2>3, <3>2
      <4>2. g[s \ {Pick(s)}] = h[s \ {Pick(s)}]
        BY <2>1, <4>1
      <4> QED BY <3>2, <4>2
    <3> QED BY <3>1, <3>2
  <2>4. \E j \in [SUBSET S -> Nat] : Upto(j, k + 1)
    BY <2>2, <2>3
  <2>5. k + 1 \in 0..N
    BY <1>1
  <2> HIDE DEF Upto
  <2> QED BY <2>4, <2>5
<1>5. N \in K
  <2> HIDE DEF K, N
  <2>1. 0..N \subseteq K
    BY <1>1, <1>3, <1>4, InductionUpTo
  <2> QED BY <1>1, <2>1
<1>6. PICK g \in [SUBSET S -> Nat] : \A s \in SUBSET S : g[s] = Def(g, s)
  <2>1. \A s \in SUBSET S : Cardinality(s) <= N
    BY FS_Subset
  <2> QED BY <1>5, <2>1
<1>7. g = [s \in SUBSET S |-> Def(g, s)]
    BY <1>6
<1>8. Sums(f, S) = CHOOSE e : e = [s \in SUBSET S |-> Def(e, s)]
    BY DEF Sums
<1>9. Sums(f, S) = [s \in SUBSET S |-> Def(Sums(f, S), s)]
    BY <1>7, <1>8
<1> DEFINE J == {s \in SUBSET S : Sums(f, S)[s] \in Nat}
<1>10. SUBSET S \subseteq J
  <2>1. {} \in J
    BY <1>9
  <2>2. ASSUME NEW s \in SUBSET S, s # {}, s \ {Pick(s)} \in J PROVE s \in J
    <3>1. Sums(f, S)[s] = f[Pick(s)] + Sums(f, S)[s \ {Pick(s)}]
      BY <1>9, <2>2
    <3>2. f[Pick(s)] \in Nat /\ Sums(f, S)[s \ {Pick(s)}] \in Nat
      BY <1>2, <2>2
    <3> QED BY <3>1, <3>2
  <2> HIDE DEF J
  <2> QED BY <2>1, <2>2, PickInduction
<1> QED BY <1>9, <1>10

\* A sum of naturals is a natural number.
LEMMA SumType ==
    ASSUME NEW S, IsFiniteSet(S), NEW f \in [S -> Nat]
    PROVE  SumOver(f, S) \in Nat
<1>1. Sums(f, S) \in [SUBSET S -> Nat]
    BY SumsDef
<1>2. SumOver(f, S) = Sums(f, S)[S]
    BY SumDef
<1> QED BY <1>1, <1>2

\* A sum of naturals is zero only if each of them is.
LEMMA SumZero ==
    ASSUME NEW S, IsFiniteSet(S), NEW f \in [S -> Nat]
    PROVE  SumOver(f, S) = 0 <=> \A x \in S : f[x] = 0
<1> DEFINE g == Sums(f, S)
           G == {s \in SUBSET S : g[s] = 0 <=> \A x \in s : f[x] = 0}
<1>1. {} \in G
    BY SumsDef
<1>2. ASSUME NEW s \in SUBSET S, s # {}, s \ {Pick(s)} \in G PROVE s \in G
  <2>1. Pick(s) \in s /\ s \ {Pick(s)} \in SUBSET S
    BY <1>2, PickIn
  <2>2. g[s] = f[Pick(s)] + g[s \ {Pick(s)}] /\ f[Pick(s)] \in Nat
            /\ g[s \ {Pick(s)}] \in Nat
    <3>1. Pick(s) \in S /\ g \in [SUBSET S -> Nat]
              /\ g[s] = f[Pick(s)] + g[s \ {Pick(s)}]
      BY <1>2, <2>1, SumsDef
    <3> HIDE DEF g
    <3> QED BY <2>1, <3>1
  <2>3. (\A x \in s : f[x] = 0)
            <=> f[Pick(s)] = 0 /\ \A x \in s \ {Pick(s)} : f[x] = 0
    BY <2>1, Zenon
  <2>4. g[s] = 0 <=> f[Pick(s)] = 0 /\ g[s \ {Pick(s)}] = 0
    BY <2>2
  <2> HIDE DEF g
  <2> QED BY <1>2, <2>3, <2>4
<1>3. SUBSET S \subseteq G
  <2> HIDE DEF G
  <2> QED BY <1>1, <1>2, PickInduction
<1>4. S \in G
  <2> HIDE DEF G
  <2> QED BY <1>3
<1> QED BY <1>4, SumDef

\* A function changed at one point: its sum changes by as much.
LEMMA SumChange ==
    ASSUME NEW S, IsFiniteSet(S), NEW f \in [S -> Nat], NEW h \in [S -> Nat],
           NEW a \in S, \A x \in S \ {a} : h[x] = f[x]
    PROVE  SumOver(h, S) = SumOver(f, S) - f[a] + h[a]
<1> DEFINE v == h[a]
           g == Sums(f, S)
           k == Sums(h, S)
           G == {s \in SUBSET S : k[s] = IF a \in s THEN g[s] - f[a] + v
               ELSE g[s]}
<1>0. h \in [S -> Nat] /\ h[a] = v /\ v \in Nat /\ f[a] \in Nat
      /\ \A x \in S : x # a => h[x] = f[x]
    OBVIOUS
<1> HIDE DEF v
<1>1. /\ g \in [SUBSET S -> Nat] /\ k \in [SUBSET S -> Nat] /\ g[{}] = 0
          /\ k[{}] = 0
      /\ \A s \in SUBSET S : s # {} => /\ g[s] = f[Pick(s)] + g[s \ {Pick(s)}]
                                       /\ k[s] = h[Pick(s)] + k[s \ {Pick(s)}]
    BY <1>0, SumsDef
<1>2. SumOver(f, S) = g[S] /\ SumOver(h, S) = k[S]
    BY SumDef
<1> HIDE DEF g, k
<1>3. {} \in G
    BY <1>1
<1>4. ASSUME NEW s \in SUBSET S, s # {}, s \ {Pick(s)} \in G PROVE s \in G
  <2> DEFINE r == s \ {Pick(s)}
  <2>1. Pick(s) \in s /\ r \in SUBSET S /\ (a \in r <=> a \in s /\ Pick(s) # a)
    BY <1>4, PickIn
  <2>2. /\ g[s] = f[Pick(s)] + g[r] /\ k[s] = h[Pick(s)] + k[r]
        /\ g[r] \in Nat /\ k[r] \in Nat /\ f[Pick(s)] \in Nat
    BY <1>1, <1>4, <2>1
  <2>3. k[r] = IF a \in r THEN g[r] - f[a] + v ELSE g[r]
    BY <1>4
  <2> HIDE DEF r
  <2>4. CASE Pick(s) = a
    BY <1>0, <2>1, <2>2, <2>3, <2>4
  <2>5. CASE Pick(s) # a
    <3>1. h[Pick(s)] = f[Pick(s)]
      BY <1>0, <2>1, <2>5
    <3> QED BY <1>0, <2>1, <2>2, <2>3, <2>5, <3>1
  <2> QED BY <2>4, <2>5
<1>5. S \in G
  <2> HIDE DEF G
  <2>1. SUBSET S \subseteq G
    BY <1>3, <1>4, PickInduction
  <2> QED BY <2>1
<1> QED BY <1>0, <1>2, <1>5

-----------------------------------------------------------------------------
(* Tracers and streams.                                                    *)

\* There are finitely many tracers and streams.
LEMMA Finite == IsFiniteSet(CPUs) /\ IsFiniteSet(Streams)
<1>1. IsFiniteSet(CPUs) /\ IsFiniteSet(Devs)
    BY FS_Interval, PipedOutputAssumption DEF CPUs, Devs
<1> QED BY <1>1, FS_Product DEF Streams

\* The two loops of __process_trace_bufs visit streams only.
LEMMA StreamAtIn ==
    ASSUME NEW i \in 1..NDevs * NCPUs
    PROVE  StreamAt(i) \in Streams
<1> DEFINE q == (i - 1) \div NCPUs
           r == (i - 1) % NCPUs
<1>1. NDevs \in Nat \ {0} /\ NCPUs \in Nat \ {0} /\ NDevs * NCPUs \in Nat
    BY PipedOutputAssumption
<1>2. i - 1 \in Nat /\ i - 1 < NDevs * NCPUs
    BY <1>1
<1>3. q \in Int /\ r \in 0..NCPUs - 1 /\ i - 1 = NCPUs * q + r
    BY <1>1, <1>2
<1> HIDE DEF q, r
<1>4. q >= 0
    BY <1>1, <1>2, <1>3
<1>5. q < NDevs
  <2> SUFFICES ASSUME q >= NDevs PROVE FALSE
    BY <1>1, <1>3
  <2>1. NCPUs * q >= NCPUs * NDevs
    BY <1>1, <1>3, <1>4
  <2> QED BY <1>1, <1>2, <1>3, <2>1
<1>6. q + 1 \in 1..NDevs
    BY <1>1, <1>3, <1>4, <1>5
<1>7. StreamAt(i) = <<q + 1, r>>
    BY DEF StreamAt, q, r
<1> QED BY <1>3, <1>6, <1>7 DEF Streams, Devs, CPUs

-----------------------------------------------------------------------------
(* Buffers and lists of buffers.                                           *)

\* The number of bytes a stream may hold, and the buffers within them.
Total == Ends[Len(EventLens)]
Chunks == Buffers \cap Seq(1..Total)

\* The number of a buffer's last byte.
LastByte(b) == b[Len(b)]

\* The bytes before the first buffer of list q; e when the list is empty.
From(q, e) == IF q = <<>> THEN e ELSE q[1][1] - 1

\* The buffers of q follow each other up to byte e.
Chain(q, e) ==
    \A i \in 1..Len(q) :
        LastByte(q[i]) = IF i = Len(q) THEN e ELSE q[i + 1][1] - 1

\* The bytes of a stream that have left the lists: h says whether tk, the
\* list being handled, is the stream's.
Pos(h, tk, q, r) == IF h THEN From(tk, From(q, r)) ELSE From(q, r)

\* A stream's list, preceded by the list being handled, up to the byte read.
InOrder(h, tk, q, r) == Chain(q, r) /\ (h => Chain(tk, From(q, r)))

\* b holds the bytes after lo.
Run(b, lo) == \A i \in 1..Len(b) : b[i] = lo + i

\* p holds the bytes just before pos.
Before(p, pos) == Len(p) <= pos /\ Run(p, pos - Len(p))

\* handle_list_file's output and what it keeps, for a write of wr bytes.
Written(o, buf, wr) == o \o SubSeq(buf, 1, wr)
Kept(buf, off, wr) ==
    IF wr < off THEN <<>> ELSE SubSeq(buf, off + 1, Len(buf))

\* After pos bytes, n whole events are in o and the rest of the bytes in p:
\* none of these completes an event.
Exact(pos, p, o, n) ==
    /\ n \in 0..Len(EventLens)
    /\ Len(o) = Ends[n] /\ Run(o, 0)
    /\ pos = Ends[n] + Len(p)
    /\ \A m \in 0..Len(EventLens) : Ends[m] <= pos => m <= n

\* What the assumption on the constants gives.
LEMMA Consts ==
    /\ NDevs \in Nat \ {0} /\ NCPUs \in Nat \ {0} /\ BufSize \in Nat \ {0}
    /\ Len(EventLens) \in Nat /\ Total \in Nat
    /\ NDevs * NCPUs \in Nat
    /\ \A m \in 0..Len(EventLens) : Ends[m] \in 0..Total
<1>1. Len(EventLens) \in Nat /\ NDevs \in Nat /\ NCPUs \in Nat
    BY PipedOutputAssumption
<1>2. NDevs * NCPUs \in Nat
    BY <1>1
<1>3. Total \in Nat /\ \A m \in 0..Len(EventLens) : Ends[m] \in 0..Total
    BY <1>1, EndsGrow DEF Total
<1> QED BY <1>1, <1>2, <1>3, PipedOutputAssumption

\* A buffer holds consecutive bytes of the stream.
LEMMA ChunkFacts ==
    ASSUME NEW b \in Chunks
    PROVE  /\ b \in Seq(1..Total) /\ b # <<>>
           /\ Len(b) \in 1..BufSize
           /\ b[1] \in 1..Total /\ LastByte(b) \in 1..Total
           /\ LastByte(b) = b[1] - 1 + Len(b)
           /\ Run(b, b[1] - 1)
<1>1. PICK n \in 1..BufSize, lo \in 0..Total : b = [i \in 1..n |-> lo + i]
    BY DEF Chunks, Buffers, Total
<1>2. b \in Seq(1..Total) /\ Total \in Nat /\ BufSize \in Nat
    BY Consts DEF Chunks
<1>3. n \in Nat /\ lo \in Nat
    BY <1>1, <1>2
<1>4. Len(b) = n /\ b # <<>> /\ \A i \in 1..n : b[i] = lo + i
    BY <1>1, <1>3
<1>5. b[1] = lo + 1 /\ LastByte(b) = lo + n
    BY <1>1, <1>3, <1>4 DEF LastByte
<1>6. b[1] \in 1..Total /\ LastByte(b) \in 1..Total
  <2>1. 1 \in 1..Len(b) /\ Len(b) \in 1..Len(b)
    BY <1>1, <1>3, <1>4
  <2>2. \A i \in 1..Len(b) : b[i] \in 1..Total
    BY <1>2
  <2> QED BY <2>1, <2>2 DEF LastByte
<1> HIDE DEF LastByte
<1> QED BY <1>1, <1>2, <1>3, <1>4, <1>5, <1>6 DEF Run

\* What a read of n bytes returns is a buffer.
LEMMA BytesChunk ==
    ASSUME NEW lo \in Nat, NEW n \in 1..BufSize, lo + n <= Total
    PROVE  /\ Bytes(lo, n) \in Chunks
           /\ Bytes(lo, n)[1] = lo + 1
           /\ LastByte(Bytes(lo, n)) = lo + n
<1>1. n \in Nat /\ n >= 1 /\ Total \in Nat
    BY Consts
<1>2. Bytes(lo, n) = [i \in 1..n |-> lo + i]
    BY DEF Bytes
<1>3. Bytes(lo, n) \in Buffers
    BY <1>1, <1>2 DEF Buffers, Total
<1>4. Bytes(lo, n) \in Seq(1..Total)
  <2>1. \A i \in 1..n : lo + i \in 1..Total
    BY <1>1
  <2> QED BY <1>1, <1>2, <2>1
<1>5. Len(Bytes(lo, n)) = n
    BY <1>1, <1>2
<1> QED BY <1>1, <1>2, <1>3, <1>4, <1>5 DEF Chunks, LastByte

\* add_trace_buf appends the next bytes of the stream.
LEMMA ReadInOrder ==
    ASSUME NEW h \in BOOLEAN, NEW tk \in Seq(Chunks), NEW q \in Seq(Chunks),
           NEW r \in Nat,
           NEW n \in 1..BufSize, r + n <= Total, InOrder(h, tk, q, r)
    PROVE  /\ Append(q, Bytes(r, n)) \in Seq(Chunks)
           /\ InOrder(h, tk, Append(q, Bytes(r, n)), r + n)
           /\ Pos(h, tk, Append(q, Bytes(r, n)), r + n) = Pos(h, tk, q, r)
<1> DEFINE b == Bytes(r, n)
           q1 == Append(q, b)
<1>1. b \in Chunks /\ b[1] = r + 1 /\ LastByte(b) = r + n
    BY BytesChunk
<1> HIDE DEF b
<1>2. /\ q1 \in Seq(Chunks) /\ Len(q1) = Len(q) + 1 /\ q1 # <<>>
      /\ \A i \in 1..Len(q) : q1[i] = q[i]
      /\ q1[Len(q) + 1] = b
    BY <1>1
<1> HIDE DEF q1
<1>3. From(q1, r + n) = From(q, r)
  <2>1. CASE q = <<>>
    BY <1>1, <1>2, <2>1 DEF From
  <2>2. CASE q # <<>>
    <3>1. 1 \in 1..Len(q)
      BY <2>2
    <3> QED BY <1>2, <2>2, <3>1 DEF From
  <2> QED BY <2>1, <2>2
<1>4. Chain(q1, r + n)
  <2> SUFFICES ASSUME NEW i \in 1..Len(q) + 1
               PROVE  LastByte(q1[i]) = IF i = Len(q) + 1 THEN r + n
                   ELSE q1[i + 1][1] - 1
    BY <1>2 DEF Chain
  <2>0. Len(q) \in Nat
    OBVIOUS
  <2>1. CASE i = Len(q) + 1
    BY <1>1, <1>2, <2>1
  <2>2. CASE i = Len(q)
    <3>1. LastByte(q[i]) = r
      BY <2>0, <2>2 DEF InOrder, Chain
    <3>2. /\ i + 1 = Len(q) + 1 /\ i # Len(q) + 1 /\ i \in 1..Len(q)
          /\ (r + 1) - 1 = r
      BY <2>0, <2>2
    <3>3. q1[i + 1][1] = r + 1 /\ q1[i] = q[i]
      BY <1>1, <1>2, <3>2
    <3>4. q1[i + 1][1] - 1 = r /\ q1[i] = q[i] /\ i # Len(q) + 1
      BY <3>2, <3>3
    <3> QED BY <3>1, <3>4
  <2>3. CASE i \in 1..Len(q) - 1
    <3>1. LastByte(q[i]) = q[i + 1][1] - 1
      BY <2>0, <2>3 DEF InOrder, Chain
    <3>2. q1[i + 1] = q[i + 1] /\ q1[i] = q[i] /\ i # Len(q) + 1
      BY <1>2, <2>0, <2>3
    <3> QED BY <3>1, <3>2
  <2> QED BY <2>0, <2>1, <2>2, <2>3
<1> QED BY <1>2, <1>3, <1>4 DEF InOrder, Pos, b, q1

\* Taking the whole list off moves no byte.
LEMMA TakeInOrder ==
    ASSUME NEW tk, NEW q \in Seq(Chunks), NEW r, q # <<>>,
           InOrder(FALSE, tk, q, r)
    PROVE  /\ InOrder(TRUE, q, <<>>, r)
           /\ Pos(TRUE, q, <<>>, r) = Pos(FALSE, tk, q, r)
BY DEF InOrder, Pos, Chain, From

\* A buffer handled is the next of its stream.
LEMMA HandleInOrder ==
    ASSUME NEW tk \in Seq(Chunks), NEW q \in Seq(Chunks), NEW r \in Nat,
           tk # <<>>, InOrder(TRUE, tk, q, r)
    PROVE  /\ Pos(TRUE, tk, q, r) = tk[1][1] - 1
           /\ InOrder(Len(tk) # 1, Tail(tk), q, r)
           /\ Pos(Len(tk) # 1, Tail(tk), q, r) = LastByte(tk[1])
<1>1. Chain(q, r) /\ Chain(tk, From(q, r))
    BY DEF InOrder
<1>2. Len(tk) \in Nat \ {0} /\ 1 \in 1..Len(tk)
    OBVIOUS
<1>3. Pos(TRUE, tk, q, r) = tk[1][1] - 1
    BY DEF Pos, From
<1>4. CASE Len(tk) = 1
  <2>1. LastByte(tk[1]) = From(q, r)
    BY <1>1, <1>2, <1>4 DEF Chain
  <2> QED BY <1>1, <1>3, <1>4, <2>1 DEF InOrder, Pos
<1>5. CASE Len(tk) # 1
  <2> DEFINE t == Tail(tk)
  <2>1. /\ t \in Seq(Chunks) /\ Len(t) = Len(tk) - 1 /\ t # <<>>
        /\ \A i \in 1..Len(t) : t[i] = tk[i + 1]
    <3>1. t \in Seq(Chunks) /\ Len(t) = Len(tk) - 1
      BY <1>2, HeadTailProperties
    <3>2. \A i \in 1..Len(t) : t[i] = tk[i + 1]
      BY <1>2, HeadTailProperties
    <3> HIDE DEF t
    <3> QED BY <1>2, <1>5, <3>1, <3>2
  <2> HIDE DEF t
  <2>2. LastByte(tk[1]) = t[1][1] - 1
    <3>1. LastByte(tk[1]) = tk[2][1] - 1
      <4>1. LastByte(tk[1]) = tk[1 + 1][1] - 1
        BY <1>1, <1>2, <1>5 DEF Chain
      <4> QED BY <4>1
    <3>2. t[1] = tk[2]
      BY <1>2, <1>5, <2>1
    <3> QED BY <3>1, <3>2
  <2>3. ASSUME NEW i \in 1..Len(t)
        PROVE  LastByte(t[i]) = IF i = Len(t) THEN From(q, r)
            ELSE t[i + 1][1] - 1
    <3>1. i + 1 \in 1..Len(tk) /\ t[i] = tk[i + 1]
              /\ (i = Len(t) <=> i + 1 = Len(tk))
      BY <1>2, <2>1
    <3>2. LastByte(tk[i + 1]) = IF i + 1 = Len(tk) THEN From(q, r)
              ELSE tk[(i + 1) + 1][1] - 1
      BY <1>1, <3>1 DEF Chain
    <3>3. CASE i = Len(t)
      BY <3>1, <3>2, <3>3
    <3>4. CASE i # Len(t)
      <4>1. i + 1 \in 1..Len(t)
        BY <2>1, <3>4
      <4>2. t[i + 1] = tk[(i + 1) + 1]
        BY <2>1, <4>1
      <4> QED BY <3>1, <3>2, <3>4, <4>2
    <3> QED BY <3>3, <3>4
  <2>4. Chain(t, From(q, r))
    BY <2>3 DEF Chain
  <2> QED BY <1>1, <1>3, <1>5, <2>1, <2>2, <2>4 DEF InOrder, Pos, From, t
<1> QED BY <1>4, <1>5

-----------------------------------------------------------------------------
(* handle_list_file on one buffer.                                         *)

\* The events the buffer may start with, those that end in or before it, and
\* the pieces of whole events between them.
FirstEnds(buf) == {n \in 0..Len(EventLens) : buf[1] = Ends[n] + 1}
LastEnds(buf) == {n \in 0..Len(EventLens) : Ends[n] <= buf[Len(buf)]}
WholeCuts(buf) ==
    {[off |-> Ends[m] - Ends[n], n |-> m - n] : n \in FirstEnds(buf),
        m \in LastEnds(buf)}

\* Cuts in terms of these.
LEMMA CutsAre ==
    ASSUME NEW buf
    PROVE  Cuts(buf) = IF FirstEnds(buf) = {}
                       THEN {[off |-> o, n |-> o] : o \in 0..Len(buf)}
                       ELSE {c \in WholeCuts(buf) : \A d \in WholeCuts(buf)
                           : d.off <= c.off}
BY DEF Cuts, FirstEnds, LastEnds, WholeCuts

\* The members of WholeCuts.
LEMMA WholeIs ==
    ASSUME NEW buf
    PROVE  \A c : c \in WholeCuts(buf) <=>
               \E n \in FirstEnds(buf),
                   m \in LastEnds(buf)
                   : c = [off |-> Ends[m] - Ends[n], n |-> m - n]
BY DEF WholeCuts

\* Where the loop over the headers stops: within the buffer and, if the buffer
\* starts with an event, after the last one that is whole.
LEMMA CutSound ==
    ASSUME NEW buf \in Seq(1..Total), NEW lo \in Nat, Len(buf) >= 1,
           Run(buf, lo),
           NEW cut \in Cuts(buf)
    PROVE  /\ cut.off \in 0..Len(buf) /\ cut.n \in Nat
           /\ \A k \in 0..Len(EventLens) : lo = Ends[k] =>
                 /\ k + cut.n \in 0..Len(EventLens)
                 /\ Ends[k + cut.n] = lo + cut.off
                 /\ \A j \in 0..Len(EventLens) :
                       Ends[j] <= lo + Len(buf) => j <= k + cut.n
<1> DEFINE N == Len(EventLens)
           first == FirstEnds(buf)
           last == LastEnds(buf)
           whole == WholeCuts(buf)
<1>1. N \in Nat /\ Len(buf) \in Nat /\ \A m \in 0..N : Ends[m] \in Nat
    BY Consts, EndsGrow
<1>2. buf[1] = lo + 1 /\ buf[Len(buf)] = lo + Len(buf)
    BY <1>1 DEF Run
<1>3. \A n \in 0..N : (n \in first <=> lo = Ends[n])
          /\ (n \in last <=> Ends[n] <= lo + Len(buf))
    BY <1>1, <1>2 DEF FirstEnds, LastEnds
<1>4. cut \in IF first = {}
              THEN {[off |-> o, n |-> o] : o \in 0..Len(buf)}
              ELSE {c \in whole : \A d \in whole : d.off <= c.off}
    BY CutsAre
<1>5. CASE first = {}
  <2>1. cut.off \in 0..Len(buf) /\ cut.n \in Nat
    BY <1>1, <1>4, <1>5
  <2> QED BY <1>3, <1>5, <2>1
<1>6. CASE first # {}
  <2>1. cut \in whole /\ \A d \in whole : d.off <= cut.off
    BY <1>4, <1>6
  <2>2. PICK k \in 0..N, m \in 0..N : k \in first /\ m \in last
                       /\ cut = [off |-> Ends[m] - Ends[k], n |-> m - k]
    <3>1. PICK k \in first,
              m \in last : cut = [off |-> Ends[m] - Ends[k], n |-> m - k]
      BY <2>1, WholeIs
    <3>2. k \in 0..N /\ m \in 0..N
      BY DEF FirstEnds, LastEnds
    <3> HIDE DEF first, last
    <3> QED BY <3>1, <3>2
  <2>3. lo = Ends[k] /\ Ends[m] <= lo + Len(buf) /\ cut.off = Ends[m] - lo
            /\ cut.n = m - k
    BY <1>3, <2>2
  <2>4. ASSUME NEW j \in 0..N, Ends[j] <= lo + Len(buf)
        PROVE  Ends[j] <= Ends[m]
    <3>1. j \in last
      BY <1>3, <2>4
    <3> DEFINE d == [off |-> Ends[j] - Ends[k], n |-> j - k]
    <3>2. d \in whole
      BY <2>2, <3>1, WholeIs
    <3>3. d.off = Ends[j] - lo
      BY <2>3
    <3>4. d.off <= cut.off
      <4> HIDE DEF d
      <4> QED BY <2>1, <3>2
    <3> HIDE DEF d
    <3> QED BY <1>1, <2>3, <3>3, <3>4
  <2>5. \A j \in 0..N : Ends[j] <= lo + Len(buf) => j <= m
    BY <2>4, EndsGrow
  <2>6. k <= m /\ Ends[k] <= Ends[m]
    BY <1>1, <2>3, <2>4, <2>5
  <2>7. cut.off \in 0..Len(buf) /\ cut.n \in Nat
    BY <1>1, <2>3, <2>6
  <2>8. \A i \in 0..N : lo = Ends[i] => i = k
    BY <2>3, EndsGrow
  <2>9. k + cut.n = m /\ Ends[m] = lo + cut.off
    BY <1>1, <2>3
  <2> QED BY <2>5, <2>7, <2>8, <2>9
<1> QED BY <1>5, <1>6

\* tb_combine: the left-over and the next buffer are consecutive bytes.
LEMMA JoinRun ==
    ASSUME NEW p \in Seq(1..Total), NEW b \in Seq(1..Total), NEW lo \in Nat,
           Run(p, lo), Run(b, lo + Len(p))
    PROVE  /\ p \o b \in Seq(1..Total) /\ Len(p \o b) = Len(p) + Len(b)
           /\ Run(p \o b, lo)
<1> DEFINE buf == p \o b
<1>1. /\ buf \in Seq(1..Total) /\ Len(buf) = Len(p) + Len(b)
      /\ \A i \in 1..Len(p) + Len(b) : buf[i] = IF i <= Len(p) THEN p[i]
          ELSE b[i - Len(p)]
    BY ConcatProperties
<1>2. Len(p) \in Nat /\ Len(b) \in Nat
    OBVIOUS
<1> HIDE DEF buf
<1>3. ASSUME NEW i \in 1..Len(buf) PROVE buf[i] = lo + i
  <2>1. CASE i <= Len(p)
    BY <1>1, <1>2, <2>1 DEF Run
  <2>2. CASE i > Len(p)
    <3>1. i - Len(p) \in 1..Len(b)
      BY <1>1, <1>2, <2>2
    <3>2. buf[i] = b[i - Len(p)]
      BY <1>1, <1>2, <2>2
    <3>3. b[i - Len(p)] = lo + Len(p) + (i - Len(p))
      BY <3>1 DEF Run
    <3> QED BY <1>2, <3>2, <3>3
  <2> QED BY <1>2, <2>1, <2>2
<1> QED BY <1>1, <1>3 DEF buf, Run

\* Splitting consecutive bytes in two.
LEMMA SplitRun ==
    ASSUME NEW buf \in Seq(1..Total), NEW lo \in Nat,
           Run(buf, lo),
           NEW off \in 0..Len(buf)
    PROVE  /\ SubSeq(buf, 1, off) \in Seq(1..Total)
           /\ Len(SubSeq(buf, 1, off)) = off
           /\ Run(SubSeq(buf, 1, off), lo)
           /\ SubSeq(buf, off + 1, Len(buf)) \in Seq(1..Total)
           /\ Len(SubSeq(buf, off + 1, Len(buf))) = Len(buf) - off
           /\ Run(SubSeq(buf, off + 1, Len(buf)), lo + off)
<1> DEFINE w == SubSeq(buf, 1, off)
           r == SubSeq(buf, off + 1, Len(buf))
<1>1. Len(buf) \in Nat /\ off \in Nat /\ off <= Len(buf)
    OBVIOUS
<1>2. \A i \in 1..off : buf[i] \in 1..Total
  <2>1. \A i \in 1..off : i \in 1..Len(buf)
    BY <1>1
  <2> QED BY <2>1, ElementOfSeq
<1>3. \A i \in off + 1..Len(buf) : buf[i] \in 1..Total
  <2>1. \A i \in off + 1..Len(buf) : i \in 1..Len(buf)
    BY <1>1
  <2> QED BY <2>1, ElementOfSeq
<1>4. /\ w \in Seq(1..Total) /\ Len(w) = IF 1 <= off THEN off - 1 + 1 ELSE 0
      /\ \A i \in 1..off - 1 + 1 : w[i] = buf[1 + i - 1]
    BY <1>1, <1>2, SubSeqProperties
<1>5. /\ r \in Seq(1..Total)
      /\ Len(r) = IF off + 1 <= Len(buf) THEN Len(buf) - (off + 1) + 1 ELSE 0
      /\ \A i \in 1..Len(buf) - (off + 1) + 1 : r[i] = buf[(off + 1) + i - 1]
    BY <1>1, <1>3, SubSeqProperties
<1> HIDE DEF w, r
<1>6. Len(w) = off /\ Len(r) = Len(buf) - off
    BY <1>1, <1>4, <1>5
<1>7. Run(w, lo)
    BY <1>1, <1>4, <1>6 DEF Run
<1>8. ASSUME NEW i \in 1..Len(buf) - off PROVE r[i] = lo + off + i
  <2>1. (off + 1) + i - 1 = off + i /\ off + i \in 1..Len(buf)
    BY <1>1
  <2>2. i \in 1..Len(buf) - (off + 1) + 1
    BY <1>1
  <2>3. r[i] = buf[off + i] /\ buf[off + i] = lo + (off + i)
    BY <1>5, <2>1, <2>2 DEF Run
  <2> QED BY <1>1, <2>3
<1> QED BY <1>4, <1>5, <1>6, <1>7, <1>8 DEF w, r, Run

\* handle_list_file on one buffer: what it keeps ends where the buffer did, and
\* if the whole piece is written the output stays exact.
LEMMA HandleSound ==
    ASSUME NEW p \in Seq(1..Total), NEW pos \in Nat, Before(p, pos),
           NEW b \in Chunks, b[1] - 1 = pos,
           NEW o \in Seq(1..Total),
           NEW cut \in Cuts(p \o b), NEW wr \in 0..cut.off,
           NEW p1, p1 = Kept(p \o b, cut.off, wr),
           NEW o1, o1 = Written(o, p \o b, wr)
    PROVE  /\ p1 \in Seq(1..Total) /\ o1 \in Seq(1..Total) /\ cut.n \in Nat
           /\ Before(p1, LastByte(b))
           /\ \A n : wr = cut.off /\ Exact(pos, p, o, n)
                        => Exact(LastByte(b), p1, o1, n + cut.n)
<1> DEFINE buf == p \o b
           lo == pos - Len(p)
           off == cut.off
           w == SubSeq(buf, 1, wr)
           rest == SubSeq(buf, off + 1, Len(buf))
<1>1. /\ b \in Seq(1..Total) /\ Len(b) \in Nat /\ Len(b) >= 1
      /\ LastByte(b) \in Nat /\ LastByte(b) = pos + Len(b)
      /\ Run(b, pos)
  <2>1. /\ b \in Seq(1..Total) /\ Len(b) \in 1..BufSize
            /\ LastByte(b) \in 1..Total
        /\ LastByte(b) = b[1] - 1 + Len(b) /\ Run(b, b[1] - 1)
    BY ChunkFacts
  <2>2. BufSize \in Nat /\ Total \in Nat
    BY Consts
  <2>3. Len(b) \in Nat /\ Len(b) >= 1
    BY <2>1, <2>2
  <2>4. LastByte(b) \in Nat
    BY <2>1, <2>2
  <2> QED BY <2>1, <2>3, <2>4
<1>2. /\ Len(p) \in Nat /\ lo \in Nat /\ pos = lo + Len(p) /\ Run(p, lo)
    BY DEF Before
<1> HIDE DEF lo
<1>3. /\ buf \in Seq(1..Total) /\ Len(buf) = Len(p) + Len(b) /\ Run(buf, lo)
    BY <1>1, <1>2, JoinRun
<1>4. /\ cut \in Cuts(buf) /\ wr \in 0..off
      /\ p1 = (IF wr < off THEN <<>> ELSE rest) /\ o1 = o \o w
    BY DEF Kept, Written
<1> HIDE DEF buf
<1>5. LastByte(b) = lo + Len(buf) /\ Len(buf) >= 1 /\ Len(buf) \in Nat
    BY <1>1, <1>2, <1>3
<1>6. /\ off \in 0..Len(buf) /\ cut.n \in Nat
      /\ \A k \in 0..Len(EventLens) : lo = Ends[k] =>
                 /\ k + cut.n \in 0..Len(EventLens)
                 /\ Ends[k + cut.n] = lo + off
                 /\ \A j \in 0..Len(EventLens) :
                       Ends[j] <= lo + Len(buf) => j <= k + cut.n
    BY <1>2, <1>3, <1>4, <1>5, CutSound
<1> HIDE DEF off
<1>7. off \in Nat /\ off <= Len(buf) /\ wr \in Nat /\ wr <= off
          /\ wr \in 0..Len(buf)
    BY <1>4, <1>5, <1>6
<1>8. w \in Seq(1..Total) /\ Len(w) = wr /\ Run(w, lo)
    BY <1>2, <1>3, <1>7, SplitRun
<1>9. rest \in Seq(1..Total) /\ Len(rest) = Len(buf) - off
          /\ Run(rest, lo + off)
    BY <1>2, <1>3, <1>6, SplitRun
<1> HIDE DEF w, rest
<1>10. o1 \in Seq(1..Total) /\ (Run(o, 0) /\ Len(o) = lo => Run(o1, 0))
       /\ Len(o1) = Len(o) + wr
  <2>1. o1 \in Seq(1..Total) /\ Len(o1) = Len(o) + wr
    BY <1>4, <1>8, ConcatProperties
  <2>2. ASSUME Run(o, 0), Len(o) = lo PROVE Run(o1, 0)
    <3>1. Run(w, 0 + Len(o))
      BY <1>2, <1>8, <2>2
    <3> QED BY <1>4, <1>8, <2>2, <3>1, JoinRun
  <2> QED BY <2>1, <2>2
<1>11. p1 \in Seq(1..Total) /\ Before(p1, LastByte(b))
  <2>1. CASE wr < off
    <3>1. p1 = <<>> /\ Len(p1) = 0
      BY <1>4, <2>1
    <3> QED BY <1>1, <3>1 DEF Before, Run
  <2>2. CASE ~(wr < off)
    <3>1. p1 = rest
      BY <1>4, <2>2
    <3>2. LastByte(b) - Len(rest) = lo + off /\ Len(rest) <= LastByte(b)
      BY <1>2, <1>5, <1>7, <1>9
    <3> QED BY <1>9, <3>1, <3>2 DEF Before
  <2> QED BY <2>1, <2>2
<1>12. ASSUME NEW n, wr = cut.off, Exact(pos, p, o, n)
       PROVE  Exact(LastByte(b), p1, o1, n + cut.n)
  <2>1. /\ n \in 0..Len(EventLens) /\ Len(o) = Ends[n]
            /\ pos = Ends[n] + Len(p)
        /\ Run(o, 0)
    BY <1>12 DEF Exact
  <2>2. lo = Ends[n]
    <3>1. Ends[n] \in Nat
      BY <2>1, EndsGrow
    <3> QED BY <1>2, <2>1, <3>1
  <2>3. wr = off /\ p1 = rest
    <3>1. wr = off
      BY <1>12 DEF off
    <3> QED BY <1>4, <1>7, <3>1
  <2>4. /\ n + cut.n \in 0..Len(EventLens)
        /\ Ends[n + cut.n] = lo + off
        /\ \A j \in 0..Len(EventLens) : Ends[j] <= LastByte(b)
            => j <= n + cut.n
    BY <1>5, <1>6, <2>1, <2>2
  <2>5. Run(o1, 0) /\ Len(o1) = lo + off
    BY <1>10, <2>1, <2>2, <2>3
  <2>6. LastByte(b) = Ends[n + cut.n] + Len(p1)
    <3>1. Len(p1) = Len(buf) - off
      BY <1>9, <2>3
    <3>2. Ends[n + cut.n] = lo + off
      BY <2>4
    <3> QED BY <1>2, <1>5, <1>7, <3>1, <3>2
  <2> QED BY <2>4, <2>5, <2>6 DEF Exact
<1> QED BY <1>6, <1>10, <1>11, <1>12

-----------------------------------------------------------------------------
(* The invariant.                                                          *)

\* The main thread is handling buffers of stream s.
Handling(s) == mpc = "handle" /\ s = StreamAt(at)

\* The bytes of stream s that have been handled.
PosOf(s) == Pos(Handling(s), taken, list[s], rd[s])

\* The type invariant, with the lists as sequences of buffers.
Typed ==
    /\ recorded \in [Streams -> 0..Len(EventLens)]
    /\ rd \in [Streams -> 0..Total]
    /\ list \in [Streams -> Seq(Chunks)] /\ taken \in Seq(Chunks)
    /\ prev \in [Streams -> Seq(1..Total)]
    /\ dp_entries \in Int /\ handled \in Nat
    /\ tdev \in [CPUs -> 1..NDevs + 1] /\ nentries \in [CPUs -> Nat]
    /\ forced \in [CPUs -> BOOLEAN] /\ tlive \in [CPUs -> BOOLEAN]
    /\ stop \in {"no", "stopped", "told"}
    /\ mpc \in {"wait", "scan", "handle", "leaving", "clean", "closed"}
    /\ final \in BOOLEAN
    /\ at \in 1..NDevs * NCPUs + 1
    /\ out \in [Streams -> Seq(1..Total)]
    /\ nevents \in [Streams -> Nat]

\* The bytes of each stream are in order: handled, being handled, listed, read.
StreamInv ==
    \A s \in Streams :
        /\ InOrder(Handling(s), taken, list[s], rd[s])
        /\ Before(prev[s], PosOf(s))
        /\ rd[s] <= Ends[recorded[s]]

\* Where the main thread is, and what that says of the rest.
MainInv ==
    /\ mpc = "handle" <=> taken # <<>>
    /\ mpc = "handle" => at <= NDevs * NCPUs
    /\ mpc \in {"wait", "leaving", "clean", "closed"} => handled = 0
    /\ mpc \in {"clean", "closed"} => final
    /\ mpc = "leaving" \/ final => stop # "no"
    /\ final => \A c \in CPUs : ~tlive[c]
    /\ mpc = "closed" => dp_entries = 0

\* A tracer that has left has left nothing unread; one whose pass found nothing
\* since it was told has nothing to read in the devices it has passed.
TracerInv ==
    \A c \in CPUs :
        /\ nentries[c] < tdev[c]
        /\ ~tlive[c] => /\ nentries[c] = 0 /\ stop # "no"
                        /\ \A d \in Devs : Unread(<<d, c>>) = 0
        /\ forced[c] => /\ stop = "told"
                        /\ nentries[c] = 0 =>
                              \A d \in 1..tdev[c] - 1 : Unread(<<d, c>>) = 0

\* The inductive invariant, with and without write failures.
IInv == Typed /\ StreamInv /\ MainInv /\ TracerInv /\ EntriesAccounted

\* What is added to it when no write fails.
ExactInv ==
    /\ \A s \in Streams : Exact(PosOf(s), prev[s], out[s], nevents[s])
    /\ StatsExact

\* A position is a natural number.
LEMMA PosNat ==
    ASSUME NEW h \in BOOLEAN, NEW tk \in Seq(Chunks), NEW q \in Seq(Chunks),
           NEW r \in Nat
    PROVE  Pos(h, tk, q, r) \in Nat
<1>1. ASSUME NEW x \in Seq(Chunks), NEW e \in Nat PROVE From(x, e) \in Nat
  <2>1. x # <<>> => x[1] \in Chunks
    BY <1>1
  <2>2. x # <<>> => x[1][1] \in 1..Total
    BY <2>1, ChunkFacts
  <2> QED BY <2>2, Consts DEF From
<1> QED BY <1>1 DEF Pos

\* What HandleFile does to the stream it handles and to the others.
LEMMA HandleEffect ==
    ASSUME Typed, StreamInv, MainInv, HandleFile
    PROVE  /\ StreamAt(at) \in Streams
           /\ taken' \in Seq(Chunks) /\ Len(taken') = Len(taken) - 1
               /\ Len(taken) \in Nat \ {0}
           /\ prev' \in [Streams -> Seq(1..Total)]
               /\ out' \in [Streams -> Seq(1..Total)]
           /\ nevents' \in [Streams -> Nat]
           /\ \E n \in Nat
               : nevents' = [nevents EXCEPT ![StreamAt(at)] = @ + n]
           /\ \A s \in Streams :
                 /\ InOrder(Handling(s)', taken', list[s], rd[s])
                 /\ Before(prev'[s], PosOf(s)')
                 /\ ~WriteFails /\ Exact(PosOf(s), prev[s], out[s], nevents[s])
                        => Exact(PosOf(s)', prev'[s], out'[s], nevents'[s])
<1>1. mpc = "handle" /\ taken # <<>> /\ at \in 1..NDevs * NCPUs
    BY Consts DEF HandleFile, MainInv, Typed
<1>2. PICK s \in Streams : s = StreamAt(at)
    BY <1>1, StreamAtIn
<1> DEFINE buf == prev[s] \o Head(taken)
<1>3. PICK cut \in Cuts(buf) :
        \E wr \in IF WriteFails THEN 0..cut.off ELSE {cut.off} :
          /\ out' = [out EXCEPT ![s] = @ \o SubSeq(buf, 1, wr)]
          /\ nevents' = [nevents EXCEPT ![s] = @ + cut.n]
          /\ prev' = [prev EXCEPT ![s] =
                         IF wr < cut.off THEN <<>>
                         ELSE SubSeq(buf, cut.off + 1, Len(buf))]
    BY <1>2 DEF HandleFile
<1>4. PICK wr \in IF WriteFails THEN 0..cut.off ELSE {cut.off} :
          /\ out' = [out EXCEPT ![s] = Written(@, buf, wr)]
          /\ nevents' = [nevents EXCEPT ![s] = @ + cut.n]
          /\ prev' = [prev EXCEPT ![s] = Kept(buf, cut.off, wr)]
    BY <1>3 DEF Written, Kept
<1>5. /\ taken \in Seq(Chunks) /\ taken' = Tail(taken) /\ list' = list
          /\ rd' = rd
      /\ (mpc' = IF Len(taken) = 1 THEN "scan" ELSE "handle")
      /\ Len(taken) # 1 => at' = at
    BY <1>1 DEF HandleFile, NextBuffer, Typed
<1>6. /\ Head(taken) = taken[1] /\ taken[1] \in Chunks
      /\ taken' \in Seq(Chunks) /\ Len(taken') = Len(taken) - 1
          /\ Len(taken) \in Nat \ {0}
    BY <1>1, <1>5
<1>7. Handling(s) = TRUE /\ Handling(s)' = (Len(taken) # 1)
    BY <1>1, <1>2, <1>5 DEF Handling
<1>8. ASSUME NEW t \in Streams, t # s
          PROVE Handling(t) = FALSE /\ Handling(t)' = FALSE
    BY <1>2, <1>5, <1>8 DEF Handling
<1>9. list[s] \in Seq(Chunks) /\ rd[s] \in Nat /\ prev[s] \in Seq(1..Total)
      /\ out[s] \in Seq(1..Total) /\ nevents[s] \in Nat
    BY <1>2, Consts DEF Typed
<1>10. InOrder(TRUE, taken, list[s], rd[s]) /\ Before(prev[s], PosOf(s))
    BY <1>2, <1>7 DEF StreamInv
<1>11. /\ PosOf(s) = Head(taken)[1] - 1 /\ PosOf(s) \in Nat
       /\ InOrder(Handling(s)', taken', list[s], rd[s])
       /\ PosOf(s)' = LastByte(Head(taken))
  <2>1. PosOf(s) = Pos(TRUE, taken, list[s], rd[s])
        /\ PosOf(s)' = Pos(Len(taken) # 1, Tail(taken), list[s], rd[s])
    BY <1>5, <1>7 DEF PosOf
  <2>2. /\ Pos(TRUE, taken, list[s], rd[s]) = taken[1][1] - 1
        /\ InOrder(Len(taken) # 1, Tail(taken), list[s], rd[s])
        /\ Pos(Len(taken) # 1, Tail(taken), list[s], rd[s])
            = LastByte(taken[1])
    BY <1>1, <1>5, <1>9, <1>10, HandleInOrder
  <2>3. Pos(TRUE, taken, list[s], rd[s]) \in Nat
    BY <1>5, <1>9, PosNat
  <2> QED BY <1>5, <1>6, <1>7, <2>1, <2>2, <2>3
<1> HIDE DEF buf
<1>12. cut.off \in Nat /\ wr \in 0..cut.off /\ (~WriteFails => wr = cut.off)
  <2>1. cut.off \in Nat
    <3>1. cut.off \in 0..Len(buf)
      <4> DEFINE b == Head(taken)
                 lo == PosOf(s) - Len(prev[s])
      <4>1. b \in Seq(1..Total) /\ Run(b, PosOf(s)) /\ Len(b) \in 1..BufSize
        BY <1>6, <1>11, ChunkFacts
      <4>2. lo \in Nat /\ Run(prev[s], lo) /\ PosOf(s) = lo + Len(prev[s])
                /\ Len(prev[s]) \in Nat
        BY <1>9, <1>10, <1>11 DEF Before
      <4>3. Len(b) \in Nat /\ Len(b) >= 1
        BY <4>1, Consts
      <4> HIDE DEF b, lo
      <4>4. buf \in Seq(1..Total) /\ Run(buf, lo)
                /\ Len(buf) = Len(prev[s]) + Len(b)
        BY <1>9, <4>1, <4>2, JoinRun DEF buf, b
      <4> QED BY <1>3, <4>2, <4>3, <4>4, CutSound
    <3> QED BY <3>1
  <2> QED BY <1>4, <2>1
<1>13. /\ prev'[s] = Kept(buf, cut.off, wr)
           /\ out'[s] = Written(out[s], buf, wr)
       /\ nevents'[s] = nevents[s] + cut.n
       /\ \A t \in Streams : t # s
           => prev'[t] = prev[t] /\ out'[t] = out[t]
           /\ nevents'[t] = nevents[t]
    BY <1>2, <1>4 DEF Typed
<1>14. /\ prev'[s] \in Seq(1..Total) /\ out'[s] \in Seq(1..Total)
           /\ cut.n \in Nat
       /\ Before(prev'[s], PosOf(s)')
       /\ \A n : wr = cut.off /\ Exact(PosOf(s), prev[s], out[s], n)
                    => Exact(PosOf(s)', prev'[s], out'[s], n + cut.n)
  <2>1. PICK p, b, o, pos, p1, o1 :
           /\ p = prev[s] /\ b = Head(taken) /\ o = out[s] /\ pos = PosOf(s)
           /\ p1 = prev'[s] /\ o1 = out'[s]
    OBVIOUS
  <2>2. /\ p \in Seq(1..Total) /\ o \in Seq(1..Total) /\ b \in Chunks
        /\ pos \in Nat /\ Before(p, pos) /\ b[1] - 1 = pos
    BY <1>6, <1>9, <1>10, <1>11, <2>1
  <2>3. buf = p \o b
    BY <2>1 DEF buf
  <2>4. /\ cut \in Cuts(p \o b) /\ wr \in 0..cut.off
        /\ p1 = Kept(p \o b, cut.off, wr) /\ o1 = Written(o, p \o b, wr)
    BY <1>3, <1>12, <1>13, <2>1, <2>3
  <2>5. /\ p1 \in Seq(1..Total) /\ o1 \in Seq(1..Total) /\ cut.n \in Nat
        /\ Before(p1, LastByte(b))
        /\ \A n : wr = cut.off /\ Exact(pos, p, o, n)
                     => Exact(LastByte(b), p1, o1, n + cut.n)
    BY <2>2, <2>4, HandleSound
  <2>6. PosOf(s)' = LastByte(b)
    BY <1>11, <2>1
  <2> QED BY <2>1, <2>5, <2>6
<1>15. prev' \in [Streams -> Seq(1..Total)]
           /\ out' \in [Streams -> Seq(1..Total)]
       /\ nevents' \in [Streams -> Nat]
  <2>1. /\ prev \in [Streams -> Seq(1..Total)]
        /\ out \in [Streams -> Seq(1..Total)]
        /\ nevents \in [Streams -> Nat]
    BY Zenon DEF Typed
  <2>2. /\ prev' = [prev EXCEPT ![s] = prev'[s]]
        /\ out' = [out EXCEPT ![s] = out'[s]]
        /\ nevents' = [nevents EXCEPT ![s] = nevents'[s]]
        /\ nevents'[s] \in Nat
    BY <1>2, <1>4, <1>9, <1>13, <1>14, <2>1
  <2> QED BY <1>2, <1>14, <2>1, <2>2
<1>16. ASSUME NEW t \in Streams
       PROVE  /\ InOrder(Handling(t)', taken', list[t], rd[t])
              /\ Before(prev'[t], PosOf(t)')
              /\ ~WriteFails /\ Exact(PosOf(t), prev[t], out[t], nevents[t])
                        => Exact(PosOf(t)', prev'[t], out'[t], nevents'[t])
  <2>1. CASE t = s
    BY <1>11, <1>12, <1>13, <1>14, <2>1
  <2>2. CASE t # s
    <3>1. PosOf(t)' = PosOf(t)
      BY <1>5, <1>8, <2>2 DEF PosOf, Pos
    <3>2. InOrder(FALSE, taken', list[t], rd[t])
      BY <1>8, <2>2 DEF StreamInv, InOrder
    <3> QED BY <1>8, <1>13, <2>2, <3>1, <3>2 DEF StreamInv
  <2> QED BY <2>1, <2>2
<1>17. \E n \in Nat : nevents' = [nevents EXCEPT ![s] = @ + n]
    BY <1>4, <1>14
<1> QED BY <1>2, <1>6, <1>15, <1>16, <1>17

-----------------------------------------------------------------------------
(* The invariant is inductive.                                             *)

\* Both invariants hold at first.
LEMMA InitIInv == Init => IInv /\ ExactInv
<1> SUFFICES ASSUME Init PROVE IInv /\ ExactInv
    OBVIOUS
<1>1. Typed
  <2>1. /\ 0 \in 0..Len(EventLens) /\ 0 \in 0..Total /\ 1 \in 1..NDevs + 1
        /\ 1 \in 1..NDevs * NCPUs + 1
    BY Consts
  <2>2. <<>> \in Seq(Chunks) /\ <<>> \in Seq(1..Total)
    OBVIOUS
  <2>3. /\ recorded \in [Streams -> 0..Len(EventLens)]
            /\ rd \in [Streams -> 0..Total]
        /\ list \in [Streams -> Seq(Chunks)] /\ taken \in Seq(Chunks)
        /\ prev \in [Streams -> Seq(1..Total)]
            /\ out \in [Streams -> Seq(1..Total)]
    BY <2>1, <2>2 DEF Init
  <2>4. /\ tdev \in [CPUs -> 1..NDevs + 1] /\ nentries \in [CPUs -> Nat]
        /\ nevents \in [Streams -> Nat] /\ at \in 1..NDevs * NCPUs + 1
    BY <2>1 DEF Init
  <2>5. forced \in [CPUs -> BOOLEAN] /\ tlive \in [CPUs -> BOOLEAN]
            /\ final \in BOOLEAN
    BY DEF Init
  <2> QED BY <2>3, <2>4, <2>5 DEF Init, Typed
<1>2. /\ \A s \in Streams : ~Handling(s) /\ list[s] = <<>> /\ prev[s] = <<>>
          /\ rd[s] = 0
                            /\ recorded[s] = 0 /\ out[s] = <<>>
                                /\ nevents[s] = 0
      /\ Ends[0] = 0 /\ Len(EventLens) \in Nat
    BY Consts, EndsDef DEF Init, Handling
<1>3. \A s \in Streams : PosOf(s) = 0
    BY <1>2 DEF PosOf, Pos, From
<1>4. StreamInv
    BY <1>2, <1>3 DEF StreamInv, InOrder, Chain, Before, Run
<1>5. MainInv /\ TracerInv
    BY Consts DEF Init, MainInv, TracerInv
<1>6. EntriesAccounted
  <2>1. nentries \in [CPUs -> Nat] /\ \A c \in CPUs : nentries[c] = 0
    BY DEF Init
  <2>2. [s \in Streams |-> Len(list[s])] \in [Streams -> Nat]
        /\ \A s \in Streams : [t \in Streams |-> Len(list[t])][s] = 0
    BY <1>2
  <2>3. SumOver(nentries, CPUs) = 0
            /\ SumOver([s \in Streams |-> Len(list[s])], Streams) = 0
    BY <2>1, <2>2, SumZero, Finite
  <2> QED BY <2>3 DEF EntriesAccounted, Init
<1>7. ASSUME NEW s \in Streams
          PROVE Exact(PosOf(s), prev[s], out[s], nevents[s])
  <2>1. \A m \in 0..Len(EventLens) : Ends[m] <= 0 => m <= 0
    BY <1>2, EndsGrow
  <2>2. 0 \in 0..Len(EventLens) /\ Len(out[s]) = 0 /\ Len(prev[s]) = 0
    BY <1>2
  <2> QED BY <1>2, <1>3, <2>1, <2>2 DEF Exact, Run
<1>8. StatsExact
    BY DEF Init, StatsExact
<1> QED BY <1>1, <1>4, <1>5, <1>6, <1>7, <1>8 DEF IInv, ExactInv

\* What TracerRead does to the stream it reads.
LEMMA ReadEffect ==
    ASSUME IInv, NEW c \in CPUs, TracerRead(c)
    PROVE  \E s \in Streams, n \in 1..BufSize :
               /\ s = <<tdev[c], c>> /\ tdev[c] \in Devs
               /\ rd[s] + n <= Ends[recorded[s]]
               /\ rd' = [rd EXCEPT ![s] = rd[s] + n]
               /\ list' = [list EXCEPT ![s] = Append(list[s], Bytes(rd[s], n))]
               /\ rd' \in [Streams -> 0..Total]
                   /\ list' \in [Streams -> Seq(Chunks)]
               /\ Len(list'[s]) = Len(list[s]) + 1
               /\ InOrder(Handling(s), taken, list'[s], rd'[s])
               /\ Pos(Handling(s), taken, list'[s], rd'[s]) = PosOf(s)
<1>1. tdev[c] \in Devs
    BY DEF IInv, Typed, TracerRead, Devs
<1>2. PICK s \in Streams : s = <<tdev[c], c>>
    BY <1>1 DEF Streams
<1>3. PICK n \in 1..BufSize :
          /\ n <= Unread(s)
          /\ rd' = [rd EXCEPT ![s] = @ + n]
          /\ list' = [list EXCEPT ![s] = Append(@, Bytes(rd[s], n))]
    BY <1>2 DEF TracerRead
<1>4. /\ n \in Nat /\ rd[s] \in Nat /\ Ends[recorded[s]] \in Nat
          /\ Ends[recorded[s]] <= Total
      /\ Total \in Nat
      /\ taken \in Seq(Chunks) /\ list[s] \in Seq(Chunks)
      /\ rd \in [Streams -> 0..Total] /\ list \in [Streams -> Seq(Chunks)]
  <2>1. recorded[s] \in 0..Len(EventLens)
    BY DEF IInv, Typed
  <2>2. BufSize \in Nat /\ Total \in Nat /\ Ends[recorded[s]] \in 0..Total
    BY <2>1, Consts
  <2> QED BY <2>2 DEF IInv, Typed
<1>5. rd[s] + n <= Ends[recorded[s]]
    BY <1>3, <1>4 DEF Unread
<1>6. InOrder(Handling(s), taken, list[s], rd[s]) /\ Handling(s) \in BOOLEAN
    BY DEF IInv, StreamInv, Handling
<1>7. /\ Append(list[s], Bytes(rd[s], n)) \in Seq(Chunks)
      /\ InOrder(Handling(s), taken, Append(list[s], Bytes(rd[s], n)),
          rd[s] + n)
      /\ Pos(Handling(s), taken, Append(list[s], Bytes(rd[s], n)), rd[s] + n)
          = PosOf(s)
    BY <1>4, <1>5, <1>6, ReadInOrder DEF PosOf
<1>8. rd'[s] = rd[s] + n /\ list'[s] = Append(list[s], Bytes(rd[s], n))
    BY <1>3, <1>4
<1>9. rd' \in [Streams -> 0..Total] /\ list' \in [Streams -> Seq(Chunks)]
    BY <1>3, <1>4, <1>5, <1>7
<1>10. Len(list'[s]) = Len(list[s]) + 1
    BY <1>4, <1>8
<1> QED BY <1>1, <1>2, <1>3, <1>5, <1>7, <1>8, <1>9, <1>10

\* Every step preserves the types.
LEMMA TypedNext == IInv /\ [Next]_vars => Typed'
<1> SUFFICES ASSUME IInv, [Next]_vars PROVE Typed'
    OBVIOUS
<1>0. Typed /\ StreamInv /\ MainInv
    BY DEF IInv
<1>1. ASSUME NEW s \in Streams, Record(s) PROVE Typed'
  <2>1. recorded' \in [Streams -> 0..Len(EventLens)]
    BY <1>0, <1>1, Consts DEF Record, Typed
  <2> QED BY <1>0, <1>1, <2>1 DEF Record, Typed, tvars, mvars
<1>2. CASE StopTraces
    BY <1>0, <1>2 DEF StopTraces, Typed, tvars, mvars
<1>3. ASSUME NEW c \in CPUs, TracerRead(c) PROVE Typed'
  <2>1. rd' \in [Streams -> 0..Total] /\ list' \in [Streams -> Seq(Chunks)]
    BY <1>3, ReadEffect
  <2>2. tdev' \in [CPUs -> 1..NDevs + 1] /\ nentries' \in [CPUs -> Nat]
    BY <1>0, <1>3, Consts DEF TracerRead, Typed
  <2> QED BY <1>0, <1>3, <2>1, <2>2 DEF TracerRead, Typed, mvars
<1>4. ASSUME NEW c \in CPUs, TracerSkip(c) PROVE Typed'
  <2>1. tdev' \in [CPUs -> 1..NDevs + 1]
    BY <1>0, <1>4, Consts DEF TracerSkip, Typed
  <2> QED BY <1>0, <1>4, <2>1 DEF TracerSkip, Typed, mvars
<1>5. ASSUME NEW c \in CPUs, TracerPassEnds(c) PROVE Typed'
  <2>1. /\ tdev' \in [CPUs -> 1..NDevs + 1] /\ nentries' \in [CPUs -> Nat]
        /\ forced' \in [CPUs -> BOOLEAN] /\ tlive' \in [CPUs -> BOOLEAN]
        /\ dp_entries' \in Int
    BY <1>0, <1>5, Consts DEF TracerPassEnds, Typed
  <2> QED BY <1>0, <1>5, <2>1 DEF TracerPassEnds, Typed, mvars
<1>6. CASE MainWait
    BY <1>0, <1>6, Consts DEF MainWait, Typed, tvars
<1>7. CASE MainTake
  <2>1. StreamAt(at) \in Streams
    BY <1>0, <1>7, StreamAtIn, Consts DEF MainTake, Typed
  <2>2. list' \in [Streams -> Seq(Chunks)] /\ taken' \in Seq(Chunks)
    <3>1. list[StreamAt(at)] \in Seq(Chunks)
      BY <1>0, <2>1 DEF Typed
    <3>2. CASE list[StreamAt(at)] = <<>>
      BY <1>0, <1>7, <3>2 DEF MainTake, Typed
    <3>3. CASE list[StreamAt(at)] # <<>>
      <4>1. list' = [list EXCEPT ![StreamAt(at)] = <<>>]
                /\ taken' = list[StreamAt(at)]
        BY <1>7, <3>3 DEF MainTake
      <4>2. <<>> \in Seq(Chunks)
        OBVIOUS
      <4> QED BY <1>0, <3>1, <4>1, <4>2 DEF Typed
    <3> QED BY <3>2, <3>3
  <2>3. at' \in 1..NDevs * NCPUs + 1
    BY <1>0, <1>7, Consts DEF MainTake, Typed
  <2>4. mpc' \in {"scan", "handle"}
    BY <1>7 DEF MainTake
  <2> QED BY <1>0, <1>7, <2>2, <2>3, <2>4 DEF MainTake, Typed, tvars
<1>8. CASE HandleFile
  <2>1. /\ taken' \in Seq(Chunks) /\ prev' \in [Streams -> Seq(1..Total)]
        /\ out' \in [Streams -> Seq(1..Total)] /\ nevents' \in [Streams -> Nat]
    BY <1>0, <1>8, HandleEffect
  <2>2. at' \in 1..NDevs * NCPUs + 1 /\ handled' \in Nat
            /\ mpc' \in {"scan", "handle"}
    <3>1. at \in 1..NDevs * NCPUs
      BY <1>0, <1>8, Consts DEF HandleFile, MainInv, Typed
    <3> QED BY <1>0, <1>8, <3>1, Consts DEF HandleFile, NextBuffer, Typed
  <2> QED BY <1>0, <1>8, <2>1, <2>2 DEF HandleFile, Typed, tvars
<1>9. CASE MainDecr
    BY <1>0, <1>9 DEF MainDecr, Typed, tvars
<1>10. CASE MainLeaving
    BY <1>0, <1>10 DEF MainLeaving, Typed, tvars
<1>11. CASE MainClean
    BY <1>0, <1>11, Consts DEF MainClean, Typed, tvars
<1>12. CASE UNCHANGED vars
    BY <1>0, <1>12 DEF vars, tvars, mvars, Typed
<1> QED BY <1>1, <1>2, <1>3, <1>4, <1>5, <1>6, <1>7, <1>8, <1>9, <1>10, <1>11,
        <1>12
        DEF Next, TracerStep, MainStep, Closed

\* The steps that leave the streams' buffers where they are.
Quiet ==
    /\ UNCHANGED <<recorded, rd, list, prev, taken, out, nevents>>
    /\ \A s \in Streams : Handling(s)' = Handling(s)

\* The steps, by what they do to the streams.
LEMMA NextCases ==
    ASSUME MainInv, [Next]_vars
    PROVE  \/ \E s \in Streams : Record(s)
           \/ Quiet
           \/ \E c \in CPUs : TracerRead(c)
           \/ MainTake /\ list[StreamAt(at)] # <<>>
           \/ HandleFile
<1> USE DEF Quiet
<1>1. CASE StopTraces
    BY <1>1 DEF StopTraces, mvars, Handling
<1>2. ASSUME NEW c \in CPUs, TracerSkip(c) \/ TracerPassEnds(c) PROVE Quiet
    BY <1>2 DEF TracerSkip, TracerPassEnds, mvars, Handling
<1>3. CASE MainWait
    BY <1>3 DEF MainWait, Handling
<1>4. CASE MainTake /\ list[StreamAt(at)] = <<>>
    BY <1>4 DEF MainTake, Handling
<1>5. CASE MainDecr
    BY <1>5 DEF MainDecr, Handling
<1>6. CASE MainLeaving
    BY <1>6 DEF MainLeaving, Handling
<1>7. CASE MainClean
    BY <1>7 DEF MainClean, Handling
<1>8. CASE UNCHANGED vars
    BY <1>8 DEF vars, mvars, Handling
<1> QED BY <1>1, <1>2, <1>3, <1>4, <1>5, <1>6, <1>7, <1>8
        DEF Next, TracerStep, MainStep, Closed

\* A quiet step moves no byte.
LEMMA QuietStreams ==
    ASSUME StreamInv, Quiet
    PROVE  StreamInv' /\ \A s \in Streams : PosOf(s)' = PosOf(s)
BY DEF Quiet, StreamInv, PosOf

\* What MainTake does when the list is not empty.
TakeEffect(s) ==
    /\ UNCHANGED <<recorded, rd, prev, out, nevents, mpc # "closed">>
    /\ taken = <<>> /\ taken' = list[s] /\ list[s] # <<>>
    /\ list' = [list EXCEPT ![s] = <<>>]
    /\ \A t \in Streams : PosOf(t)' = PosOf(t)
    /\ \A t \in Streams : InOrder(Handling(t)', taken', list'[t], rd'[t])

\* MainTake hands a whole list to handle_list, none being handled.
LEMMA TakeSound ==
    ASSUME Typed, StreamInv, MainInv, MainTake, NEW s \in Streams,
           s = StreamAt(at), list[s] # <<>>
    PROVE  TakeEffect(s)
<1>1. /\ mpc = "scan" /\ mpc' = "handle" /\ at' = at /\ taken' = list[s]
      /\ list' = [list EXCEPT ![s] = <<>>]
      /\ UNCHANGED <<recorded, rd, prev, out, nevents>>
    BY DEF MainTake
<1>2. taken = <<>>
    BY <1>1 DEF MainInv
<1>3. \A t \in Streams : Handling(t) = FALSE /\ Handling(t)' = (t = s)
    BY <1>1 DEF Handling
<1>4. list[s] \in Seq(Chunks) /\ list'[s] = <<>> /\ \A t \in Streams : t # s
          => list'[t] = list[t]
    BY <1>1 DEF Typed
<1>5. ASSUME NEW t \in Streams
      PROVE  PosOf(t)' = PosOf(t)
          /\ InOrder(Handling(t)', taken', list'[t], rd'[t])
  <2>0. InOrder(FALSE, taken, list[t], rd[t])
    BY <1>3 DEF StreamInv
  <2>1. CASE t = s
    <3>1. Handling(s) = FALSE /\ Handling(s)' = TRUE /\ rd' = rd
      BY <1>1, <1>3
    <3>2. InOrder(TRUE, list[s], <<>>, rd[s])
          /\ Pos(TRUE, list[s], <<>>, rd[s])
              = Pos(FALSE, taken, list[s], rd[s])
      BY <1>4, <2>0, <2>1, TakeInOrder
    <3>3. PosOf(s) = Pos(FALSE, taken, list[s], rd[s])
          /\ PosOf(s)' = Pos(TRUE, list[s], <<>>, rd[s])
      BY <1>1, <1>4, <3>1 DEF PosOf
    <3> QED BY <1>1, <1>4, <2>1, <3>1, <3>2, <3>3
  <2>2. CASE t # s
    <3>1. PosOf(t)' = Pos(FALSE, taken', list[t], rd[t])
      BY <1>1, <1>3, <1>4, <2>2 DEF PosOf
    <3>2. PosOf(t) = Pos(FALSE, taken, list[t], rd[t])
      BY <1>3 DEF PosOf
    <3> QED BY <1>1, <1>3, <1>4, <2>0, <2>2, <3>1, <3>2 DEF InOrder, Pos
  <2> QED BY <2>1, <2>2
<1> QED BY <1>1, <1>2, <1>5 DEF TakeEffect

\* Every step keeps the bytes in order.
LEMMA StreamNext == IInv /\ [Next]_vars => StreamInv'
<1> SUFFICES ASSUME IInv, [Next]_vars PROVE StreamInv'
    OBVIOUS
<1>0. Typed /\ StreamInv /\ MainInv
    BY DEF IInv
<1>1. ASSUME NEW s \in Streams, Record(s) PROVE StreamInv'
  <2> SUFFICES ASSUME NEW t \in Streams
               PROVE /\ InOrder(Handling(t), taken, list[t], rd[t])'
                     /\ Before(prev[t], PosOf(t))'
                     /\ (rd[t] <= Ends[recorded[t]])'
    BY DEF StreamInv
  <2>1. /\ InOrder(Handling(t), taken, list[t], rd[t])'
            /\ Before(prev[t], PosOf(t))'
    <3>1. Handling(t)' = Handling(t) /\ UNCHANGED <<taken, list, rd, prev>>
      BY <1>1 DEF Record, mvars, Handling
    <3>2. PosOf(t)' = PosOf(t)
      BY <3>1 DEF PosOf
    <3> QED BY <1>0, <3>1, <3>2 DEF StreamInv
  <2>2. recorded[t] \in 0..Len(EventLens)
            /\ recorded'[t] \in 0..Len(EventLens)
            /\ recorded[t] <= recorded'[t]
    <3>1. recorded[t] \in 0..Len(EventLens) /\ Len(EventLens) \in Nat
      BY <1>0, Consts DEF Typed
    <3>2. \/ recorded'[t] = recorded[t]
          \/ recorded'[t] = recorded[t] + 1 /\ recorded[t] < Len(EventLens)
      BY <1>0, <1>1 DEF Record, Typed
    <3> QED BY <3>1, <3>2
  <2>3. Ends[recorded[t]] \in Nat /\ Ends[recorded'[t]] \in Nat
            /\ Ends[recorded[t]] <= Ends[recorded'[t]]
    BY <2>2, EndsGrow
  <2>4. rd'[t] = rd[t] /\ rd[t] \in Nat /\ rd[t] <= Ends[recorded[t]]
    BY <1>0, <1>1, Consts DEF Record, Typed, StreamInv
  <2> QED BY <2>1, <2>3, <2>4
<1>2. ASSUME Quiet PROVE StreamInv'
    BY <1>0, <1>2, QuietStreams
<1>3. ASSUME NEW c \in CPUs, TracerRead(c) PROVE StreamInv'
  <2>1. PICK s \in Streams, n \in 1..BufSize :
               /\ rd[s] + n <= Ends[recorded[s]]
               /\ rd' = [rd EXCEPT ![s] = rd[s] + n]
               /\ list' = [list EXCEPT ![s] = Append(list[s], Bytes(rd[s], n))]
               /\ InOrder(Handling(s), taken, list'[s], rd'[s])
               /\ Pos(Handling(s), taken, list'[s], rd'[s]) = PosOf(s)
    BY <1>3, ReadEffect
  <2>2. \A t \in Streams : Handling(t)' = Handling(t)
    BY <1>3 DEF TracerRead, mvars, Handling
  <2>3. taken' = taken /\ prev' = prev /\ recorded' = recorded
    BY <1>3 DEF TracerRead, mvars
  <2> SUFFICES ASSUME NEW t \in Streams
               PROVE /\ InOrder(Handling(t)', taken', list'[t], rd'[t])
                     /\ Before(prev'[t], PosOf(t)')
                     /\ rd'[t] <= Ends[recorded'[t]]
    BY DEF StreamInv
  <2>4. PosOf(t)' = Pos(Handling(t), taken, list'[t], rd'[t])
    BY <2>2, <2>3 DEF PosOf
  <2>5. CASE t = s
    <3>1. rd'[t] = rd[t] + n
      BY <1>0, <2>1, <2>5 DEF Typed
    <3> QED BY <1>0, <2>1, <2>2, <2>3, <2>4, <2>5, <3>1 DEF StreamInv
  <2>6. CASE t # s
    <3>1. list'[t] = list[t] /\ rd'[t] = rd[t]
      BY <1>0, <2>1, <2>6 DEF Typed
    <3> QED BY <1>0, <2>2, <2>3, <2>4, <3>1 DEF StreamInv, PosOf
  <2> QED BY <2>5, <2>6
<1>4. CASE MainTake /\ list[StreamAt(at)] # <<>>
  <2>1. PICK s \in Streams : s = StreamAt(at)
    BY <1>0, <1>4, StreamAtIn, Consts DEF MainTake, Typed
  <2>2. TakeEffect(s)
    BY <1>0, <1>4, <2>1, TakeSound
  <2>3. \A t \in Streams : PosOf(t)' = PosOf(t)
    BY <2>2 DEF TakeEffect
  <2> QED BY <1>0, <2>2, <2>3 DEF TakeEffect, StreamInv
<1>5. CASE HandleFile
  <2>1. \A t \in Streams : InOrder(Handling(t)', taken', list[t], rd[t])
            /\ Before(prev'[t], PosOf(t)')
    BY <1>0, <1>5, HandleEffect
  <2>2. list' = list /\ rd' = rd /\ recorded' = recorded
    BY <1>5 DEF HandleFile
  <2> QED BY <1>0, <2>1, <2>2 DEF StreamInv
<1> QED BY <1>0, <1>1, <1>2, <1>3, <1>4, <1>5, NextCases

\* Every step preserves MainInv.
LEMMA MainNext == IInv /\ [Next]_vars => MainInv'
<1> SUFFICES ASSUME IInv, [Next]_vars PROVE MainInv'
    OBVIOUS
<1>0. Typed /\ MainInv
    BY DEF IInv
<1>1. ASSUME NEW s \in Streams, Record(s) PROVE MainInv'
    BY <1>0, <1>1 DEF Record, MainInv, tvars, mvars
<1>2. CASE StopTraces
    BY <1>0, <1>2 DEF StopTraces, MainInv, tvars, mvars
<1>3. ASSUME NEW c \in CPUs, TracerRead(c) \/ TracerSkip(c) PROVE MainInv'
    BY <1>0, <1>3 DEF TracerRead, TracerSkip, MainInv, mvars
<1>4. ASSUME NEW c \in CPUs, TracerPassEnds(c) PROVE MainInv'
  <2>1. tlive[c] /\ ~final
    BY <1>0, <1>4 DEF TracerPassEnds, MainInv
  <2> QED BY <1>0, <1>4, <2>1 DEF TracerPassEnds, MainInv, mvars
<1>5. CASE MainWait
    BY <1>0, <1>5 DEF MainWait, MainInv, tvars, done
<1>6. CASE MainTake
    BY <1>0, <1>6 DEF MainTake, MainInv, tvars
<1>7. CASE HandleFile
  <2>1. taken' \in Seq(Chunks) /\ Len(taken') = Len(taken) - 1
            /\ Len(taken) \in Nat \ {0}
    BY <1>0, <1>7, HandleEffect DEF IInv
  <2>2. taken' = <<>> <=> Len(taken) = 1
    <3>1. \A q \in Seq(Chunks) : q = <<>> <=> Len(q) = 0
      OBVIOUS
    <3> QED BY <2>1, <3>1, SMTT(30)
  <2>3. mpc = "handle" /\ (mpc' = IF Len(taken) = 1 THEN "scan" ELSE "handle")
        /\ (Len(taken) # 1 => at' = at)
    BY <1>7 DEF HandleFile, NextBuffer
  <2> QED BY <1>0, <1>7, <2>2, <2>3 DEF HandleFile, MainInv, tvars
<1>8. CASE MainDecr
    BY <1>0, <1>8 DEF MainDecr, MainInv, tvars
<1>9. CASE MainLeaving
    BY <1>0, <1>9 DEF MainLeaving, MainInv, tvars
<1>10. CASE MainClean
    BY <1>0, <1>10 DEF MainClean, MainInv, tvars
<1>11. CASE UNCHANGED vars
    BY <1>0, <1>11 DEF vars, tvars, mvars, MainInv
<1> QED BY <1>1, <1>2, <1>3, <1>4, <1>5, <1>6, <1>7, <1>8, <1>9, <1>10, <1>11
        DEF Next, TracerStep, MainStep, Closed

\* What TracerInv says of one tracer.
TracerOf(c) ==
    /\ nentries[c] < tdev[c]
    /\ ~tlive[c] => /\ nentries[c] = 0 /\ stop # "no"
                    /\ \A d \in Devs : Unread(<<d, c>>) = 0
    /\ forced[c] => /\ stop = "told"
                    /\ nentries[c] = 0 =>
                          \A d \in 1..tdev[c] - 1 : Unread(<<d, c>>) = 0

\* Every step preserves TracerInv.
LEMMA TracerNext == IInv /\ [Next]_vars => TracerInv'
<1> SUFFICES ASSUME IInv, [Next]_vars, NEW c \in CPUs PROVE TracerOf(c)'
    BY DEF TracerInv, TracerOf
<1>0. Typed /\ MainInv /\ TracerOf(c)
    BY DEF IInv, TracerInv, TracerOf
<1>1. nentries[c] \in Nat /\ tdev[c] \in 1..NDevs + 1 /\ NDevs \in Nat
    BY <1>0, Consts DEF Typed
<1>2. ASSUME NEW s \in Streams, Record(s) PROVE TracerOf(c)'
    BY <1>0, <1>2 DEF Record, TracerOf, tvars
<1>3. CASE StopTraces
    BY <1>0, <1>3 DEF StopTraces, TracerOf, tvars, Unread
<1>4. ASSUME NEW e \in CPUs, TracerRead(e) PROVE TracerOf(c)'
  <2>1. PICK s \in Streams, n \in 1..BufSize :
            /\ s = <<tdev[e], e>> /\ tdev[e] \in Devs
            /\ rd' = [rd EXCEPT ![s] = rd[s] + n]
    BY <1>4, ReadEffect
  <2>2. recorded' = recorded /\ forced' = forced /\ tlive' = tlive
            /\ stop' = stop
        /\ tlive[e]
    BY <1>4 DEF TracerRead
  <2>3. CASE e = c
    <3>1. nentries'[c] = nentries[c] + 1 /\ tdev'[c] = tdev[c] + 1
      BY <1>0, <1>4, <2>3 DEF TracerRead, Typed
    <3> QED BY <1>0, <1>1, <2>2, <2>3, <3>1 DEF TracerOf
  <2>4. CASE e # c
    <3>1. nentries'[c] = nentries[c] /\ tdev'[c] = tdev[c]
      BY <1>0, <1>4, <2>4 DEF TracerRead, Typed
    <3>2. \A d : Unread(<<d, c>>)' = Unread(<<d, c>>)
      <4>1. \A d : <<d, c>> # s
        BY <2>1, <2>4
      <4>2. \A t : t # s => rd'[t] = rd[t]
        BY <1>0, <2>1 DEF Typed
      <4> QED BY <2>2, <4>1, <4>2 DEF Unread
    <3> QED BY <1>0, <2>2, <3>1, <3>2 DEF TracerOf
  <2> QED BY <2>3, <2>4
<1>5. ASSUME NEW e \in CPUs, TracerSkip(e) PROVE TracerOf(c)'
  <2>1. /\ tlive[e] /\ tdev[e] <= NDevs /\ Unread(<<tdev[e], e>>) = 0
        /\ tdev' = [tdev EXCEPT ![e] = @ + 1]
        /\ UNCHANGED <<recorded, rd, forced, tlive, stop, nentries>>
    BY <1>5 DEF TracerSkip
  <2>2. \A d : Unread(<<d, c>>)' = Unread(<<d, c>>)
    BY <2>1 DEF Unread
  <2>3. CASE e = c
    <3>1. tdev'[c] = tdev[c] + 1
      BY <1>0, <2>1, <2>3 DEF Typed
    <3>2. \A d \in 1..tdev'[c] - 1 : d = tdev[c] \/ d \in 1..tdev[c] - 1
      BY <1>1, <3>1
    <3> QED BY <1>0, <1>1, <2>1, <2>2, <2>3, <3>1, <3>2 DEF TracerOf
  <2>4. CASE e # c
    <3>1. tdev'[c] = tdev[c]
      BY <1>0, <2>1, <2>4 DEF Typed
    <3> QED BY <1>0, <2>1, <2>2, <3>1 DEF TracerOf
  <2> QED BY <2>3, <2>4
<1>6. ASSUME NEW e \in CPUs, TracerPassEnds(e) PROVE TracerOf(c)'
  <2>1. /\ tlive[e] /\ tdev[e] = NDevs + 1
        /\ nentries' = [nentries EXCEPT ![e] = 0]
            /\ tdev' = [tdev EXCEPT ![e] = 1]
        /\ forced' = [forced EXCEPT ![e] = stop = "told"]
        /\ tlive' = [tlive EXCEPT ![e] = ~forced[e] \/ nentries[e] > 0]
        /\ UNCHANGED <<recorded, rd, stop>>
    BY <1>6 DEF TracerPassEnds
  <2>2. \A d : Unread(<<d, c>>)' = Unread(<<d, c>>)
    BY <2>1 DEF Unread
  <2>3. CASE e = c
    <3>1. nentries'[c] = 0 /\ tdev'[c] = 1 /\ forced'[c] = (stop = "told")
          /\ tlive'[c] = (~forced[c] \/ nentries[c] > 0)
      BY <1>0, <2>1, <2>3 DEF Typed
    <3>2. ~tlive'[c] => forced[c] /\ nentries[c] = 0
      <4>1. ~tlive'[c] => forced[c] /\ ~(nentries[c] > 0)
        BY <3>1, Zenon
      <4> QED BY <1>1, <4>1
    <3>3. ~tlive'[c] => stop = "told" /\ \A d \in Devs : Unread(<<d, c>>) = 0
      <4>1. tdev[c] - 1 = NDevs
        BY <1>1, <2>1, <2>3
      <4> QED BY <1>0, <3>2, <4>1 DEF TracerOf, Devs
    <3>4. nentries'[c] < tdev'[c] /\ 1..tdev'[c] - 1 = {}
      BY <3>1
    <3>5. forced'[c] => stop' = "told"
      BY <2>1, <3>1
    <3>6. ~tlive'[c] => stop' # "no" /\ \A d \in Devs : Unread(<<d, c>>)' = 0
      BY <2>1, <2>2, <3>3
    <3> QED BY <3>1, <3>4, <3>5, <3>6 DEF TracerOf
  <2>4. CASE e # c
    <3>1. nentries'[c] = nentries[c] /\ tdev'[c] = tdev[c]
              /\ forced'[c] = forced[c]
          /\ tlive'[c] = tlive[c]
      BY <1>0, <2>1, <2>4 DEF Typed
    <3> QED BY <1>0, <2>1, <2>2, <3>1 DEF TracerOf
  <2> QED BY <2>3, <2>4
<1>7. CASE MainStep
  <2>1. UNCHANGED <<recorded, rd, tvars, stop>>
    BY <1>7 DEF MainStep, MainWait, MainTake, HandleFile, MainDecr,
       MainLeaving, MainClean
  <2> QED BY <1>0, <2>1 DEF TracerOf, Unread, tvars
<1>8. CASE UNCHANGED vars
    BY <1>0, <1>8 DEF vars, tvars, TracerOf, Unread
<1> QED BY <1>2, <1>3, <1>4, <1>5, <1>6, <1>7, <1>8
        DEF Next, TracerStep, Closed

\* The buffers on the lists.
Listed == SumOver([s \in Streams |-> Len(list[s])], Streams)

\* SumChange for the two sums of EntriesAccounted.
LEMMA SumChanges ==
    /\ \A f, h \in [CPUs -> Nat] : \A c \in CPUs :
          (\A d \in CPUs \ {c} : h[d] = f[d])
              => SumOver(h, CPUs) = SumOver(f, CPUs) - f[c] + h[c]
    /\ \A f, h \in [Streams -> Nat] : \A s \in Streams :
          (\A t \in Streams \ {s} : h[t] = f[t])
              => SumOver(h, Streams) = SumOver(f, Streams) - f[s] + h[s]
<1>1. ASSUME NEW f \in [CPUs -> Nat], NEW h \in [CPUs -> Nat], NEW c \in CPUs,
             \A d \in CPUs \ {c} : h[d] = f[d]
      PROVE  SumOver(h, CPUs) = SumOver(f, CPUs) - f[c] + h[c]
    BY <1>1, SumChange, Finite
<1>2. ASSUME NEW f \in [Streams -> Nat], NEW h \in [Streams -> Nat],
             NEW s \in Streams,
             \A t \in Streams \ {s} : h[t] = f[t]
      PROVE  SumOver(h, Streams) = SumOver(f, Streams) - f[s] + h[s]
    BY <1>2, SumChange, Finite
<1> QED BY <1>1, <1>2

\* The terms of EntriesAccounted are integers.
LEMMA SumsNat ==
    ASSUME Typed
    PROVE  /\ SumOver(nentries, CPUs) \in Nat /\ Listed \in Nat
           /\ dp_entries \in Int /\ handled \in Nat /\ Len(taken) \in Nat
<1>1. nentries \in [CPUs -> Nat]
          /\ [s \in Streams |-> Len(list[s])] \in [Streams -> Nat]
      /\ dp_entries \in Int /\ handled \in Nat /\ Len(taken) \in Nat
    BY DEF Typed
<1> QED BY <1>1, SumType, Finite DEF Listed

\* One list changed: the number of buffers changes by as much.
LEMMA ListedChange ==
    ASSUME list \in [Streams -> Seq(Chunks)], NEW s \in Streams,
           NEW q \in Seq(Chunks),
           list' = [list EXCEPT ![s] = q]
    PROVE  Listed' = Listed - Len(list[s]) + Len(q)
<1> DEFINE f == [t \in Streams |-> Len(list[t])]
           g == [t \in Streams |-> Len(list'[t])]
<1>1. list' \in [Streams -> Seq(Chunks)] /\ list'[s] = q
          /\ \A t \in Streams \ {s} : list'[t] = list[t]
    OBVIOUS
<1>2. /\ f \in [Streams -> Nat] /\ g \in [Streams -> Nat]
      /\ f[s] = Len(list[s]) /\ g[s] = Len(q)
          /\ \A t \in Streams \ {s} : g[t] = f[t]
    BY <1>1
<1>3. Listed = SumOver(f, Streams) /\ Listed' = SumOver(g, Streams)
    BY DEF Listed
<1> HIDE DEF f, g
<1>4. SumOver(g, Streams) = SumOver(f, Streams) - f[s] + g[s]
    BY <1>2, SumChanges, Zenon
<1> QED BY <1>2, <1>3, <1>4

\* One tracer's count changed: their sum changes by as much.
LEMMA SentChange ==
    ASSUME nentries \in [CPUs -> Nat], NEW c \in CPUs, NEW n \in Nat,
           nentries' = [nentries EXCEPT ![c] = n]
    PROVE  SumOver(nentries, CPUs)' = SumOver(nentries, CPUs) - nentries[c] + n
<1>1. /\ nentries' \in [CPUs -> Nat] /\ nentries'[c] = n
      /\ \A d \in CPUs \ {c} : nentries'[d] = nentries[d]
    OBVIOUS
<1>2. SumOver(nentries', CPUs)
          = SumOver(nentries, CPUs) - nentries[c] + nentries'[c]
    BY <1>1, SumChanges, Zenon
<1> QED BY <1>1, <1>2

\* Every step preserves EntriesAccounted.
LEMMA EntriesNext == IInv /\ [Next]_vars => EntriesAccounted'
<1> SUFFICES ASSUME IInv, [Next]_vars PROVE EntriesAccounted'
    OBVIOUS
<1> DEFINE Sent == SumOver(nentries, CPUs)
<1>0. Typed /\ StreamInv /\ MainInv /\ nentries \in [CPUs -> Nat]
    BY DEF IInv, Typed
<1>1. dp_entries + Sent = Listed + Len(taken) + handled
    BY DEF IInv, EntriesAccounted, Listed
<1>2. Sent \in Nat /\ Listed \in Nat /\ dp_entries \in Int /\ handled \in Nat
          /\ Len(taken) \in Nat
    BY <1>0, SumsNat
<1> SUFFICES dp_entries' + Sent' = Listed' + Len(taken') + handled'
    BY DEF EntriesAccounted, Listed
<1>3. ASSUME UNCHANGED <<dp_entries, nentries, list, taken, handled>>
      PROVE  dp_entries' + Sent' = Listed' + Len(taken') + handled'
    BY <1>1, <1>3 DEF Listed
<1>4. ASSUME NEW s \in Streams, Record(s)
          PROVE UNCHANGED <<dp_entries, nentries, list, taken, handled>>
    BY <1>4 DEF Record, tvars, mvars
<1>5. ASSUME NEW c \in CPUs, TracerRead(c)
      PROVE  dp_entries' + Sent' = Listed' + Len(taken') + handled'
  <2>1. PICK s \in Streams, n \in 1..BufSize :
               /\ list' = [list EXCEPT ![s] = Append(list[s], Bytes(rd[s], n))]
               /\ list' \in [Streams -> Seq(Chunks)]
               /\ Len(list'[s]) = Len(list[s]) + 1
    BY <1>5, ReadEffect
  <2>2. list'[s] = Append(list[s], Bytes(rd[s], n)) /\ list'[s] \in Seq(Chunks)
        /\ list \in [Streams -> Seq(Chunks)] /\ Len(list[s]) \in Nat
    BY <1>0, <2>1 DEF Typed
  <2>3. Listed' = Listed - Len(list[s]) + Len(list'[s])
    BY <2>1, <2>2, ListedChange
  <2>4. nentries' = [nentries EXCEPT ![c] = nentries[c] + 1]
            /\ nentries[c] \in Nat
        /\ UNCHANGED <<dp_entries, taken, handled>>
    BY <1>0, <1>5 DEF TracerRead, mvars
  <2>5. Sent' = Sent - nentries[c] + (nentries[c] + 1)
    <3>1. nentries[c] + 1 \in Nat
      BY <2>4
    <3> QED BY <1>0, <2>4, <3>1, SentChange
  <2>6. Len(list'[s]) = Len(list[s]) + 1 /\ Len(list[s]) \in Nat
    BY <2>1, <2>2
  <2>7. dp_entries' = dp_entries /\ taken' = taken /\ handled' = handled
            /\ nentries[c] \in Nat
    BY <2>4
  <2> HIDE DEF Sent
  <2>8. Listed' = Listed + 1
    <3>1. PICK a, b : a = Len(list[s]) /\ b = Len(list'[s])
      OBVIOUS
    <3>2. Listed' = Listed - a + b /\ b = a + 1 /\ a \in Nat
      BY <2>3, <2>6, <3>1
    <3> QED BY <1>2, <3>2
  <2>9. Sent' = Sent + 1
    BY <1>2, <2>5, <2>7
  <2> QED BY <1>1, <1>2, <2>7, <2>8, <2>9
<1>6. ASSUME NEW c \in CPUs, TracerPassEnds(c)
      PROVE  dp_entries' + Sent' = Listed' + Len(taken') + handled'
  <2>1. nentries' = [nentries EXCEPT ![c] = 0] /\ nentries[c] \in Nat
        /\ dp_entries' = dp_entries + nentries[c]
            /\ UNCHANGED <<list, taken, handled>>
    BY <1>0, <1>6 DEF TracerPassEnds, mvars
  <2>2. Sent' = Sent - nentries[c] + 0
    BY <1>0, <2>1, SentChange
  <2>3. Listed' = Listed
    BY <2>1 DEF Listed
  <2> HIDE DEF Sent
  <2> QED BY <1>1, <1>2, <2>1, <2>2, <2>3
<1>7. CASE MainTake /\ list[StreamAt(at)] # <<>>
  <2>1. PICK s \in Streams : s = StreamAt(at)
    BY <1>0, <1>7, StreamAtIn, Consts DEF MainTake, Typed
  <2>2. taken = <<>> /\ taken' = list[s] /\ list' = [list EXCEPT ![s] = <<>>]
    BY <1>0, <1>7, <2>1, TakeSound DEF TakeEffect
  <2>3. list \in [Streams -> Seq(Chunks)] /\ <<>> \in Seq(Chunks)
            /\ Len(<<>>) = 0
        /\ Len(list[s]) \in Nat
    BY <1>0 DEF Typed
  <2>4. Listed' = Listed - Len(list[s]) + 0
    BY <2>2, <2>3, ListedChange
  <2>5. UNCHANGED <<dp_entries, nentries, handled>>
    BY <1>7 DEF MainTake, tvars
  <2>6. Sent' = Sent
    BY <2>5
  <2> HIDE DEF Sent
  <2> QED BY <1>1, <1>2, <2>2, <2>3, <2>4, <2>5, <2>6
<1>8. CASE HandleFile
  <2>1. Len(taken') = Len(taken) - 1 /\ Len(taken) \in Nat \ {0}
    BY <1>0, <1>8, HandleEffect
  <2>2. handled' = handled + 1 /\ UNCHANGED <<dp_entries, nentries, list>>
    BY <1>8 DEF HandleFile, NextBuffer, tvars
  <2>3. Sent' = Sent /\ Listed' = Listed
    BY <2>2 DEF Listed
  <2> HIDE DEF Sent
  <2> QED BY <1>1, <1>2, <2>1, <2>2, <2>3
<1>9. CASE MainDecr
  <2>1. handled' = 0 /\ dp_entries' = dp_entries - handled
            /\ UNCHANGED <<nentries, list, taken>>
    BY <1>9 DEF MainDecr, tvars
  <2>2. Sent' = Sent /\ Listed' = Listed
    BY <2>1 DEF Listed
  <2> HIDE DEF Sent
  <2> QED BY <1>1, <1>2, <2>1, <2>2
<1>10. CASE MainWait
  <2>1. handled' = handled
    BY <1>0, <1>10 DEF MainWait, MainInv
  <2> QED BY <1>3, <1>10, <2>1 DEF MainWait, tvars
<1>11. CASE MainClean
  <2>1. handled' = handled
    BY <1>0, <1>11 DEF MainClean, MainInv
  <2> QED BY <1>3, <1>11, <2>1 DEF MainClean, tvars
<1>12. CASE \/ StopTraces
            \/ \E c \in CPUs : TracerSkip(c)
            \/ MainTake /\ list[StreamAt(at)] = <<>>
            \/ MainLeaving
            \/ UNCHANGED vars
    BY <1>3, <1>12 DEF StopTraces, TracerSkip, MainTake, MainLeaving, vars,
       tvars, mvars
<1> HIDE DEF Sent
<1> QED BY <1>3, <1>4, <1>5, <1>6, <1>7, <1>8, <1>9, <1>10, <1>11, <1>12
        DEF Next, TracerStep, MainStep, Closed

-----------------------------------------------------------------------------
(* The end of the trace.                                                   *)

\* A chain starts before it ends.
LEMMA FromBelow ==
    ASSUME NEW q \in Seq(Chunks), NEW e \in Nat, Chain(q, e)
    PROVE  From(q, e) <= e
<1>1. CASE q = <<>>
    BY <1>1 DEF From
<1>2. CASE q # <<>>
  <2> DEFINE K == {k \in 0..Len(q) - 1 : LastByte(q[Len(q) - k]) <= e}
  <2>1. Len(q) \in Nat \ {0} /\ Len(q) - 1 \in Nat
    BY <1>2
  <2>2. \A i \in 1..Len(q) : /\ q[i][1] \in Nat /\ LastByte(q[i]) \in Nat
            /\ q[i][1] <= LastByte(q[i])
    <3> TAKE i \in 1..Len(q)
    <3>1. q[i] \in Chunks
      OBVIOUS
    <3>2. q[i][1] \in 1..Total /\ LastByte(q[i]) \in 1..Total
              /\ Len(q[i]) \in 1..BufSize
          /\ LastByte(q[i]) = q[i][1] - 1 + Len(q[i])
      BY <3>1, ChunkFacts
    <3> QED BY <3>2, Consts
  <2>3. 0 \in K
    <3>1. LastByte(q[Len(q)]) = e
      BY <2>1 DEF Chain
    <3> QED BY <2>1, <3>1
  <2>4. ASSUME NEW k \in 0..(Len(q) - 1) - 1, k \in K
        PROVE  k + 1 \in K
    <3> DEFINE i == Len(q) - (k + 1)
    <3>1. i \in 1..Len(q) /\ i # Len(q) /\ i + 1 = Len(q) - k
              /\ i + 1 \in 1..Len(q) /\ k + 1 \in 0..Len(q) - 1
      BY <2>1
    <3>2. LastByte(q[i]) = q[i + 1][1] - 1
      BY <3>1 DEF Chain
    <3>3. LastByte(q[i + 1]) <= e
      BY <2>4, <3>1
    <3> HIDE DEF i
    <3>4. LastByte(q[i]) <= e
      BY <2>2, <3>1, <3>2, <3>3
    <3> QED BY <3>1, <3>4 DEF i
  <2>5. Len(q) - 1 \in K
    <3> HIDE DEF K
    <3>1. 0..Len(q) - 1 \subseteq K
      BY <2>1, <2>3, <2>4, InductionUpTo
    <3> QED BY <2>1, <3>1
  <2>6. LastByte(q[1]) <= e /\ 1 \in 1..Len(q)
    <3>1. Len(q) - (Len(q) - 1) = 1
      BY <2>1
    <3> QED BY <2>1, <2>5, <3>1
  <2> QED BY <1>2, <2>2, <2>6 DEF From
<1> QED BY <1>1, <1>2

\* What has been handled has been recorded.
LEMMA PosBelow ==
    ASSUME IInv, NEW s \in Streams
    PROVE  /\ PosOf(s) \in Nat /\ PosOf(s) <= Ends[recorded[s]]
           /\ recorded[s] \in 0..Len(EventLens) /\ Ends[recorded[s]] \in Nat
<1>1. /\ taken \in Seq(Chunks) /\ list[s] \in Seq(Chunks) /\ rd[s] \in Nat
      /\ InOrder(Handling(s), taken, list[s], rd[s]) /\ Handling(s) \in BOOLEAN
      /\ rd[s] <= Ends[recorded[s]] /\ recorded[s] \in 0..Len(EventLens)
    BY Consts DEF IInv, Typed, StreamInv, Handling
<1>2. PosOf(s) \in Nat /\ Ends[recorded[s]] \in Nat
    BY <1>1, PosNat, EndsGrow DEF PosOf
<1>3. From(list[s], rd[s]) \in Nat /\ From(list[s], rd[s]) <= rd[s]
  <2>1. Pos(FALSE, taken, list[s], rd[s]) \in Nat
    BY <1>1, PosNat
  <2> QED BY <1>1, <2>1, FromBelow DEF InOrder, Pos
<1>4. CASE Handling(s)
  <2>1. From(taken, From(list[s], rd[s])) <= From(list[s], rd[s])
    BY <1>1, <1>3, <1>4, FromBelow DEF InOrder
  <2>2. PosOf(s) = From(taken, From(list[s], rd[s]))
    BY <1>4 DEF PosOf, Pos
  <2> QED BY <1>1, <1>2, <1>3, <2>1, <2>2
<1>5. CASE ~Handling(s)
    BY <1>1, <1>2, <1>3, <1>5 DEF PosOf, Pos
<1> QED BY <1>1, <1>2, <1>4, <1>5

\* clean_trace_bufs sees dp_entries at zero: every list is empty, every
\* tracer has left with nothing unread, so all events recorded are counted.
LEMMA DrainedAtEnd ==
    ASSUME IInv, ExactInv, mpc = "clean", dp_entries = 0
    PROVE  nevents = recorded
<1>1. /\ final /\ handled = 0 /\ taken = <<>> /\ \A c \in CPUs : ~tlive[c]
    BY DEF IInv, MainInv
<1>2. \A c \in CPUs : nentries[c] = 0 /\ \A d \in Devs : Unread(<<d, c>>) = 0
    BY <1>1 DEF IInv, TracerInv
<1>3. nentries \in [CPUs -> Nat]
          /\ [s \in Streams |-> Len(list[s])] \in [Streams -> Nat]
    BY DEF IInv, Typed
<1>4. SumOver(nentries, CPUs) = 0
    BY <1>2, <1>3, SumZero, Finite
<1>5. Listed = 0
  <2>1. dp_entries + SumOver(nentries, CPUs) = Listed + Len(taken) + handled
            /\ Listed \in Nat
    BY SumsNat DEF IInv, EntriesAccounted, Listed
  <2>2. Len(taken) = 0
    BY <1>1
  <2> QED BY <1>1, <1>4, <2>1, <2>2
<1>6. \A s \in Streams : [t \in Streams |-> Len(list[t])][s] = 0
  <2> DEFINE f == [t \in Streams |-> Len(list[t])]
  <2>1. f \in [Streams -> Nat] /\ SumOver(f, Streams) = 0
    BY <1>3, <1>5 DEF Listed
  <2> HIDE DEF f
  <2>2. \A s \in Streams : f[s] = 0
    BY <2>1, SumZero, Finite
  <2> QED BY <2>2 DEF f
<1>7. ASSUME NEW s \in Streams PROVE nevents[s] = recorded[s]
  <2>1. list[s] = <<>>
    <3>1. list[s] \in Seq(Chunks) /\ Len(list[s]) = 0
      BY <1>6 DEF IInv, Typed
    <3> QED BY <3>1
  <2>2. PosOf(s) = rd[s]
    BY <2>1 DEF PosOf, Pos, Handling, From
  <2>3. PICK d \in Devs, c \in CPUs : s = <<d, c>>
    BY DEF Streams
  <2>4. Unread(s) = 0
    BY <1>2, <2>3
  <2>5. PosOf(s) \in Nat /\ Ends[recorded[s]] \in Nat
            /\ recorded[s] \in 0..Len(EventLens)
    BY PosBelow
  <2>6. PosOf(s) = Ends[recorded[s]]
    BY <2>2, <2>4, <2>5 DEF Unread
  <2>7. Exact(PosOf(s), prev[s], out[s], nevents[s])
            /\ prev[s] \in Seq(1..Total)
    BY DEF ExactInv, IInv, Typed
  <2>8. nevents[s] \in 0..Len(EventLens) /\ recorded[s] <= nevents[s]
        /\ PosOf(s) = Ends[nevents[s]] + Len(prev[s])
    <3>1. /\ nevents[s] \in 0..Len(EventLens)
              /\ PosOf(s) = Ends[nevents[s]] + Len(prev[s])
          /\ \A m \in 0..Len(EventLens) : Ends[m] <= PosOf(s)
              => m <= nevents[s]
      BY <2>7 DEF Exact
    <3>2. Ends[recorded[s]] <= PosOf(s)
      BY <2>5, <2>6
    <3> QED BY <2>5, <3>1, <3>2
  <2>9. Ends[nevents[s]] <= Ends[recorded[s]]
    <3>1. Ends[nevents[s]] \in Nat /\ Len(prev[s]) \in Nat
      BY <2>7, <2>8, EndsGrow
    <3> QED BY <2>6, <2>8, <3>1
  <2>10. nevents[s] <= recorded[s]
    BY <2>5, <2>8, <2>9, EndsGrow
  <2> QED BY <2>5, <2>8, <2>10, Consts
<1> QED BY <1>7 DEF IInv, Typed

\* Every step preserves ExactInv when no write fails.
LEMMA ExactNext == ~WriteFails /\ IInv /\ ExactInv /\ [Next]_vars => ExactInv'
<1> SUFFICES ASSUME ~WriteFails, IInv, ExactInv, [Next]_vars PROVE ExactInv'
    OBVIOUS
<1>0. Typed /\ StreamInv /\ MainInv
    BY DEF IInv
<1> DEFINE ExactAll == \A s \in Streams
        : Exact(PosOf(s), prev[s], out[s], nevents[s])
<1>1. ASSUME \A s \in Streams : PosOf(s)' = PosOf(s),
             UNCHANGED <<prev, out, nevents>>
      PROVE  ExactAll'
    BY <1>1 DEF ExactInv
<1>2. ExactAll'
  <2>1. ASSUME NEW s \in Streams, Record(s) PROVE ExactAll'
    <3>1. \A t \in Streams : PosOf(t)' = PosOf(t)
      BY <2>1 DEF Record, mvars, Handling, PosOf
    <3> QED BY <1>1, <2>1, <3>1 DEF Record
  <2>2. CASE Quiet
    BY <1>0, <1>1, <2>2, QuietStreams DEF Quiet
  <2>3. ASSUME NEW c \in CPUs, TracerRead(c) PROVE ExactAll'
    <3>1. PICK s \in Streams, n \in 1..BufSize :
               /\ rd' = [rd EXCEPT ![s] = rd[s] + n]
               /\ list' = [list EXCEPT ![s] = Append(list[s], Bytes(rd[s], n))]
               /\ Pos(Handling(s), taken, list'[s], rd'[s]) = PosOf(s)
      BY <2>3, ReadEffect
    <3>2. \A t \in Streams : Handling(t)' = Handling(t)
      BY <2>3 DEF TracerRead, mvars, Handling
    <3>3. UNCHANGED <<taken, prev, out, nevents>>
      BY <2>3 DEF TracerRead, mvars
    <3>4. ASSUME NEW t \in Streams PROVE PosOf(t)' = PosOf(t)
      <4>1. t # s => list'[t] = list[t] /\ rd'[t] = rd[t]
        BY <1>0, <3>1 DEF Typed
      <4> QED BY <3>1, <3>2, <3>3, <4>1 DEF PosOf
    <3> QED BY <1>1, <3>3, <3>4
  <2>4. CASE MainTake /\ list[StreamAt(at)] # <<>>
    <3>1. PICK s \in Streams : s = StreamAt(at)
      BY <1>0, <2>4, StreamAtIn, Consts DEF MainTake, Typed
    <3>2. TakeEffect(s)
      BY <1>0, <2>4, <3>1, TakeSound
    <3> QED BY <1>1, <3>2 DEF TakeEffect
  <2>5. CASE HandleFile
    BY <1>0, <2>5, HandleEffect DEF ExactInv
  <2> QED BY <1>0, <2>1, <2>2, <2>3, <2>4, <2>5, NextCases
<1>3. StatsExact'
  <2>1. CASE MainClean
    <3>1. nevents' = nevents /\ recorded' = recorded
              /\ (mpc' = "closed" => dp_entries = 0) /\ mpc = "clean"
      BY <2>1 DEF MainClean
    <3> QED BY <3>1, DrainedAtEnd DEF StatsExact
  <2>2. ASSUME NEW s \in Streams, Record(s) PROVE StatsExact'
    <3>1. mpc # "closed" /\ mpc' = mpc
      BY <1>0, <2>2 DEF Record, MainInv, mvars
    <3> QED BY <3>1 DEF StatsExact
  <2>3. CASE MainWait \/ MainTake \/ HandleFile \/ MainDecr \/ MainLeaving
    <3>1. mpc' # "closed"
      BY <2>3 DEF MainWait, MainTake, HandleFile, NextBuffer, MainDecr,
         MainLeaving
    <3> QED BY <3>1 DEF StatsExact
  <2>4. CASE StopTraces \/ (\E c \in CPUs : TracerStep(c)) \/ UNCHANGED vars
    <3>1. UNCHANGED <<recorded, nevents, mpc>>
              \/ UNCHANGED <<nevents, mpc, recorded>>
      BY <2>4 DEF StopTraces, TracerStep, TracerRead, TracerSkip,
         TracerPassEnds, vars, mvars
    <3> QED BY <3>1 DEF ExactInv, StatsExact
  <2> QED BY <2>1, <2>2, <2>3, <2>4 DEF Next, MainStep, Closed
<1> QED BY <1>2, <1>3 DEF ExactInv

-----------------------------------------------------------------------------
(* The theorems.                                                           *)

\* The type invariant the runs check.
LEMMA IInvTypeOK == IInv => TypeOK
<1> SUFFICES ASSUME IInv PROVE TypeOK
    OBVIOUS
<1>1. \A s \in Streams : \A i \in DOMAIN list[s] : list[s][i] \in Buffers
  <2>1. ASSUME NEW s \in Streams, NEW i \in DOMAIN list[s]
            PROVE list[s][i] \in Chunks
    <3>1. list[s] \in Seq(Chunks)
      BY DEF IInv, Typed
    <3> QED BY <3>1
  <2> QED BY <2>1 DEF Chunks
<1>2. \A i \in DOMAIN taken : taken[i] \in Buffers
  <2>1. ASSUME NEW i \in DOMAIN taken PROVE taken[i] \in Chunks
    BY DEF IInv, Typed
  <2> QED BY <2>1 DEF Chunks
<1>3. nentries \in [CPUs -> 0..NDevs]
  <2>1. ASSUME NEW c \in CPUs PROVE nentries[c] \in 0..NDevs
    <3>1. nentries[c] \in Nat /\ tdev[c] \in 1..NDevs + 1
              /\ nentries[c] < tdev[c]
      BY DEF IInv, Typed, TracerInv
    <3> QED BY <3>1, Consts
  <2> QED BY <2>1 DEF IInv, Typed
<1> QED BY <1>1, <1>2, <1>3 DEF TypeOK, IInv, Typed, Total

\* The invariant is inductive.
LEMMA IInvNext == IInv /\ [Next]_vars => IInv'
BY TypedNext, StreamNext, MainNext, TracerNext, EntriesNext DEF IInv

\* dp_entries and the tracers' counts always add up to the buffers not yet
\* counted down (incr_entries, decr_entries), whether or not writes fail.
THEOREM EntriesHold == Spec => [](TypeOK /\ EntriesAccounted)
<1>1. IInv => TypeOK /\ EntriesAccounted
    BY IInvTypeOK DEF IInv
<1> QED BY <1>1, InitIInv, IInvNext, PTL DEF Spec

\* Both invariants hold when no write fails.
LEMMA ExactHolds == ~WriteFails => (Spec => [](IInv /\ ExactInv))
<1> SUFFICES ASSUME ~WriteFails PROVE Spec => [](IInv /\ ExactInv)
    OBVIOUS
<1>1. (IInv /\ ExactInv) /\ [Next]_vars => (IInv /\ ExactInv)'
    BY IInvNext, ExactNext
<1> QED BY <1>1, InitIInv, PTL DEF Spec

\* No buffer and no event is counted twice or forgotten between the tracers
\* and the main thread, up to what show_stats prints (no write failing).
THEOREM BuffersAccountedHolds == ~WriteFails => (Spec => []BuffersAccounted)
<1>1. IInv /\ ExactInv => BuffersAccounted
    BY IInvTypeOK DEF BuffersAccounted, IInv, ExactInv
<1> QED BY <1>1, ExactHolds, PTL

\* What handle_list_file keeps for the next pass starts with an event (no write
\* failing).
THEOREM LeftoversHold == ~WriteFails => (Spec => []LeftoverStartsAtEvent)
<1>1. ASSUME IInv, ExactInv PROVE LeftoverStartsAtEvent
  <2> SUFFICES ASSUME NEW s \in Streams, prev[s] # <<>>
               PROVE  \E n \in DOMAIN Ends : prev[s][1] = Ends[n] + 1
    BY DEF LeftoverStartsAtEvent
  <2>1. Before(prev[s], PosOf(s)) /\ prev[s] \in Seq(1..Total)
        /\ Exact(PosOf(s), prev[s], out[s], nevents[s])
    BY <1>1 DEF IInv, Typed, StreamInv, ExactInv
  <2>2. Len(prev[s]) \in Nat /\ 1 \in 1..Len(prev[s]) /\ PosOf(s) \in Nat
    BY <1>1, <2>1, PosBelow
  <2>3. prev[s][1] = PosOf(s) - Len(prev[s]) + 1
    BY <2>1, <2>2 DEF Before, Run
  <2>4. nevents[s] \in 0..Len(EventLens)
            /\ PosOf(s) = Ends[nevents[s]] + Len(prev[s])
        /\ Ends[nevents[s]] \in Nat
    BY <2>1, EndsGrow DEF Exact
  <2>5. prev[s][1] = Ends[nevents[s]] + 1
    BY <2>2, <2>3, <2>4
  <2>6. DOMAIN Ends = 0..Len(EventLens)
    BY EndsDef
  <2> QED BY <2>4, <2>5, <2>6
<1> QED BY <1>1, ExactHolds, PTL

\* What has come out of each stream is its first nevents events.
LEMMA EventsOutIs ==
    IInv /\ ExactInv => [s \in Streams |-> EventsOut(s)] = nevents
<1> SUFFICES ASSUME IInv, ExactInv, NEW s \in Streams
        PROVE EventsOut(s) = nevents[s]
    BY DEF IInv, Typed
<1>1. out[s] \in Seq(1..Total) /\ Exact(PosOf(s), prev[s], out[s], nevents[s])
    BY DEF IInv, Typed, ExactInv
<1>2. /\ nevents[s] \in 0..Len(EventLens) /\ Len(out[s]) = Ends[nevents[s]]
      /\ \A i \in 1..Len(out[s]) : out[s][i] = 0 + i
    BY <1>1 DEF Exact, Run
<1>3. out[s] = [i \in 1..Len(out[s]) |-> out[s][i]]
          /\ DOMAIN out[s] = 1..Len(out[s])
    BY <1>1
<1>4. out[s] = Bytes(0, Ends[nevents[s]])
    BY <1>2, <1>3 DEF Bytes
<1>5. DOMAIN Ends = 0..Len(EventLens)
          /\ \A n \in 0..Len(EventLens) : Ends[n] \in Nat
    BY EndsDef, EndsGrow
<1>6. ASSUME NEW n \in DOMAIN Ends, out[s] = Bytes(0, Ends[n])
      PROVE  n = nevents[s]
  <2>1. \A m \in Nat : Len(Bytes(0, m)) = m
    BY DEF Bytes
  <2>2. Ends[n] = Ends[nevents[s]]
    BY <1>2, <1>4, <1>5, <1>6, <2>1
  <2> QED BY <1>2, <1>5, <1>6, <2>2, EndsGrow
<1> DEFINE whole == {n \in DOMAIN Ends : out[s] = Bytes(0, Ends[n])}
<1>7. whole = {nevents[s]}
    BY <1>2, <1>4, <1>5, <1>6
<1>8. EventsOut(s) = IF whole = {} THEN Len(EventLens) + 1
          ELSE CHOOSE n \in whole : TRUE
    BY DEF EventsOut
<1> HIDE DEF whole
<1> QED BY <1>7, <1>8

\* PosBelow for every stream, as one formula.
AllBelow ==
    \A s \in Streams :
        /\ PosOf(s) \in Nat /\ PosOf(s) <= Ends[recorded[s]]
        /\ recorded[s] \in 0..Len(EventLens) /\ Ends[recorded[s]] \in Nat

\* It follows from the invariant.
LEMMA PosBelowAll == IInv => AllBelow
BY PosBelow DEF AllBelow

\* Every step of the piped output is a step of EventStream or changes nothing
\* it sees.
LEMMA StreamStep ==
    ASSUME ~WriteFails, IInv, ExactInv, IInv', ExactInv', [Next]_vars
    PROVE  [EventStreamAbs!Next]_(EventStreamAbs!vars)
<1> DEFINE emitted == [s \in Streams |-> EventsOut(s)]
<1>1. emitted = nevents /\ emitted' = nevents'
  <2>1. (IInv /\ ExactInv => [s \in Streams |-> EventsOut(s)] = nevents)'
    BY EventsOutIs, PTL
  <2> QED BY <2>1, EventsOutIs
<1> HIDE DEF emitted
<1>0. Typed /\ StreamInv /\ MainInv /\ nevents \in [Streams -> Nat]
    BY DEF IInv, Typed
<1> USE DEF EventStreamAbs!Next, EventStreamAbs!vars
<1>2. ASSUME UNCHANGED <<recorded, nevents, mpc = "closed">>
      PROVE  UNCHANGED EventStreamAbs!vars
    BY <1>1, <1>2 DEF emitted
<1>3. ASSUME NEW s \in Streams, Record(s) PROVE EventStreamAbs!Record(s)
  <2>1. mpc # "closed" /\ mpc' = mpc /\ nevents' = nevents
        /\ recorded' = [recorded EXCEPT ![s] = @ + 1]
    BY <1>0, <1>3 DEF Record, MainInv, mvars
  <2> QED BY <1>1, <2>1 DEF EventStreamAbs!Record, emitted
<1>4. CASE HandleFile
  <2>1. PICK s \in Streams,
            n \in Nat : nevents' = [nevents EXCEPT ![s] = @ + n]
    BY <1>0, <1>4, HandleEffect
  <2>2. mpc # "closed" /\ mpc' # "closed" /\ recorded' = recorded
    BY <1>4 DEF HandleFile, NextBuffer
  <2>3. nevents'[s] = nevents[s] + n /\ nevents[s] \in Nat
    BY <1>0, <2>1
  <2>4. CASE n = 0
    <3>1. nevents' = nevents
      BY <1>0, <2>1, <2>4
    <3> QED BY <1>2, <2>2, <3>1
  <2>5. CASE n # 0
    <3>1. nevents'[s] <= recorded[s] /\ recorded[s] \in Nat
      <4>1. /\ PosOf(s)' \in Nat /\ PosOf(s)' <= Ends[recorded[s]]
            /\ recorded[s] \in 0..Len(EventLens) /\ Ends[recorded[s]] \in Nat
        <5>1. (IInv => AllBelow)'
          BY PosBelowAll, PTL
        <5> QED BY <2>2, <5>1 DEF AllBelow
      <4>2. /\ nevents'[s] \in 0..Len(EventLens)
                /\ PosOf(s)' = Ends[nevents'[s]] + Len(prev'[s])
            /\ prev'[s] \in Seq(1..Total)
        BY DEF ExactInv, Exact, IInv, Typed
      <4>3. Ends[nevents'[s]] \in Nat /\ Len(prev'[s]) \in Nat
        BY <4>2, EndsGrow
      <4>4. Ends[nevents'[s]] <= Ends[recorded[s]]
        BY <4>1, <4>2, <4>3
      <4> QED BY <4>1, <4>2, <4>4, EndsGrow, Consts
    <3>2. nevents'[s] \in nevents[s] + 1..recorded[s]
      BY <2>3, <2>5, <3>1
    <3>3. nevents' = [nevents EXCEPT ![s] = nevents'[s]]
      BY <1>0, <2>1, <2>3
    <3>4. EventStreamAbs!Emit(s)
      BY <1>1, <2>2, <3>2, <3>3 DEF EventStreamAbs!Emit, emitted
    <3> QED BY <3>4
  <2> QED BY <2>4, <2>5
<1>5. CASE MainClean
  <2>1. mpc = "clean" /\ recorded' = recorded /\ nevents' = nevents
        /\ (mpc' = IF dp_entries # 0 THEN "scan" ELSE "closed")
    BY <1>5 DEF MainClean
  <2>2. CASE dp_entries # 0
    BY <1>2, <2>1, <2>2
  <2>3. CASE dp_entries = 0
    <3>1. nevents = recorded
      BY <2>1, <2>3, DrainedAtEnd
    <3> QED BY <1>1, <2>1, <2>3, <3>1 DEF EventStreamAbs!End, emitted
  <2> QED BY <2>2, <2>3
<1>6. CASE MainWait \/ MainTake \/ MainDecr \/ MainLeaving
  <2>1. mpc # "closed" /\ mpc' # "closed" /\ recorded' = recorded
            /\ nevents' = nevents
    BY <1>6 DEF MainWait, MainTake, MainDecr, MainLeaving
  <2> QED BY <1>2, <2>1
<1>7. CASE StopTraces \/ (\E c \in CPUs : TracerStep(c)) \/ UNCHANGED vars
  <2>1. recorded' = recorded /\ nevents' = nevents /\ mpc' = mpc
    BY <1>7 DEF StopTraces, TracerStep, TracerRead, TracerSkip, TracerPassEnds,
       vars, mvars
  <2> QED BY <1>2, <2>1
<1> QED BY <1>3, <1>4, <1>5, <1>6, <1>7 DEF Next, MainStep, Closed

\* The piped output implements EventStream: whole events, each once, in order,
\* and all of them by the time blktrace has ended (no write failing).
THEOREM EventStreamImplemented == ~WriteFails
    => (Spec => ImplementsEventStream)
<1> SUFFICES ASSUME ~WriteFails PROVE Spec => ImplementsEventStream
    OBVIOUS
<1>1. Init => EventStreamAbs!Init
  <2> SUFFICES ASSUME Init PROVE EventStreamAbs!Init
    OBVIOUS
  <2>1. [s \in Streams |-> EventsOut(s)] = nevents
    BY InitIInv, EventsOutIs
  <2> QED BY <2>1 DEF Init, EventStreamAbs!Init
<1>2. IInv /\ ExactInv /\ (IInv /\ ExactInv)' /\ [Next]_vars
          => [EventStreamAbs!Next]_(EventStreamAbs!vars)
    BY StreamStep
<1>3. Spec => [](IInv /\ ExactInv)
    BY ExactHolds
<1> QED BY <1>1, <1>2, <1>3, PTL
        DEF Spec, ImplementsEventStream, EventStreamAbs!Spec
-----------------------------------------------------------------------------
(* The mapped window.                                                      *)

\* What the properties need beside the types: a mapped window ends inside the
\* file, fs_off and fs_size speak of the same place, and a call in progress
\* has found or made the room it asked for.
WindowSpaceInv ==
    /\ fs_size <= filelen
    /\ filelen <= fs_max_size
    /\ fs_buf = "mapped" => /\ base + fs_off = fs_size
                            /\ base + fs_buf_len <= filelen
    /\ WindowAligned
    /\ asked > 0 => st = "open" /\ fs_off + asked <= fs_buf_len
    /\ st = "closed" => filelen = fs_size

MappedInv == WindowTypeOK /\ WindowSpaceInv

\* Whatever a caller asks for is a positive length.
LEMMA AsksPositive == Asks \subseteq Nat \ {0}
  BY WindowAssumption DEF Asks

\* The end of the data lies in its page: less than a page from its start.
LEMMA PageOffset ==
    ASSUME NEW a \in Nat, NEW p \in Nat \ {0}
    PROVE  a % p \in 0..(p - 1) /\ a % p <= a
  OBVIOUS

\* And what lies before it in the file are whole pages.
LEMMA PageStart ==
    ASSUME NEW a \in Nat, NEW p \in Nat \ {0}
    PROVE  (a - (a % p)) % p = 0
  <1> DEFINE q == a \div p
  <1>1. a - (a % p) = p * q
    OBVIOUS
  <1>2. q \in Nat
    OBVIOUS
  <1>3. (p * q) % p = 0
    <2> HIDE DEF q
    <2> QED
      BY <1>2
  <1> QED
    BY <1>1, <1>3

\* What setup_mmap computes before it maps: the new window has room for what
\* is asked, and, from the page the data ends in, fits in the longer file.
LEMMA NewWindowRoom ==
    ASSUME MappedInv, NEW maxlen \in Asks, NewWindow(maxlen)
    PROVE  /\ OffInPage \in Nat /\ OffInPage <= fs_size
           /\ fs_off' = OffInPage
           /\ fs_buf_len' \in Nat /\ fs_max_size' \in Nat
           /\ fs_size - OffInPage \in Nat
           /\ (fs_size - OffInPage) % PageSize = 0
           /\ fs_off' + maxlen <= fs_buf_len'
           /\ fs_size - OffInPage + fs_buf_len' <= fs_max_size'
           /\ fs_max_size <= fs_max_size'
           /\ st = "open" /\ fs_size' = fs_size
           /\ polled' = polled /\ is_done' = is_done /\ server' = server
  <1>1. OffInPage \in 0..(PageSize - 1) /\ OffInPage <= fs_size
    BY PageOffset, WindowAssumption DEF OffInPage, MappedInv, WindowTypeOK
  <1>2. WindowLen \in Nat
    BY WindowAssumption DEF WindowLen
  <1>3. 2 * (PageSize - 1) + maxlen <= WindowLen /\ maxlen \in Nat \ {0}
    BY WindowAssumption, AsksPositive
  <1>4. /\ fs_off' = OffInPage /\ fs_buf_len' = WindowLen - OffInPage
        /\ fs_max_size' = fs_max_size + fs_buf_len' /\ fs_size' = fs_size
        /\ polled' = polled /\ is_done' = is_done /\ server' = server
        /\ st = "open"
    BY DEF NewWindow, Called
  <1>5. PageSize \in Nat \ {0} /\ fs_size \in Nat /\ fs_max_size \in Nat
        /\ fs_size <= fs_max_size
    BY WindowAssumption DEF MappedInv, WindowTypeOK, WindowSpaceInv
  <1>6. OffInPage + maxlen <= WindowLen - OffInPage
    BY <1>1, <1>2, <1>3, <1>5
  <1>7. (fs_size - OffInPage) % PageSize = 0
    BY <1>5, PageStart DEF OffInPage
  <1> HIDE DEF OffInPage, WindowLen
  <1> QED
    BY <1>1, <1>2, <1>3, <1>4, <1>5, <1>6, <1>7

LEMMA MappedInvInit == WindowInit => MappedInv
  <1> SUFFICES ASSUME WindowInit PROVE MappedInv
    OBVIOUS
  <1>1. WindowTypeOK
    BY DEF WindowInit, WindowTypeOK
  <1>2. WindowSpaceInv
    BY DEF WindowInit, WindowSpaceInv, WindowAligned
  <1> QED
    BY <1>1, <1>2 DEF MappedInv

LEMMA MappedInvNext == MappedInv /\ [WindowNext]_windowvars => MappedInv'
  <1> SUFFICES ASSUME MappedInv, [WindowNext]_windowvars PROVE MappedInv'
    OBVIOUS
  <1> USE DEF MappedInv, WindowTypeOK, WindowSpaceInv, WindowAligned
  <1>1. ASSUME NEW maxlen \in Asks, WindowFits(maxlen) PROVE MappedInv'
    BY <1>1, AsksPositive DEF WindowFits, Called, mip
  <1>2. ASSUME NEW maxlen \in Asks, NewWindow(maxlen),
               \/ Remap(maxlen) \/ LockFails(maxlen)
        PROVE  MappedInv'
    <2>1. /\ base' = fs_size - OffInPage /\ filelen' = fs_max_size'
          /\ fs_buf' = "mapped"
          /\ \/ asked' = maxlen /\ st' = st
             \/ asked' = 0 /\ st' \in {st, "exited"}
      BY <1>2, AsksPositive DEF Remap, LockFails, AfterFailure
    <2>2. WindowTypeOK'
      BY <1>2, <2>1, NewWindowRoom
    <2>3. WindowSpaceInv'
      BY <1>2, <2>1, NewWindowRoom, AsksPositive
    <2> QED
      BY <2>2, <2>3
  <1>3. ASSUME NEW maxlen \in Asks, NewWindow(maxlen),
               \/ TruncateFails(maxlen) \/ MapFails(maxlen)
        PROVE  MappedInv'
    <2>1. /\ base' = base /\ filelen' \in {filelen, fs_max_size'}
          /\ fs_buf' \in {"null", "bad"}
          /\ \/ asked' = maxlen /\ st' = st
             \/ asked' = 0 /\ st' \in {st, "exited"}
      BY <1>3, AsksPositive DEF TruncateFails, MapFails, AfterFailure
    <2>2. WindowTypeOK'
      BY <1>3, <2>1, NewWindowRoom
    <2>3. WindowSpaceInv'
      BY <1>3, <2>1, NewWindowRoom, AsksPositive
    <2> QED
      BY <2>2, <2>3
  <1>4. CASE Read
    BY <1>4, AsksPositive DEF Read
  <1>5. CASE ReadNothing
    BY <1>5 DEF ReadNothing, mip
  <1>6. CASE ReadFaults
    <2>1. WindowTypeOK'
      BY <1>6 DEF ReadFaults, mip
    <2>2. WindowSpaceInv'
      BY <1>6 DEF ReadFaults, mip
    <2> QED
      BY <2>1, <2>2
  <1>7. CASE Told
    BY <1>7 DEF Told, mip
  <1>8. CASE CloseIop
    BY <1>8 DEF CloseIop
  <1>9. CASE UNCHANGED windowvars
    BY <1>9 DEF windowvars, mip
  <1> QED
    BY <1>1, <1>2, <1>3, <1>4, <1>5, <1>6, <1>7, <1>8, <1>9
       DEF WindowNext, SetupMmap, Remap, TruncateFails, MapFails, LockFails

\* The variables keep their types.
THEOREM WindowTypeHolds == WindowSpec => []WindowTypeOK
  <1>1. MappedInv => WindowTypeOK
    BY DEF MappedInv
  <1> QED
    BY MappedInvInit, MappedInvNext, <1>1, PTL DEF WindowSpec

\* No read goes past the window setup_mmap has made room in, and no byte of
\* the mapping lies behind the end of the file.
THEOREM ReadsInsideHolds == WindowSpec => []ReadsInside
  <1>1. MappedInv => ReadsInside
    BY DEF MappedInv, WindowSpaceInv, ReadsInside
  <1> QED
    BY MappedInvInit, MappedInvNext, <1>1, PTL DEF WindowSpec

\* Every window starts at a page of the file.
THEOREM WindowAlignedHolds == WindowSpec => []WindowAligned
  <1>1. MappedInv => WindowAligned
    BY DEF MappedInv, WindowSpaceInv
  <1> QED
    BY MappedInvInit, MappedInvNext, <1>1, PTL DEF WindowSpec

\* The file holds all the data read, behind it no more than the room setup_mmap
\* counted, and nothing at all once close_iop has cut it; a file whose last
\* ftruncate failed is not cut.
THEOREM FileHoldsDataHolds == WindowSpec => []FileHoldsData
  <1>1. MappedInv => FileHoldsData
    BY DEF MappedInv, WindowSpaceInv, FileHoldsData
  <1> QED
    BY MappedInvInit, MappedInvNext, <1>1, PTL DEF WindowSpec

\* Every read puts its data right behind what the file holds already, however
\* often the window moved and whatever failed in between.
THEOREM ReadsAppendHolds == WindowSpec => ReadsAppend
  <1>1. MappedInv /\ [WindowNext]_windowvars => [fs_size' # fs_size => base + fs_off = fs_size]_windowvars
    <2> SUFFICES ASSUME MappedInv, WindowNext, fs_size' # fs_size
                 PROVE  base + fs_off = fs_size
      BY DEF windowvars, mip
    <2>1. Read
      BY DEF WindowNext, SetupMmap, WindowFits, Remap, TruncateFails, MapFails,
             LockFails, NewWindow, ReadNothing, ReadFaults, Told, CloseIop, mip
    <2> QED
      BY <2>1 DEF Read, MappedInv, WindowSpaceInv
  <1> QED
    BY MappedInvInit, MappedInvNext, <1>1, PTL DEF WindowSpec, ReadsAppend

\* The window setup_mmap makes is sound for any sizes WindowAssumption allows.
THEOREM WindowSoundHolds == WindowSpec => []WindowSound
  BY WindowTypeHolds, ReadsInsideHolds, WindowAlignedHolds, FileHoldsDataHolds,
     PTL DEF WindowSound
=============================================================================
