--------------------------- MODULE AnalysisProofs ---------------------------
(***************************************************************************)
(* Proofs about Analysis, for any workloads, tasks, processes and options: *)
(* the depths, times, ranges and sums that blkparse and btt arrive at are  *)
(* those of the bios and requests, as long as no event is missing and no   *)
(* two bios on their way have sectors in common; the ranges, and what adds *)
(* up, whatever is missing.                                                *)
(*                                                                         *)
(* In this order: sums over finite sets; the block layer and its events;   *)
(* what btt knows of the bios; its ranges; how many requests there are;    *)
(* iostat; what blkparse counts; the depths; the tracks and times;         *)
(* the longest waits; btt's totals; and the invariant of them all.         *)
(***************************************************************************)
EXTENDS Analysis, FiniteSetTheorems, WellFoundedInduction, TLAPS

-----------------------------------------------------------------------------
(* Sums and cardinalities.                                                 *)

\* A set of subsets of S that holds {} and, with a set, the set with one more
\* element, holds all finite subsets.
LEMMA AddInduction ==
    ASSUME NEW S, IsFiniteSet(S), NEW G, {} \in G,
           \A s \in SUBSET S : \A a \in S \ s : s \in G => s \cup {a} \in G
    PROVE  S \in G
<1> DEFINE Bad == {s \in SUBSET S : s \notin G}
<1> SUFFICES ASSUME Bad # {} PROVE FALSE
    OBVIOUS
<1>1. IsWellFoundedOn(StrictSubsetOrdering(S), SUBSET S)
    BY FS_StrictSubsetOrderingWellFounded, FS_FiniteSubsetsOfFinite
<1>2. PICK s \in Bad : \A u \in Bad : <<u, s>> \notin StrictSubsetOrdering(S)
  <2> Bad \subseteq SUBSET S
    OBVIOUS
  <2> HIDE DEF Bad
  <2> QED BY <1>1, WFMin
<1>3. PICK a \in s : TRUE
    OBVIOUS
<1>4. s \ {a} \notin Bad
  <2>1. <<s \ {a}, s>> \in StrictSubsetOrdering(S)
    BY <1>3 DEF StrictSubsetOrdering
  <2> QED BY <1>2, <2>1
<1>5. s \ {a} \in G /\ (s \ {a}) \cup {a} = s
    BY <1>3, <1>4
<1> QED BY <1>2, <1>3, <1>5

\* Total's recursion, as a function of the subsets of f's domain.
Pick(s) == CHOOSE x \in s : TRUE
Sums(f) ==
    CHOOSE g : g = [s \in SUBSET DOMAIN f |->
                       IF s = {} THEN 0 ELSE f[Pick(s)] + g[s \ {Pick(s)}]]

\* A total is what the recursive function Sums gives for the whole domain.
LEMMA TotalDef ==
    ASSUME NEW f
    PROVE  Total(f) = Sums(f)[DOMAIN f]
BY DEF Total, Sums, Pick, FoldSet, MapThenFoldSet

LEMMA PickIn == \A s : s # {} => Pick(s) \in s
BY DEF Pick

\* Induction along the fold: from a set without its first element to the set.
LEMMA PickInduction ==
    ASSUME NEW S, IsFiniteSet(S), NEW G, {} \in G,
           \A s \in SUBSET S : s # {} /\ s \ {Pick(s)} \in G => s \in G
    PROVE  SUBSET S \subseteq G
<1> DEFINE Bad == {s \in SUBSET S : s \notin G}
<1> SUFFICES ASSUME Bad # {} PROVE FALSE
    OBVIOUS
<1>1. IsWellFoundedOn(StrictSubsetOrdering(S), SUBSET S)
    BY FS_StrictSubsetOrderingWellFounded, FS_FiniteSubsetsOfFinite
<1>2. PICK s \in Bad : \A u \in Bad : <<u, s>> \notin StrictSubsetOrdering(S)
  <2> Bad \subseteq SUBSET S
    OBVIOUS
  <2> HIDE DEF Bad
  <2> QED BY <1>1, WFMin
<1>3. s # {} /\ Pick(s) \in s
    BY PickIn
<1>4. s \ {Pick(s)} \notin Bad
  <2>1. <<s \ {Pick(s)}, s>> \in StrictSubsetOrdering(S)
    BY <1>3 DEF StrictSubsetOrdering
  <2> QED BY <1>2, <2>1
<1> QED BY <1>3, <1>4

\* A set of naturals that is not empty has a least element.
LEMMA LeastOf ==
    ASSUME NEW T, T \subseteq Nat, T # {}
    PROVE  \E x \in T : \A y \in T : ~(y < x)
<1> DEFINE R == OpToRel(<, Nat)
<1>1. IsWellFoundedOn(R, Nat)
    BY NatLessThanWellFounded, Zenon
<1>2. \E x \in T : \A y \in T : <<y, x>> \notin R
  <2> HIDE DEF R
  <2> QED BY <1>1, WFMin
<1>3. \A x, y \in Nat : y < x => <<y, x>> \in R
    BY SMT DEF OpToRel
<1> QED BY <1>2, <1>3

\* Induction up to m: a set that holds 0 and, with each n below m, n + 1.
LEMMA InductionUpTo ==
    ASSUME NEW S, NEW m \in Nat, 0 \in S, \A n \in 0..m - 1 : n \in S
        => n + 1 \in S
    PROVE  0..m \subseteq S
<1> SUFFICES ASSUME 0..m \ S # {} PROVE FALSE
    OBVIOUS
<1>1. PICK x \in 0..m \ S : \A y \in 0..m \ S : ~(y < x)
  <2>1. 0..m \ S \subseteq Nat
    OBVIOUS
  <2> QED BY <2>1, LeastOf
<1>2. x - 1 \in 0..m - 1 /\ x - 1 < x
    BY <1>1
<1>3. x - 1 \in S
    BY <1>1, <1>2
<1> QED BY <1>1, <1>2, <1>3

\* The fold over a finite set is defined by its equations.
LEMMA SumsDef ==
    ASSUME NEW S, IsFiniteSet(S), NEW f \in [S -> Int]
    PROVE  /\ Sums(f) \in [SUBSET S -> Int]
           /\ Sums(f)[{}] = 0
           /\ \A s \in SUBSET S : s # {} =>
                 Sums(f)[s] = f[Pick(s)] + Sums(f)[s \ {Pick(s)}]
<1> DEFINE N == Cardinality(S)
           Def(g, s) == IF s = {} THEN 0 ELSE f[Pick(s)] + g[s \ {Pick(s)}]
           Upto(g, k) == \A s \in SUBSET S : Cardinality(s) <= k
               => g[s] = Def(g, s)
           K == {k \in 0..N : \E g \in [SUBSET S -> Int] : Upto(g, k)}
<1>1. N \in Nat
    BY FS_CardinalityType
<1>2. \A s \in SUBSET S : s # {}
          => /\ Pick(s) \in S /\ s \ {Pick(s)} \in SUBSET S
                                    /\ Cardinality(s) \in Nat \ {0}
                                    /\ Cardinality(s \ {Pick(s)})
                                        = Cardinality(s) - 1
  <2> TAKE s \in SUBSET S
  <2> HAVE s # {}
  <2>1. IsFiniteSet(s) /\ Pick(s) \in s
    BY FS_Subset, PickIn
  <2> QED BY <2>1, FS_RemoveElement, FS_CardinalityType, FS_EmptySet
<1>3. 0 \in K
  <2> DEFINE g == [s \in SUBSET S |-> 0]
  <2>1. ASSUME NEW s \in SUBSET S, Cardinality(s) <= 0 PROVE g[s] = Def(g, s)
    <3>1. s = {}
      BY <1>2, <2>1, FS_EmptySet, FS_Subset, FS_CardinalityType, SMT
    <3>2. g[s] = 0
      OBVIOUS
    <3>3. Def(g, s) = 0
      BY <3>1
    <3> HIDE DEF g, Def
    <3> QED BY <3>2, <3>3
  <2>2. \E h \in [SUBSET S -> Int] : Upto(h, 0)
    <3>1. g \in [SUBSET S -> Int]
      OBVIOUS
    <3>2. Upto(g, 0)
      BY <2>1
    <3> HIDE DEF g, Upto
    <3> QED BY <3>1, <3>2
  <2> HIDE DEF Upto
  <2> QED BY <1>1, <2>2
<1>4. ASSUME NEW k \in 0..N - 1, k \in K
      PROVE  k + 1 \in K
  <2>1. PICK g \in [SUBSET S -> Int] : Upto(g, k)
    BY <1>4
  <2> DEFINE h == [s \in SUBSET S |-> Def(g, s)]
  <2>2. h \in [SUBSET S -> Int]
    <3>1. ASSUME NEW s \in SUBSET S PROVE Def(g, s) \in Int
      <4>1. s # {} => f[Pick(s)] \in Int /\ g[s \ {Pick(s)}] \in Int
        BY <1>2
      <4> QED BY <4>1
    <3> QED BY <3>1
  <2>3. ASSUME NEW s \in SUBSET S, Cardinality(s) <= k + 1
            PROVE h[s] = Def(h, s)
    <3>1. CASE s = {}
      BY <3>1
    <3>2. CASE s # {}
      <4>1. s \ {Pick(s)} \in SUBSET S /\ Cardinality(s \ {Pick(s)}) <= k
        BY <1>2, <2>3, <3>2
      <4>2. g[s \ {Pick(s)}] = h[s \ {Pick(s)}]
        BY <2>1, <4>1
      <4> QED BY <3>2, <4>2
    <3> QED BY <3>1, <3>2
  <2>4. \E j \in [SUBSET S -> Int] : Upto(j, k + 1)
    BY <2>2, <2>3
  <2>5. k + 1 \in 0..N
    BY <1>1
  <2> HIDE DEF Upto
  <2> QED BY <2>4, <2>5
<1>5. N \in K
  <2> HIDE DEF K, N
  <2>1. 0..N \subseteq K
    BY <1>1, <1>3, <1>4, InductionUpTo
  <2> QED BY <1>1, <2>1
<1>6. PICK g \in [SUBSET S -> Int] : \A s \in SUBSET S : g[s] = Def(g, s)
  <2>1. \A s \in SUBSET S : Cardinality(s) <= N
    BY FS_Subset
  <2> QED BY <1>5, <2>1
<1>7. g = [s \in SUBSET S |-> Def(g, s)]
    BY <1>6
<1>8. Sums(f) = CHOOSE e : e = [s \in SUBSET S |-> Def(e, s)]
    BY DEF Sums
<1>9. Sums(f) = [s \in SUBSET S |-> Def(Sums(f), s)]
    BY <1>7, <1>8
<1> DEFINE J == {s \in SUBSET S : Sums(f)[s] \in Int}
<1>10. SUBSET S \subseteq J
  <2>1. {} \in J
    BY <1>9
  <2>2. ASSUME NEW s \in SUBSET S, s # {}, s \ {Pick(s)} \in J PROVE s \in J
    <3>1. Sums(f)[s] = f[Pick(s)] + Sums(f)[s \ {Pick(s)}]
      BY <1>9, <2>2
    <3>2. f[Pick(s)] \in Int /\ Sums(f)[s \ {Pick(s)}] \in Int
      BY <1>2, <2>2
    <3> QED BY <3>1, <3>2
  <2> HIDE DEF J
  <2> QED BY <2>1, <2>2, PickInduction
<1> QED BY <1>9, <1>10
\* It does not matter which element is added last.
LEMMA SumsAdd ==
    ASSUME NEW S, IsFiniteSet(S), NEW f \in [S -> Int],
           NEW s \in SUBSET S, NEW a \in S \ s
    PROVE  Sums(f)[s \cup {a}] = Sums(f)[s] + f[a]
<1> DEFINE g == Sums(f)
           Bad == {u \in SUBSET S : \E b \in S \ u : g[u \cup {b}] # g[u] + f[b]}
<1> SUFFICES ASSUME Bad # {} PROVE FALSE
    OBVIOUS
<1>0. /\ g \in [SUBSET S -> Int]
      /\ \A u \in SUBSET S : u # {} => g[u] = f[Pick(u)] + g[u \ {Pick(u)}]
    BY SumsDef
<1> HIDE DEF g
<1>1. IsWellFoundedOn(StrictSubsetOrdering(S), SUBSET S)
    BY FS_StrictSubsetOrderingWellFounded, FS_FiniteSubsetsOfFinite
<1>2. PICK t \in Bad : \A u \in Bad : <<u, t>> \notin StrictSubsetOrdering(S)
  <2> Bad \subseteq SUBSET S
    OBVIOUS
  <2> HIDE DEF Bad
  <2> QED BY <1>1, WFMin
<1>3. PICK b \in S \ t : g[t \cup {b}] # g[t] + f[b]
    BY <1>2
<1> DEFINE p == Pick(t \cup {b})
           u == t \ {p}
<1>4. /\ p \in t \cup {b} /\ t \in SUBSET S /\ t \cup {b} \in SUBSET S
      /\ g[t \cup {b}] = f[p] + g[(t \cup {b}) \ {p}]
  <2>1. t \in SUBSET S /\ t \cup {b} \in SUBSET S /\ t \cup {b} # {}
    BY <1>2, <1>3
  <2> QED BY <2>1, <1>0, PickIn
<1> HIDE DEF p
<1>5. CASE p = b
  <2>1. (t \cup {b}) \ {p} = t
    BY <1>3, <1>5
  <2>2. g[t] \in Int /\ f[b] \in Int
    BY <1>0, <1>3, <1>4
  <2>3. g[t \cup {b}] = f[b] + g[t]
    BY <1>4, <1>5, <2>1
  <2> QED BY <1>3, <2>2, <2>3
<1>6. CASE p \in t /\ p # b
  <2>1. /\ u \in SUBSET S /\ (t \cup {b}) \ {p} = u \cup {b} /\ u \cup {p} = t
        /\ b \in S \ u /\ p \in S \ u
    BY <1>3, <1>4, <1>6
  <2>2. u \notin Bad
    <3>1. <<u, t>> \in StrictSubsetOrdering(S)
      BY <1>4, <1>6 DEF StrictSubsetOrdering
    <3> HIDE DEF u, Bad
    <3> QED BY <1>2, <3>1
  <2> HIDE DEF u
  <2>3. g[u \cup {b}] = g[u] + f[b] /\ g[u \cup {p}] = g[u] + f[p]
    BY <2>1, <2>2
  <2>4. g[u] \in Int /\ f[b] \in Int /\ f[p] \in Int
    BY <1>0, <2>1
  <2>5. g[t] = g[u] + f[p] /\ g[t \cup {b}] = f[p] + g[u \cup {b}]
    BY <1>4, <2>1, <2>3
  <2> QED BY <1>3, <2>3, <2>4, <2>5
<1> QED BY <1>4, <1>5, <1>6

\* A sum is that of the values of its terms, whatever else the function has.
LEMMA SumsSame ==
    ASSUME NEW S, IsFiniteSet(S), NEW f \in [S -> Int],
           NEW T, IsFiniteSet(T), NEW g \in [T -> Int],
           NEW R, R \subseteq S, R \subseteq T, \A x \in R : f[x] = g[x]
    PROVE  Sums(f)[R] = Sums(g)[R]
<1> DEFINE G == {s \in SUBSET R : Sums(f)[s] = Sums(g)[s]}
<1>0. IsFiniteSet(R)
    BY FS_Subset
<1>1. {} \in G
    BY SumsDef
<1>2. ASSUME NEW s \in SUBSET R, NEW a \in R \ s, s \in G PROVE s \cup {a} \in G
  <2>1. /\ Sums(f)[s \cup {a}] = Sums(f)[s] + f[a]
        /\ Sums(g)[s \cup {a}] = Sums(g)[s] + g[a]
    <3>1. s \in SUBSET S /\ a \in S \ s /\ s \in SUBSET T /\ a \in T \ s
      OBVIOUS
    <3> QED BY <3>1, SumsAdd
  <2> QED BY <1>2, <2>1
<1>3. R \in G
  <2> HIDE DEF G
  <2> QED BY <1>0, <1>1, <1>2, AddInduction
<1> QED BY <1>3

\* The sum of one more term.
LEMMA TotalAdd ==
    ASSUME NEW S, IsFiniteSet(S), NEW f \in [S -> Int], NEW a, a \notin S,
           NEW g \in [S \cup {a} -> Int], \A x \in S : g[x] = f[x]
    PROVE  Total(g) = Total(f) + g[a]
<1>1. IsFiniteSet(S \cup {a})
    BY FS_AddElement
<1>2. Sums(g)[S \cup {a}] = Sums(g)[S] + g[a]
  <2>1. S \in SUBSET (S \cup {a}) /\ a \in (S \cup {a}) \ S
    OBVIOUS
  <2> QED BY <1>1, <2>1, SumsAdd
<1>3. Sums(g)[S] = Sums(f)[S]
    BY <1>1, SumsSame
<1> QED BY <1>2, <1>3, TotalDef

\* The total of integers is an integer.
LEMMA TotalType ==
    ASSUME NEW S, IsFiniteSet(S), NEW f \in [S -> Int]
    PROVE  Total(f) \in Int
<1>1. Sums(f) \in [SUBSET S -> Int]
    BY SumsDef
<1> QED BY <1>1, TotalDef

LEMMA TotalEmpty ==
    ASSUME NEW f \in [{} -> Int]
    PROVE  Total(f) = 0
<1>1. IsFiniteSet({})
    BY FS_EmptySet
<1> QED BY <1>1, SumsDef, TotalDef

\* The sum over two sets that are apart.
LEMMA TotalUnion ==
    ASSUME NEW S, IsFiniteSet(S), NEW f \in [S -> Int],
           NEW T, IsFiniteSet(T), NEW h \in [T -> Int], S \cap T = {},
           NEW g \in [S \cup T -> Int], \A x \in S : g[x] = f[x],
           \A x \in T : g[x] = h[x]
    PROVE  Total(g) = Total(f) + Total(h)
<1> DEFINE G == {t \in SUBSET T : Sums(g)[S \cup t] = Sums(f)[S] + Sums(h)[t]}
<1>0. IsFiniteSet(S \cup T)
    BY FS_Union
<1>1. /\ Sums(f) \in [SUBSET S -> Int] /\ Sums(g) \in [SUBSET (S \cup T) -> Int]
      /\ Sums(h) \in [SUBSET T -> Int] /\ Sums(h)[{}] = 0
    BY <1>0, SumsDef
<1>2. {} \in G
  <2>1. Sums(g)[S] = Sums(f)[S]
    BY <1>0, SumsSame
  <2>2. Sums(f)[S] \in Int /\ S \cup {} = S
    BY <1>1
  <2> QED BY <1>1, <2>1, <2>2
<1>3. ASSUME NEW t \in SUBSET T, NEW a \in T \ t, t \in G PROVE t \cup {a} \in G
  <2>1. Sums(h)[t \cup {a}] = Sums(h)[t] + h[a]
    <3>1. IsFiniteSet(T) /\ h \in [T -> Int] /\ t \in SUBSET T /\ a \in T \ t
      OBVIOUS
    <3> QED BY ONLY <3>1, SumsAdd
  <2>2. Sums(g)[(S \cup t) \cup {a}] = Sums(g)[S \cup t] + g[a]
    <3>1. S \cup t \in SUBSET (S \cup T) /\ a \in (S \cup T) \ (S \cup t)
      OBVIOUS
    <3> QED BY <1>0, <3>1, SumsAdd
  <2>3. g[a] = h[a] /\ h[a] \in Int /\ S \cup (t \cup {a}) = (S \cup t) \cup {a}
    OBVIOUS
  <2>4. Sums(f)[S] \in Int /\ Sums(h)[t] \in Int
    BY <1>1
  <2>5. Sums(g)[S \cup t] = Sums(f)[S] + Sums(h)[t]
    BY <1>3
  <2>6. Sums(g)[S \cup (t \cup {a})] = Sums(f)[S] + Sums(h)[t \cup {a}]
    <3>1. Sums(g)[S \cup (t \cup {a})] = Sums(f)[S] + Sums(h)[t] + h[a]
      BY <2>2, <2>3, <2>5
    <3>2. h[a] \in Int
      BY <2>3
    <3> HIDE DEF G
    <3> QED BY ONLY <2>1, <2>4, <3>1, <3>2
  <2> QED BY <2>6
<1>4. T \in G
  <2> HIDE DEF G
  <2> QED BY <1>2, <1>3, AddInduction
<1> QED BY <1>4, TotalDef

\* The same terms over another set.
LEMMA TotalImage ==
    ASSUME NEW S, IsFiniteSet(S), NEW f \in [S -> Int],
           NEW T, NEW g \in [T -> Int], NEW m \in [S -> T],
           \A x, y \in S : m[x] = m[y] => x = y,
           \A y \in T : \E x \in S : m[x] = y,
           \A x \in S : g[m[x]] = f[x]
    PROVE  IsFiniteSet(T) /\ Cardinality(T) = Cardinality(S) /\ Total(g) = Total(f)
<1>0. m \in Bijection(S, T)
    BY DEF Bijection, Injection, Surjection, IsInjective
<1>1. IsFiniteSet(T) /\ Cardinality(T) = Cardinality(S)
    BY <1>0, FS_Bijection DEF ExistsBijection
<1> DEFINE Image(s) == {m[x] : x \in s}
           G == {s \in SUBSET S : Sums(g)[Image(s)] = Sums(f)[s]}
<1>2. {} \in G
  <2>1. Image({}) = {}
    OBVIOUS
  <2> QED BY <1>1, <2>1, SumsDef
<1>3. ASSUME NEW s \in SUBSET S, NEW a \in S \ s, s \in G PROVE s \cup {a} \in G
  <2>1. Image(s) \in SUBSET T /\ m[a] \in T \ Image(s)
    OBVIOUS
  <2>2. Image(s \cup {a}) = Image(s) \cup {m[a]}
    OBVIOUS
  <2> HIDE DEF Image
  <2>3. Sums(g)[Image(s) \cup {m[a]}] = Sums(g)[Image(s)] + g[m[a]]
    BY <1>1, <2>1, SumsAdd
  <2>4. Sums(f)[s \cup {a}] = Sums(f)[s] + f[a]
    BY SumsAdd
  <2> QED BY <1>3, <2>2, <2>3, <2>4
<1>4. S \in G
  <2> HIDE DEF G
  <2> QED BY <1>2, <1>3, AddInduction
<1>5. Image(S) = T
    OBVIOUS
<1> QED BY <1>1, <1>4, <1>5, TotalDef

-----------------------------------------------------------------------------
(* The device.                                                             *)

RawBio == [start : Nat, len : Nat \ {0}, pid : Nat \ {0}, w : {0, 1}]
Bio == [start : Nat, len : Nat \ {0}, pid : Nat \ {0}, w : {0, 1}, q : Nat,
        slept : BOOLEAN]
Request ==
    [id : Nat, kind : {"fs", "pc"}, start : Nat, len : Nat \ {0}, w : {0, 1},
     pid : Nat \ {0}, state : {"got", "queued", "issued"}, bios : SUBSET Bio,
     g : Nat, i : Nat, d : Nat]
Done == [q : Nat, d : Nat, c : Nat, pid : Nat \ {0}, owner : Nat \ {0}, w : {0, 1},
         request : Nat]
Acts == {"none", "Q", "S", "G", "M", "F", "I", "D", "R", "C", "P", "U", "UT"}
Events == [act : Acts, sector : Nat, len : Nat, pid : Nat, w : {0, 1},
           kind : {"fs", "pc"}, time : Nat]

BlockTypes ==
    /\ event \in Events
    /\ waiting \subseteq Bio /\ IsFiniteSet(waiting)
    /\ requests \subseteq Request /\ IsFiniteSet(requests)
    /\ completed \subseteq Done /\ IsFiniteSet(completed)
    /\ workload \in [bios : Seq(RawBio), odd : Nat]
    /\ commands \in Nat /\ overlapped \in BOOLEAN /\ plugged \in BOOLEAN

\* The times of everything are over.
Ages ==
    /\ \A b \in InFlight : b.q \in 1..now
    /\ \A r \in requests : r.id \in 1..now /\ r.g \in 1..now /\ r.i \in 0..now
                           /\ r.d \in 0..now
    /\ \A f \in completed : f.q < f.c /\ f.d < f.c /\ f.c <= now /\ f.request <= now

\* A bio waits, or is in one request; a queue event is of one bio.
Separate ==
    /\ \A a, b \in InFlight : a.q = b.q => a = b
    /\ \A r \in requests : \A b \in r.bios : b \notin waiting
    /\ \A r, s \in requests : r # s => r.id # s.id /\ \A b \in r.bios : b \notin s.bios
DoneOK ==
    /\ \A f, g \in completed : f.q = g.q => f = g
    /\ \A f \in completed : /\ \A b \in InFlight : f.q # b.q
                            /\ \A r \in requests : f.request # r.id

\* A request of the file system is made of its bios: they are within it, and
\* each of its sectors is in one of them.
Covers(r) ==
    /\ \A b \in r.bios : r.start <= b.start /\ b.start + b.len <= r.start + r.len
    /\ \A s \in r.start..(r.start + r.len - 1) :
          \E b \in r.bios : b.start <= s /\ s < b.start + b.len
RequestOK(r) ==
    /\ IsFiniteSet(r.bios) /\ \A b \in r.bios : b.w = r.w
    /\ r.kind = "pc" => r.bios = {} /\ r.start = 0
    /\ r.kind = "fs" => r.bios # {} /\ Covers(r)

BusyOK == ~overlapped => \A a, b \in InFlight : a # b => ~Overlap(a, b)

\* What bios and requests are like.
BlockInv ==
    /\ BlockTypes /\ Ages /\ Separate /\ DoneOK
    /\ (\A r \in requests : RequestOK(r)) /\ BusyOK

\* An idle device has neither bios nor requests.
LEMMA BlockInvInit == BlockInit => BlockInv
<1> SUFFICES ASSUME BlockInit PROVE BlockInv
    OBVIOUS
<1>1. waiting = {} /\ requests = {} /\ completed = {} /\ InFlight = {}
    BY DEF BlockInit, InFlight
<1>2. BlockTypes
    BY <1>1, FS_EmptySet, BlockEventsAssumption
    DEF BlockInit, BlockTypes, Events, Acts, Kernel, RawBio
<1> QED BY <1>1, <1>2 DEF BlockInv, Ages, Separate, DoneOK, BusyOK

\* An event is recorded of every step, and bears the next time.
LEMMA EventTimes ==
    ASSUME BlockInv, BlockNext
    PROVE  event' \in Events /\ event'.time = now + 1 /\ event'.act # "none"
<1>1. now \in Nat
    BY DEF BlockInv, BlockTypes, Events, now
<1>2. /\ \A b \in waiting : b \in Bio
      /\ \A b \in InFlight : b \in Bio
      /\ \A r \in requests : r \in Request
    BY DEF BlockInv, BlockTypes, InFlight, Request
<1>3. Cardinality(requests) \in Nat
    BY FS_CardinalityType DEF BlockInv, BlockTypes
<1>4. ASSUME NEW act \in Acts \ {"none"}, NEW sector \in Nat, NEW len \in Nat, NEW pid \in Nat,
             NEW w \in {0, 1}, NEW kind \in {"fs", "pc"},
             event' = Event(act, sector, len, pid, w, kind)
      PROVE  event' \in Events /\ event'.time = now + 1 /\ event'.act # "none"
    BY <1>1, <1>4 DEF Event, Events
<1>5. CASE workload.bios # <<>> /\ Queue(Head(workload.bios))
  <2>1. Head(workload.bios) \in RawBio
    BY <1>5 DEF BlockInv, BlockTypes
  <2> QED BY <1>4, <1>5, <2>1 DEF Queue, RecordBio, RawBio, Acts
<1>6. ASSUME NEW b \in waiting,
             \/ Sleep(b) \/ GetRequest(b) \/ \E r \in requests : Merge(b, r)
      PROVE  event' \in Events /\ event'.time = now + 1 /\ event'.act # "none"
  <2>1. PICK act \in Acts \ {"none"} : RecordBio(act, b)
    BY <1>6 DEF Sleep, GetRequest, Merge, Acts
  <2> QED BY <1>2, <1>4, <2>1 DEF RecordBio, Bio
<1>7. ASSUME NEW b \in InFlight, GetCommand(b.pid)
      PROVE  event' \in Events /\ event'.time = now + 1 /\ event'.act # "none"
    BY <1>2, <1>4, <1>7 DEF GetCommand, Bio, Acts
<1>8. ASSUME NEW r \in requests, Insert(r) \/ Issue(r) \/ Requeue(r) \/ Complete(r)
      PROVE  event' \in Events /\ event'.time = now + 1 /\ event'.act # "none"
  <2>1. PICK act \in Acts \ {"none"}, pid \in Nat : RecordRequest(act, r, pid)
    BY <1>2, <1>8 DEF Insert, Issue, Requeue, Complete, Acts, Kernel, Request
  <2> QED BY <1>2, <1>4, <2>1 DEF RecordRequest, Request
<1>9. CASE Plug \/ \E act \in {"U", "UT"} : Unplug(act)
    BY <1>3, <1>4, <1>9 DEF Plug, Unplug, Kernel, Acts
<1> QED BY <1>5, <1>6, <1>7, <1>8, <1>9 DEF BlockNext

LEMMA InFlightIs ==
    \A b : b \in InFlight <=> b \in waiting \/ \E r \in requests : b \in r.bios
BY DEF InFlight

\* A request changes its state only.
LEMMA StateChange ==
    ASSUME BlockInv, BlockNext, NEW r \in requests, NEW s \in Request, Replace(r, s),
           s.id = r.id /\ s.kind = r.kind /\ s.start = r.start /\ s.len = r.len,
           s.w = r.w /\ s.pid = r.pid /\ s.bios = r.bios /\ s.g = r.g,
           s.i \in 0..(now + 1), s.d \in 0..(now + 1),
           UNCHANGED <<waiting, plugged, overlapped, completed, commands>>,
           workload' \in [bios : Seq(RawBio), odd : Nat]
    PROVE  BlockInv'
<1>0. /\ now \in Nat /\ now' = now + 1 /\ event' \in Events
      /\ \A x \in requests : x \in Request /\ x.bios \subseteq Bio
    BY EventTimes DEF BlockInv, BlockTypes, Events, now, Request
<1>1. requests' = (requests \ {r}) \cup {s} /\ IsFiniteSet(requests')
    BY FS_RemoveElement, FS_AddElement DEF Replace, BlockInv, BlockTypes
<1>2. BlockTypes'
    BY <1>0, <1>1 DEF BlockInv, BlockTypes
<1>3. \A b : b \in InFlight' <=> b \in InFlight
  <2>1. InFlight' = waiting' \cup UNION {x.bios : x \in requests'}
    BY DEF InFlight
  <2>2. UNION {x.bios : x \in requests'} = UNION {x.bios : x \in requests}
    BY <1>1
  <2> QED BY <2>1, <2>2 DEF InFlight
<1>4. Ages'
  <2>1. \A b \in InFlight : b.q \in 1..now
    BY DEF BlockInv, Ages
  <2>2. \A x \in requests : x.id \in 1..now /\ x.g \in 1..now /\ x.i \in 0..now
                           /\ x.d \in 0..now
    BY DEF BlockInv, Ages
  <2>3. \A f \in completed : f.q < f.c /\ f.d < f.c /\ f.c <= now /\ f.request <= now
                           /\ f.c \in Nat /\ f.request \in Nat
    BY DEF BlockInv, Ages, BlockTypes, Done
  <2>4. \A b \in InFlight' : b.q \in 1..now'
    BY <1>0, <1>3, <2>1
  <2>5. \A x \in requests' : x.id \in 1..now' /\ x.g \in 1..now' /\ x.i \in 0..now'
                            /\ x.d \in 0..now'
    BY <1>0, <1>1, <2>2
  <2>6. \A f \in completed' : f.q < f.c /\ f.d < f.c /\ f.c <= now' /\ f.request <= now'
    BY <1>0, <2>3
  <2> QED BY <2>4, <2>5, <2>6 DEF Ages
<1>5. Separate'
    BY <1>1, <1>3 DEF BlockInv, Separate
<1>6. DoneOK'
    BY <1>1, <1>3 DEF BlockInv, DoneOK
<1>7. \A x \in requests' : RequestOK(x)
    BY <1>1 DEF BlockInv, RequestOK, Covers
<1>8. BusyOK'
    BY <1>3 DEF BlockInv, BusyOK
<1>9. (\A x \in requests : RequestOK(x))'
    BY <1>7 DEF RequestOK, Covers
<1> QED BY <1>2, <1>4, <1>5, <1>6, <1>8, <1>9 DEF BlockInv

LEMMA OddWorkload ==
    ASSUME BlockInv, OutOfTheOrdinary
    PROVE  workload' \in [bios : Seq(RawBio), odd : Nat]
BY DEF BlockInv, BlockTypes, OutOfTheOrdinary

\* A request without its state and the times of its states.
SameRequest(r, s) ==
    /\ s.id = r.id /\ s.kind = r.kind /\ s.start = r.start /\ s.len = r.len
    /\ s.w = r.w /\ s.pid = r.pid /\ s.bios = r.bios /\ s.g = r.g
AfterInsert(r, s) ==
    r.state = "got" /\ s.state = "queued" /\ s.i = now + 1 /\ s.d = r.d
AfterIssue(r, s) ==
    r.state = "queued" /\ s.state = "issued" /\ s.i = r.i /\ s.d = now + 1
AfterRequeue(r, s) ==
    r.state = "issued" /\ s.state = "queued" /\ s.i = r.i /\ s.d = r.d

LEMMA StateStepIs ==
    ASSUME BlockInv, BlockNext, NEW r \in requests, Insert(r) \/ Issue(r) \/ Requeue(r)
    PROVE  \E s \in Request :
              /\ Replace(r, s) /\ SameRequest(r, s)
              /\ Insert(r) => AfterInsert(r, s)
              /\ Issue(r) => AfterIssue(r, s)
              /\ Requeue(r) => AfterRequeue(r, s)
              /\ s.i \in 0..(now + 1) /\ s.d \in 0..(now + 1)
              /\ UNCHANGED <<waiting, plugged, overlapped, completed, commands>>
              /\ workload' \in [bios : Seq(RawBio), odd : Nat]
<1>0. /\ r \in Request /\ now \in Nat /\ r.i \in 0..now /\ r.d \in 0..now
      /\ workload \in [bios : Seq(RawBio), odd : Nat]
    BY DEF BlockInv, BlockTypes, Events, now, Ages
<1>6. PICK time \in Nat : time = now + 1
    BY <1>0
<1>5. r.i \in 0..(now + 1) /\ r.d \in 0..(now + 1) /\ time \in 0..(now + 1)
    BY <1>0, <1>6
<1>7. /\ Insert(r) => ~Issue(r) /\ ~Requeue(r) /\ r.state = "got"
      /\ Issue(r) => ~Requeue(r) /\ r.state = "queued"
      /\ Requeue(r) => r.state = "issued"
    BY DEF Insert, Issue, Requeue
<1>1. CASE Insert(r)
  <2>3. PICK s : s = [r EXCEPT !.state = "queued", !.i = time]
    OBVIOUS
  <2>1. Replace(r, s) /\ UNCHANGED <<waiting, plugged, overlapped, completed, workload, commands>>
    BY <1>1, <1>6, <2>3 DEF Insert
  <2>2. s \in Request /\ s.i = time /\ s.d = r.d /\ s.state = "queued" /\ SameRequest(r, s)
    BY ONLY <2>3, <1>0, time \in Nat DEF Request, SameRequest
  <2> QED BY <1>0, <1>1, <1>5, <1>6, <1>7, <2>1, <2>2 DEF AfterInsert
<1>2. CASE Issue(r)
  <2>3. PICK s : s = [r EXCEPT !.state = "issued", !.d = time]
    OBVIOUS
  <2>1. Replace(r, s) /\ UNCHANGED <<waiting, plugged, overlapped, completed, workload, commands>>
    BY <1>2, <1>6, <2>3 DEF Issue
  <2>2. s \in Request /\ s.i = r.i /\ s.d = time /\ s.state = "issued" /\ SameRequest(r, s)
    BY ONLY <2>3, <1>0, time \in Nat DEF Request, SameRequest
  <2> QED BY <1>0, <1>2, <1>5, <1>6, <1>7, <2>1, <2>2 DEF AfterIssue
<1>3. CASE Requeue(r)
  <2>3. PICK s : s = [r EXCEPT !.state = "queued"]
    OBVIOUS
  <2>1. /\ Replace(r, s) /\ UNCHANGED <<waiting, plugged, overlapped, completed, commands>>
        /\ workload' \in [bios : Seq(RawBio), odd : Nat]
    BY <1>3, <2>3, OddWorkload DEF Requeue
  <2>2. s \in Request /\ s.i = r.i /\ s.d = r.d /\ s.state = "queued" /\ SameRequest(r, s)
    BY ONLY <2>3, <1>0 DEF Request, SameRequest
  <2> QED BY <1>3, <1>5, <1>7, <2>1, <2>2 DEF AfterRequeue
<1> QED BY <1>1, <1>2, <1>3

LEMMA StateSteps ==
    ASSUME BlockInv, BlockNext, NEW r \in requests, Insert(r) \/ Issue(r) \/ Requeue(r)
    PROVE  BlockInv'
BY StateStepIs, StateChange DEF SameRequest

LEMMA PlugSteps ==
    ASSUME BlockInv, BlockNext, Plug \/ \E act \in {"U", "UT"} : Unplug(act)
    PROVE  BlockInv'
<1>0. now \in Nat /\ now' = now + 1 /\ event' \in Events
    BY EventTimes DEF BlockInv, BlockTypes, Events, now
<1>1. /\ waiting' = waiting /\ requests' = requests /\ completed' = completed
      /\ overlapped' = overlapped /\ commands' = commands /\ plugged' \in BOOLEAN
      /\ workload' \in [bios : Seq(RawBio), odd : Nat]
    BY OddWorkload DEF Plug, Unplug, BlockInv, BlockTypes
<1>2. InFlight' = InFlight
    BY <1>1 DEF InFlight
<1>3. BlockTypes'
    BY <1>0, <1>1 DEF BlockInv, BlockTypes
<1>4. Ages'
    BY <1>0, <1>1, <1>2 DEF BlockInv, Ages, BlockTypes, Done, Request
<1>5. Separate' /\ DoneOK' /\ BusyOK'
    BY <1>1, <1>2 DEF BlockInv, Separate, DoneOK, BusyOK
<1>6. (\A x \in requests : RequestOK(x))'
    BY <1>1 DEF BlockInv, RequestOK, Covers
<1> QED BY <1>3, <1>4, <1>5, <1>6 DEF BlockInv

LEMMA SleepStep ==
    ASSUME BlockInv, BlockNext, NEW b \in waiting, Sleep(b)
    PROVE  BlockInv'
<1> DEFINE c == [b EXCEPT !.slept = TRUE]
<1>0. /\ now \in Nat /\ now' = now + 1 /\ event' \in Events
      /\ b \in Bio /\ b \in InFlight
    BY EventTimes DEF BlockInv, BlockTypes, Events, now, InFlight
<1>1. c \in Bio /\ c.start = b.start /\ c.len = b.len /\ c.q = b.q
    BY <1>0 DEF Bio
<1>2. /\ waiting' = (waiting \ {b}) \cup {c} /\ requests' = requests
      /\ completed' = completed /\ overlapped' = overlapped /\ commands' = commands
      /\ plugged' = plugged /\ workload' \in [bios : Seq(RawBio), odd : Nat]
    BY OddWorkload DEF Sleep
<1> HIDE DEF c
<1>3. \A x : x \in InFlight' => x = c \/ (x \in InFlight /\ x # b)
  <2> TAKE x
  <2> HAVE x \in InFlight'
  <2>1. x \in waiting' \/ \E r \in requests : x \in r.bios
    BY <1>2 DEF InFlight
  <2>2. CASE x \in waiting'
    <3>1. x = c \/ (x \in waiting /\ x # b)
      BY <1>2, <2>2
    <3> QED BY <3>1, InFlightIs
  <2>3. CASE \E r \in requests : x \in r.bios
    <3>1. b \in waiting
      OBVIOUS
    <3> QED BY <2>3, <3>1, InFlightIs DEF BlockInv, Separate
  <2> QED BY <2>1, <2>2, <2>3
<1>4. BlockTypes'
  <2>1. IsFiniteSet(waiting')
    BY <1>2, FS_RemoveElement, FS_AddElement DEF BlockInv, BlockTypes
  <2> QED BY <1>0, <1>1, <1>2, <2>1 DEF BlockInv, BlockTypes
<1>5. Ages'
  <2>1. \A x \in InFlight : x.q \in 1..now
    BY DEF BlockInv, Ages
  <2>2. \A x \in requests : x.id \in 1..now /\ x.g \in 1..now /\ x.i \in 0..now
                           /\ x.d \in 0..now
    BY DEF BlockInv, Ages
  <2>3. \A f \in completed : f.q < f.c /\ f.d < f.c /\ f.c <= now /\ f.request <= now
                           /\ f.c \in Nat /\ f.request \in Nat
    BY DEF BlockInv, Ages, BlockTypes, Done
  <2>4. \A x \in InFlight' : x.q \in 1..now'
    BY <1>0, <1>1, <1>3, <2>1
  <2>5. \A x \in requests' : x.id \in 1..now' /\ x.g \in 1..now' /\ x.i \in 0..now'
                            /\ x.d \in 0..now'
    BY <1>0, <1>2, <2>2
  <2>6. \A f \in completed' : f.q < f.c /\ f.d < f.c /\ f.c <= now' /\ f.request <= now'
    BY <1>0, <1>2, <2>3
  <2> QED BY <2>4, <2>5, <2>6 DEF Ages
<1>6. Separate'
  <2>1. \A r \in requests : c \notin r.bios
    BY <1>0, <1>1, InFlightIs DEF BlockInv, Separate
  <2> QED BY <1>0, <1>1, <1>2, <1>3, <2>1 DEF BlockInv, Separate
<1>7. DoneOK'
    BY <1>0, <1>1, <1>2, <1>3 DEF BlockInv, DoneOK
<1>8. BusyOK'
    BY <1>0, <1>1, <1>2, <1>3 DEF BlockInv, BusyOK, Overlap
<1>9. (\A x \in requests : RequestOK(x))'
    BY <1>2 DEF BlockInv, RequestOK, Covers
<1> QED BY <1>4, <1>5, <1>6, <1>7, <1>8, <1>9 DEF BlockInv

\* What the times of Ages become when one more step has been taken.
LEMMA AgesKept ==
    ASSUME BlockInv, BlockNext
    PROVE  /\ now \in Nat /\ now' = now + 1 /\ event' \in Events
           /\ \A b \in InFlight : b.q \in 1..now' /\ b.q \in 1..now
           /\ \A x \in requests : x.id \in 1..now' /\ x.g \in 1..now' /\ x.i \in 0..now'
                                  /\ x.d \in 0..now' /\ x.id <= now
           /\ \A f \in completed : f.q < f.c /\ f.d < f.c /\ f.c <= now' /\ f.request <= now'
                                   /\ f.c <= now /\ f.request <= now /\ f.q < now
<1>1. now \in Nat /\ now' = now + 1 /\ event' \in Events
    BY EventTimes DEF BlockInv, BlockTypes, Events, now
<1>2. \A b \in InFlight : b.q \in 1..now
    BY DEF BlockInv, Ages
<1>3. \A x \in requests : x.id \in 1..now /\ x.g \in 1..now /\ x.i \in 0..now
                          /\ x.d \in 0..now
    BY DEF BlockInv, Ages
<1>4. \A f \in completed : f.q < f.c /\ f.d < f.c /\ f.c <= now /\ f.request <= now
                           /\ f.c \in Nat /\ f.request \in Nat /\ f.q \in Nat
    BY DEF BlockInv, Ages, BlockTypes, Done
<1>5. /\ \A b \in InFlight : b.q \in 1..now' /\ b.q \in 1..now
      /\ \A x \in requests : x.id \in 1..now' /\ x.g \in 1..now' /\ x.i \in 0..now'
                             /\ x.d \in 0..now' /\ x.id <= now
    BY <1>1, <1>2, <1>3
<1>6. \A f \in completed : f.q < f.c /\ f.d < f.c /\ f.c <= now' /\ f.request <= now'
                           /\ f.c <= now /\ f.request <= now /\ f.q < now
    BY <1>1, <1>4
<1> QED BY <1>1, <1>5, <1>6

\* blk_add_trace_bio_queue: one more bio waits, and nothing else changes.
LEMMA QueueIs ==
    ASSUME BlockInv, BlockNext, workload.bios # <<>>, Queue(Head(workload.bios))
    PROVE  \E b \in Bio :
              /\ waiting' = waiting \cup {b} /\ b.q = now + 1
              /\ event'.act = "Q" /\ event'.kind = "fs" /\ event'.sector = b.start
              /\ event'.len = b.len /\ event'.pid = b.pid /\ event'.w = b.w
              /\ overlapped' = (overlapped \/ \E c \in InFlight : Overlap(b, c))
              /\ UNCHANGED <<requests, plugged, completed, commands>>
              /\ workload' \in [bios : Seq(RawBio), odd : Nat]
<1> DEFINE h == Head(workload.bios)
           b == [start |-> h.start, len |-> h.len, pid |-> h.pid,
                 w |-> h.w, q |-> now + 1, slept |-> FALSE]
<1>1. workload \in [bios : Seq(RawBio), odd : Nat] /\ now \in Nat
    BY DEF BlockInv, BlockTypes, Events, now
<1>2. h \in RawBio /\ Tail(workload.bios) \in Seq(RawBio)
    BY <1>1
<1>3. workload' \in [bios : Seq(RawBio), odd : Nat]
  <2>1. workload' = [workload EXCEPT !.bios = Tail(@)]
    BY DEF Queue
  <2> QED BY <1>1, <1>2, <2>1
<1> HIDE DEF h
<1>4. b \in Bio
    BY <1>1, <1>2 DEF Bio, RawBio
<1>5. /\ waiting' = waiting \cup {b}
      /\ event' = Event("Q", h.start, h.len, h.pid, h.w, "fs")
      /\ overlapped' = (overlapped \/ \E c \in InFlight : Overlap(h, c))
      /\ UNCHANGED <<requests, plugged, completed, commands>>
    BY DEF Queue, RecordBio, h
<1>6. \A c : Overlap(h, c) <=> Overlap(b, c)
    BY DEF Overlap
<1>7. /\ event'.act = "Q" /\ event'.kind = "fs" /\ event'.sector = b.start
      /\ event'.len = b.len /\ event'.pid = b.pid /\ event'.w = b.w
    BY <1>5 DEF Event
<1>8. b.q = now + 1
    OBVIOUS
<1> HIDE DEF b
<1> QED BY <1>3, <1>4, <1>5, <1>6, <1>7, <1>8

LEMMA QueueStep ==
    ASSUME BlockInv, BlockNext, workload.bios # <<>>, Queue(Head(workload.bios))
    PROVE  BlockInv'
<1>1. PICK b \in Bio :
              /\ waiting' = waiting \cup {b} /\ b.q = now + 1
              /\ overlapped' = (overlapped \/ \E c \in InFlight : Overlap(b, c))
              /\ UNCHANGED <<requests, plugged, completed, commands>>
              /\ workload' \in [bios : Seq(RawBio), odd : Nat]
    BY QueueIs
<1>2. InFlight' = InFlight \cup {b}
    BY <1>1 DEF InFlight
<1>3. BlockTypes'
  <2>1. IsFiniteSet(waiting')
    BY <1>1, FS_AddElement DEF BlockInv, BlockTypes
  <2> QED BY <1>1, <2>1, AgesKept DEF BlockInv, BlockTypes
<1>4. Ages'
    BY <1>1, <1>2, AgesKept DEF Ages
<1>5. \A c \in InFlight : c.q # b.q
    BY <1>1, AgesKept
<1>6. Separate'
  <2>1. b \notin InFlight
    BY <1>5
  <2>2. \A r \in requests : b \notin r.bios
    BY <2>1, InFlightIs
  <2> QED BY <1>1, <1>2, <1>5, <2>2 DEF BlockInv, Separate
<1>7. DoneOK'
  <2>1. \A f \in completed : f.q # b.q
    BY <1>1, AgesKept DEF BlockInv, BlockTypes, Done
  <2> QED BY <1>1, <1>2, <2>1 DEF BlockInv, DoneOK
<1>8. BusyOK'
  <2>1. \A x, y : Overlap(x, y) <=> Overlap(y, x)
    BY DEF Overlap
  <2>2. BusyOK /\ overlapped \in BOOLEAN
    BY DEF BlockInv, BlockTypes
  <2> SUFFICES ASSUME ~overlapped', NEW x \in InFlight', NEW y \in InFlight', x # y
               PROVE  ~Overlap(x, y)
    BY DEF BusyOK, Overlap
  <2>3. ~overlapped /\ \A c \in InFlight : ~Overlap(b, c)
    BY <1>1, <2>2
  <2> QED BY <1>2, <2>1, <2>2, <2>3 DEF BusyOK
<1>9. (\A x \in requests : RequestOK(x))'
    BY <1>1 DEF BlockInv, RequestOK, Covers
<1> QED BY <1>3, <1>4, <1>6, <1>7, <1>8, <1>9 DEF BlockInv

\* blk_add_trace_getrq: a bio that waited becomes a request of its own.
LEMMA GetRequestIs ==
    ASSUME BlockInv, BlockNext, NEW b \in waiting, GetRequest(b)
    PROVE  \E s \in Request :
              /\ requests' = requests \cup {s} /\ waiting' = waiting \ {b}
              /\ s.id = now + 1 /\ s.kind = "fs" /\ s.start = b.start /\ s.len = b.len
              /\ s.w = b.w /\ s.pid = b.pid /\ s.state = "got" /\ s.bios = {b}
              /\ s.g = now + 1 /\ s.i = 0 /\ s.d = 0
              /\ event'.act = "G" /\ event'.kind = "fs" /\ event'.sector = b.start
              /\ event'.len = b.len /\ event'.pid = b.pid /\ event'.w = b.w
              /\ UNCHANGED <<plugged, overlapped, completed, workload, commands>>
<1> DEFINE s == [id |-> now + 1, kind |-> "fs", start |-> b.start, len |-> b.len,
                 w |-> b.w, pid |-> b.pid, state |-> "got", bios |-> {b},
                 g |-> now + 1, i |-> 0, d |-> 0]
<1>1. now \in Nat /\ b \in Bio
    BY DEF BlockInv, BlockTypes, Events, now
<1>2. s \in Request
    BY <1>1 DEF Bio, Request
<1>3. /\ requests' = requests \cup {s} /\ waiting' = waiting \ {b}
      /\ event' = Event("G", b.start, b.len, b.pid, b.w, "fs")
      /\ UNCHANGED <<plugged, overlapped, completed, workload, commands>>
    BY DEF GetRequest, RecordBio
<1>4. /\ event'.act = "G" /\ event'.kind = "fs" /\ event'.sector = b.start
      /\ event'.len = b.len /\ event'.pid = b.pid /\ event'.w = b.w
    BY <1>3 DEF Event
<1>5. /\ s.id = now + 1 /\ s.kind = "fs" /\ s.start = b.start /\ s.len = b.len
      /\ s.w = b.w /\ s.pid = b.pid /\ s.state = "got" /\ s.bios = {b}
      /\ s.g = now + 1 /\ s.i = 0 /\ s.d = 0
    OBVIOUS
<1> HIDE DEF s
<1> QED BY <1>2, <1>3, <1>4, <1>5

LEMMA GetRequestStep ==
    ASSUME BlockInv, BlockNext, NEW b \in waiting, GetRequest(b)
    PROVE  BlockInv'
<1>1. PICK s \in Request :
              /\ requests' = requests \cup {s} /\ waiting' = waiting \ {b}
              /\ s.id = now + 1 /\ s.kind = "fs" /\ s.start = b.start /\ s.len = b.len
              /\ s.w = b.w /\ s.bios = {b}
              /\ s.g = now + 1 /\ s.i = 0 /\ s.d = 0
              /\ UNCHANGED <<plugged, overlapped, completed, workload, commands>>
    BY GetRequestIs
<1>0. b \in Bio /\ b \in InFlight
    BY InFlightIs DEF BlockInv, BlockTypes
<1>2. \A x : x \in InFlight' <=> x \in InFlight
  <2> TAKE x
  <2>1. x \in InFlight' <=> x \in waiting' \/ \E r \in requests' : x \in r.bios
    BY DEF InFlight
  <2>2. (\E r \in requests' : x \in r.bios)
          <=> (x = b \/ \E r \in requests : x \in r.bios)
    <3>1. x \in s.bios <=> x = b
      BY <1>1
    <3>2. requests' = requests \cup {s}
      BY <1>1
    <3> QED BY <3>1, <3>2, Zenon
  <2>3. x \in waiting' <=> x \in waiting /\ x # b
    BY <1>1
  <2> QED BY <2>1, <2>2, <2>3, InFlightIs
<1>3. BlockTypes'
  <2>1. IsFiniteSet(waiting') /\ IsFiniteSet(requests')
    BY <1>1, FS_AddElement, FS_RemoveElement DEF BlockInv, BlockTypes
  <2> QED BY <1>1, <2>1, AgesKept DEF BlockInv, BlockTypes
<1>4. Ages'
  <2>1. s.id \in 1..now' /\ s.g \in 1..now' /\ s.i \in 0..now' /\ s.d \in 0..now'
    BY <1>1, AgesKept
  <2> QED BY <1>1, <1>2, <2>1, AgesKept DEF Ages
<1>5. Separate'
  <2>1. \A r \in requests : r.id # s.id /\ b \notin r.bios
    BY <1>1, AgesKept DEF BlockInv, Separate
  <2> QED BY <1>1, <1>2, <2>1 DEF BlockInv, Separate
<1>7. DoneOK'
  <2>1. \A f \in completed : f.request # s.id
    BY <1>1, AgesKept DEF BlockInv, BlockTypes, Done
  <2> QED BY <1>1, <1>2, <2>1 DEF BlockInv, DoneOK
<1>8. BusyOK'
    BY <1>1, <1>2 DEF BlockInv, BusyOK
<1>9. (\A x \in requests : RequestOK(x))'
  <2>1. IsFiniteSet(s.bios)
    BY <1>1, FS_Singleton
  <2>2. (\A x \in s.bios : x.w = s.w) /\ s.bios # {} /\ s.kind = "fs"
    BY <1>1
  <2>3. Covers(s)
    BY <1>0, <1>1 DEF Covers, Bio
  <2>4. RequestOK(s)
    BY <2>1, <2>2, <2>3 DEF RequestOK
  <2> QED BY <1>1, <2>4 DEF BlockInv, RequestOK, Covers
<1> QED BY <1>3, <1>4, <1>5, <1>7, <1>8, <1>9 DEF BlockInv

\* blk_add_trace_getrq without a bio: a command, which has no bios.
LEMMA GetCommandIs ==
    ASSUME BlockInv, BlockNext, NEW p \in Nat \ {0}, GetCommand(p)
    PROVE  \E s \in Request :
              /\ requests' = requests \cup {s} /\ waiting' = waiting
              /\ s.id = now + 1 /\ s.kind = "pc" /\ s.start = 0
              /\ s.w = 0 /\ s.pid = p /\ s.state = "got" /\ s.bios = {}
              /\ s.g = now + 1 /\ s.i = 0 /\ s.d = 0
              /\ event'.act = "G" /\ event'.kind = "fs" /\ event'.sector = 0
              /\ event'.len = 0 /\ event'.pid = p /\ event'.w = 0
              /\ commands' = commands + 1
              /\ UNCHANGED <<plugged, overlapped, completed>>
              /\ workload' \in [bios : Seq(RawBio), odd : Nat]
<1> DEFINE s == [id |-> now + 1, kind |-> "pc", start |-> 0, len |-> 1, w |-> 0,
                 pid |-> p, state |-> "got", bios |-> {}, g |-> now + 1, i |-> 0,
                 d |-> 0]
<1>1. now \in Nat
    BY DEF BlockInv, BlockTypes, Events, now
<1>2. s \in Request
    BY <1>1 DEF Request
<1>3. /\ requests' = requests \cup {s} /\ waiting' = waiting
      /\ event' = Event("G", 0, 0, p, 0, "fs") /\ commands' = commands + 1
      /\ UNCHANGED <<plugged, overlapped, completed>>
      /\ workload' \in [bios : Seq(RawBio), odd : Nat]
    BY OddWorkload DEF GetCommand
<1>4. /\ event'.act = "G" /\ event'.kind = "fs" /\ event'.sector = 0
      /\ event'.len = 0 /\ event'.pid = p /\ event'.w = 0
    BY <1>3 DEF Event
<1>5. /\ s.id = now + 1 /\ s.kind = "pc" /\ s.start = 0
      /\ s.w = 0 /\ s.pid = p /\ s.state = "got" /\ s.bios = {}
      /\ s.g = now + 1 /\ s.i = 0 /\ s.d = 0
    OBVIOUS
<1> HIDE DEF s
<1> QED BY <1>2, <1>3, <1>4, <1>5

LEMMA GetCommandStep ==
    ASSUME BlockInv, BlockNext, NEW p \in Nat \ {0}, GetCommand(p)
    PROVE  BlockInv'
<1>1. PICK s \in Request :
              /\ requests' = requests \cup {s} /\ waiting' = waiting
              /\ s.id = now + 1 /\ s.kind = "pc" /\ s.start = 0 /\ s.bios = {}
              /\ s.g = now + 1 /\ s.i = 0 /\ s.d = 0
              /\ commands' = commands + 1
              /\ UNCHANGED <<plugged, overlapped, completed>>
              /\ workload' \in [bios : Seq(RawBio), odd : Nat]
    BY GetCommandIs
<1>2. \A x : x \in InFlight' <=> x \in InFlight
  <2>1. InFlight' = waiting' \cup UNION {r.bios : r \in requests'}
    BY DEF InFlight
  <2>2. UNION {r.bios : r \in requests'} = UNION {r.bios : r \in requests}
    BY <1>1
  <2> QED BY <1>1, <2>1, <2>2 DEF InFlight
<1>3. BlockTypes'
  <2>1. IsFiniteSet(waiting') /\ IsFiniteSet(requests')
    BY <1>1, FS_AddElement DEF BlockInv, BlockTypes
  <2> QED BY <1>1, <2>1, AgesKept DEF BlockInv, BlockTypes
<1>4. Ages'
  <2>1. s.id \in 1..now' /\ s.g \in 1..now' /\ s.i \in 0..now' /\ s.d \in 0..now'
    BY <1>1, AgesKept
  <2> QED BY <1>1, <1>2, <2>1, AgesKept DEF Ages
<1>5. Separate'
  <2>1. \A r \in requests : r.id # s.id
    BY <1>1, AgesKept
  <2> QED BY <1>1, <1>2, <2>1 DEF BlockInv, Separate
<1>7. DoneOK'
  <2>1. \A f \in completed : f.request # s.id
    BY <1>1, AgesKept DEF BlockInv, BlockTypes, Done
  <2> QED BY <1>1, <1>2, <2>1 DEF BlockInv, DoneOK
<1>8. BusyOK'
    BY <1>1, <1>2 DEF BlockInv, BusyOK
<1>9. (\A x \in requests : RequestOK(x))'
  <2>1. RequestOK(s)
    BY <1>1, FS_EmptySet DEF RequestOK, Covers
  <2> QED BY <1>1, <2>1 DEF BlockInv, RequestOK, Covers
<1> QED BY <1>3, <1>4, <1>5, <1>7, <1>8, <1>9 DEF BlockInv

LEMMA FiniteImage ==
    ASSUME NEW S, IsFiniteSet(S), NEW T, NEW f \in [S -> T]
    PROVE  IsFiniteSet({f[x] : x \in S})
<1> DEFINE R == {f[x] : x \in S}
<1>1. f \in Surjection(S, R)
    BY DEF Surjection
<1> QED BY <1>1, FS_Surjection

Grown(b, r, s) ==
    /\ s.id = r.id /\ s.kind = r.kind /\ s.w = r.w /\ s.pid = r.pid
    /\ s.state = r.state /\ s.g = r.g /\ s.i = r.i /\ s.d = r.d
    /\ s.bios = r.bios \cup {b} /\ s.len = r.len + b.len
    /\ \/ s.start = r.start /\ r.start + r.len = b.start
       \/ s.start = b.start /\ b.start + b.len = r.start /\ r.start + r.len # b.start

\* A merge at either end: the bio joins the request, which grows by it.
LEMMA MergeIs ==
    ASSUME BlockInv, NEW b \in waiting, NEW r \in requests, Merge(b, r)
    PROVE  \E s \in Request :
              /\ Replace(r, s) /\ waiting' = waiting \ {b} /\ Grown(b, r, s)
              /\ r.kind = "fs" /\ r.state # "issued" /\ r.w = b.w
              /\ event'.act = (IF r.start + r.len = b.start THEN "M" ELSE "F")
              /\ event'.kind = "fs" /\ event'.sector = b.start
              /\ event'.len = b.len /\ event'.pid = b.pid /\ event'.w = b.w
              /\ UNCHANGED <<plugged, overlapped, completed, workload, commands>>
<1>1. b \in Bio /\ r \in Request
    BY DEF BlockInv, BlockTypes
<1>2. PICK start \in Nat, len \in Nat \ {0} :
         /\ start = IF r.start + r.len = b.start THEN r.start ELSE b.start
         /\ len = r.len + b.len
    BY <1>1 DEF Bio, Request
<1>3. PICK s : s = [r EXCEPT !.start = start, !.len = len, !.bios = r.bios \cup {b}]
    OBVIOUS
<1>4. /\ s \in Request /\ s.start = start /\ s.len = len /\ s.bios = r.bios \cup {b}
      /\ s.id = r.id /\ s.kind = r.kind /\ s.w = r.w /\ s.pid = r.pid
      /\ s.state = r.state /\ s.g = r.g /\ s.i = r.i /\ s.d = r.d
    BY ONLY <1>1, <1>3, start \in Nat, len \in Nat \ {0} DEF Request
<1>5. r.start + r.len = b.start \/ b.start + b.len = r.start
    BY DEF Merge
<1>6. Grown(b, r, s)
    BY <1>2, <1>4, <1>5 DEF Grown
<1>7. Replace(r, s) /\ waiting' = waiting \ {b}
    BY <1>2, <1>3 DEF Merge
<1>8. /\ event' = Event(IF r.start + r.len = b.start THEN "M" ELSE "F", b.start, b.len,
                        b.pid, b.w, "fs")
      /\ r.kind = "fs" /\ r.state # "issued" /\ r.w = b.w
      /\ UNCHANGED <<plugged, overlapped, completed, workload, commands>>
    BY DEF Merge, RecordBio
<1>9. /\ event'.act = (IF r.start + r.len = b.start THEN "M" ELSE "F")
      /\ event'.kind = "fs" /\ event'.sector = b.start
      /\ event'.len = b.len /\ event'.pid = b.pid /\ event'.w = b.w
    BY <1>8 DEF Event
<1> QED BY <1>4, <1>6, <1>7, <1>8, <1>9

\* A request that has grown by a bio at its end is covered by its bios.
LEMMA GrownCovers ==
    ASSUME NEW b \in Bio, NEW r \in Request, NEW s \in Request, Grown(b, r, s),
           Covers(r)
    PROVE  Covers(s)
<1>0. /\ b.start \in Nat /\ b.len \in Nat \ {0} /\ r.start \in Nat
      /\ r.len \in Nat \ {0} /\ s.start \in Nat /\ s.len \in Nat \ {0}
      /\ \A c \in r.bios : c.start \in Nat /\ c.len \in Nat \ {0}
    BY DEF Bio, Request
<1>1. /\ s.bios = r.bios \cup {b} /\ s.len = r.len + b.len
      /\ \/ s.start = r.start /\ r.start + r.len = b.start
         \/ s.start = b.start /\ b.start + b.len = r.start
    BY DEF Grown
<1>2. ASSUME NEW c \in s.bios
      PROVE  s.start <= c.start /\ c.start + c.len <= s.start + s.len
  <2>1. CASE c = b
    BY <1>0, <1>1, <2>1
  <2>2. CASE c \in r.bios
    BY <1>0, <1>1, <2>2 DEF Covers
  <2> QED BY <1>1, <2>1, <2>2
<1>3. ASSUME NEW x \in s.start..(s.start + s.len - 1)
      PROVE  \E c \in s.bios : c.start <= x /\ x < c.start + c.len
  <2>1. \/ x \in r.start..(r.start + r.len - 1)
        \/ b.start <= x /\ x < b.start + b.len
    BY <1>0, <1>1
  <2> QED BY <1>1, <2>1 DEF Covers
<1> QED BY <1>2, <1>3 DEF Covers

LEMMA MergeStep ==
    ASSUME BlockInv, BlockNext, NEW b \in waiting, NEW r \in requests, Merge(b, r)
    PROVE  BlockInv'
<1>1. PICK s \in Request :
              /\ Replace(r, s) /\ waiting' = waiting \ {b} /\ Grown(b, r, s)
              /\ r.kind = "fs" /\ r.w = b.w
              /\ UNCHANGED <<plugged, overlapped, completed, workload, commands>>
    BY MergeIs
<1>0. /\ b \in Bio /\ b \in InFlight /\ r \in Request
      /\ requests' = (requests \ {r}) \cup {s}
    BY <1>1, InFlightIs DEF BlockInv, BlockTypes, Replace
<1>a. /\ s.id = r.id /\ s.kind = "fs" /\ s.w = r.w /\ s.g = r.g /\ s.i = r.i
      /\ s.d = r.d /\ s.bios = r.bios \cup {b}
    BY <1>1 DEF Grown
<1>2. \A x : x \in InFlight' <=> x \in InFlight
  <2> TAKE x
  <2>1. x \in InFlight' <=> x \in waiting' \/ \E y \in requests' : x \in y.bios
    BY DEF InFlight
  <2>2. (\E y \in requests' : x \in y.bios)
          <=> (x = b \/ \E y \in requests : x \in y.bios)
    <3>1. x \in s.bios <=> x \in r.bios \/ x = b
      BY <1>a
    <3> QED BY <3>1, <1>0, Zenon
  <2>3. x \in waiting' <=> x \in waiting /\ x # b
    BY <1>1
  <2> QED BY <2>1, <2>2, <2>3, InFlightIs
<1>3. BlockTypes'
  <2>1. IsFiniteSet(waiting') /\ IsFiniteSet(requests')
    BY <1>0, <1>1, FS_AddElement, FS_RemoveElement DEF BlockInv, BlockTypes
  <2> QED BY <1>0, <1>1, <2>1, AgesKept DEF BlockInv, BlockTypes
<1>4. Ages'
  <2>1. s.id \in 1..now' /\ s.g \in 1..now' /\ s.i \in 0..now' /\ s.d \in 0..now'
    BY <1>a, AgesKept
  <2> QED BY <1>0, <1>1, <1>2, <2>1, AgesKept DEF Ages
<1>5. Separate'
  <2>1. \A x \in requests : x # r => x.id # s.id /\ b \notin x.bios
    BY <1>a, AgesKept DEF BlockInv, Separate
  <2>2. \A c \in s.bios : c \notin waiting'
    BY <1>1, <1>a DEF BlockInv, Separate
  <2>3. \A x \in requests : x # r => \A c \in s.bios : c \notin x.bios
    BY <2>1, <1>a DEF BlockInv, Separate
  <2>4. \A x, y \in InFlight' : x.q = y.q => x = y
    BY <1>2 DEF BlockInv, Separate
  <2>5. \A x \in requests' : \A c \in x.bios : c \notin waiting'
    BY <1>0, <1>1, <2>2 DEF BlockInv, Separate
  <2>6. \A x, y \in requests' : x # y => x.id # y.id /\ \A c \in x.bios : c \notin y.bios
    BY <1>0, <2>1, <2>3 DEF BlockInv, Separate
  <2> QED BY <2>4, <2>5, <2>6 DEF Separate
<1>7. DoneOK'
    BY <1>0, <1>1, <1>2, <1>a DEF BlockInv, DoneOK
<1>8. BusyOK'
    BY <1>1, <1>2 DEF BlockInv, BusyOK
<1>9. (\A x \in requests : RequestOK(x))'
  <2>0. RequestOK(r)
    BY DEF BlockInv
  <2>1. IsFiniteSet(s.bios)
    BY <1>a, <2>0, FS_AddElement DEF RequestOK
  <2>2. (\A x \in s.bios : x.w = s.w) /\ s.bios # {} /\ s.kind = "fs"
    BY <1>1, <1>a, <2>0 DEF RequestOK
  <2>3. Covers(s)
    BY <1>0, <1>1, <2>0, GrownCovers DEF RequestOK
  <2>4. RequestOK(s)
    BY <2>1, <2>2, <2>3 DEF RequestOK
  <2> QED BY <1>0, <2>4 DEF BlockInv, RequestOK, Covers
<1> QED BY <1>3, <1>4, <1>5, <1>7, <1>8, <1>9 DEF BlockInv

\* What is done with a request.
DoneOf(r, b, time) ==
    [q |-> b.q, d |-> r.d, c |-> time, pid |-> b.pid, owner |-> r.pid,
     w |-> b.w, request |-> r.id]

LEMMA CompleteIs ==
    ASSUME BlockInv, NEW r \in requests, Complete(r)
    PROVE  /\ r.state = "issued" /\ requests' = requests \ {r}
           /\ completed' = completed \cup {DoneOf(r, b, now + 1) : b \in r.bios}
           /\ event'.act = "C" /\ event'.kind = r.kind
           /\ event'.sector = (IF r.kind = "pc" THEN 0 ELSE r.start)
           /\ event'.len = r.len /\ event'.pid = 0 /\ event'.w = r.w
           /\ UNCHANGED <<waiting, plugged, overlapped, workload, commands>>
<1>1. /\ event' = Event("C", IF r.kind = "pc" THEN 0 ELSE r.start, r.len, 0, r.w,
                        r.kind)
      /\ r.state = "issued" /\ requests' = requests \ {r}
      /\ completed' = completed \cup {DoneOf(r, b, now + 1) : b \in r.bios}
      /\ UNCHANGED <<waiting, plugged, overlapped, workload, commands>>
    BY DEF Complete, RecordRequest, Kernel, DoneOf
<1> QED BY <1>1 DEF Event

LEMMA DoneOfType ==
    ASSUME BlockInv, NEW r \in requests, NEW b \in r.bios
    PROVE  /\ DoneOf(r, b, now + 1) \in Done
           /\ DoneOf(r, b, now + 1).q = b.q /\ DoneOf(r, b, now + 1).d = r.d
           /\ DoneOf(r, b, now + 1).c = now + 1 /\ DoneOf(r, b, now + 1).w = r.w
           /\ DoneOf(r, b, now + 1).owner = r.pid /\ DoneOf(r, b, now + 1).pid = b.pid
           /\ DoneOf(r, b, now + 1).request = r.id
           /\ b \in InFlight /\ b \in Bio /\ b.q <= now /\ r.d <= now /\ b.q \in Nat /\ r.d \in Nat
<1>1. r \in Request /\ b \in Bio /\ b \in InFlight /\ RequestOK(r) /\ now \in Nat
    BY InFlightIs DEF BlockInv, BlockTypes, Request, Events, now
<1>2. b.w = r.w
    BY <1>1 DEF RequestOK
<1>3. b.q \in Nat /\ r.d \in Nat /\ b.pid \in Nat \ {0} /\ r.pid \in Nat \ {0}
      /\ b.w \in {0, 1} /\ r.id \in Nat
    BY <1>1 DEF Bio, Request
<1>4. b.q <= now /\ r.d <= now
    BY <1>1 DEF BlockInv, Ages
<1>5. PICK time \in Nat : time = now + 1
    BY <1>1
<1>6. DoneOf(r, b, time) \in Done
    BY ONLY <1>3, time \in Nat DEF DoneOf, Done
<1> QED BY <1>1, <1>2, <1>3, <1>4, <1>5, <1>6 DEF DoneOf

\* blk_add_trace_rq_complete: the request is gone, its bios are done.
LEMMA CompleteStep ==
    ASSUME BlockInv, BlockNext, NEW r \in requests, Complete(r)
    PROVE  BlockInv'
<1> DEFINE new == {DoneOf(r, b, now + 1) : b \in r.bios}
<1>1. /\ requests' = requests \ {r}
      /\ completed' = completed \cup new
      /\ UNCHANGED <<waiting, plugged, overlapped, workload, commands>>
    BY CompleteIs
<1>b. \A f \in new : \E b \in r.bios : f = DoneOf(r, b, now + 1)
    OBVIOUS
<1>c. IsFiniteSet(new)
  <2>1. IsFiniteSet(r.bios)
    BY DEF BlockInv, RequestOK
  <2> DEFINE f == [b \in r.bios |-> DoneOf(r, b, now + 1)]
  <2>2. f \in [r.bios -> Done]
    BY DoneOfType
  <2>3. new = {f[b] : b \in r.bios}
    OBVIOUS
  <2> HIDE DEF new, f
  <2> QED BY <2>1, <2>2, <2>3, FiniteImage
<1> HIDE DEF new
<1>2. \A x : x \in InFlight' <=> x \in InFlight /\ x \notin r.bios
  <2> TAKE x
  <2>1. x \in InFlight' <=> x \in waiting' \/ \E y \in requests' : x \in y.bios
    BY DEF InFlight
  <2>2. (\E y \in requests' : x \in y.bios)
          <=> (x \notin r.bios /\ \E y \in requests : x \in y.bios)
    BY <1>1 DEF BlockInv, Separate
  <2>3. x \in waiting => x \notin r.bios
    BY DEF BlockInv, Separate
  <2> QED BY <1>1, <2>1, <2>2, <2>3, InFlightIs
<1>3. BlockTypes'
  <2>1. IsFiniteSet(requests') /\ IsFiniteSet(completed')
    BY <1>1, <1>c, FS_Union, FS_RemoveElement DEF BlockInv, BlockTypes
  <2>2. completed' \subseteq Done
    BY <1>1, <1>b, DoneOfType DEF BlockInv, BlockTypes
  <2> QED BY <1>1, <2>1, <2>2, AgesKept DEF BlockInv, BlockTypes
<1>4. Ages'
  <2>1. ASSUME NEW f \in new
        PROVE f.q < f.c /\ f.d < f.c /\ f.c <= now' /\ f.request <= now'
    <3>1. PICK b \in r.bios : f = DoneOf(r, b, now + 1)
      BY <1>b
    <3> QED BY <3>1, DoneOfType, AgesKept
  <2> QED BY <1>1, <1>2, <2>1, AgesKept DEF Ages
<1>5. Separate'
    BY <1>1, <1>2 DEF BlockInv, Separate
<1>7. DoneOK'
  <2>1. ASSUME NEW f \in new
        PROVE  /\ f.request = r.id /\ \A b \in InFlight' : f.q # b.q
               /\ \A g \in new : f.q = g.q => f = g
               /\ \A g \in completed : f.q # g.q
    <3>1. PICK b \in r.bios : f = DoneOf(r, b, now + 1)
      BY <1>b
    <3>2. f.request = r.id /\ f.q = b.q /\ b \in InFlight
      BY <3>1, DoneOfType
    <3>3. \A x \in InFlight' : f.q # x.q
      BY <1>2, <3>2 DEF BlockInv, Separate
    <3>4. ASSUME NEW g \in new, f.q = g.q PROVE f = g
      <4>1. PICK c \in r.bios : g = DoneOf(r, c, now + 1)
        BY <1>b
      <4>2. g.q = c.q /\ c \in InFlight
        BY <4>1, DoneOfType
      <4> QED BY <3>1, <3>2, <3>4, <4>1, <4>2 DEF BlockInv, Separate
    <3>5. \A g \in completed : f.q # g.q
      BY <3>2 DEF BlockInv, DoneOK
    <3> QED BY <3>2, <3>3, <3>4, <3>5
  <2>2. \A f, g \in completed' : f.q = g.q => f = g
    BY <1>1, <2>1 DEF BlockInv, DoneOK
  <2>3. \A f \in completed' : \A b \in InFlight' : f.q # b.q
    BY <1>1, <1>2, <2>1 DEF BlockInv, DoneOK
  <2>4. \A f \in completed' : \A x \in requests' : f.request # x.id
    <3>1. \A x \in requests' : x.id # r.id /\ x \in requests
      BY <1>1 DEF BlockInv, Separate
    <3> QED BY <1>1, <2>1, <3>1 DEF BlockInv, DoneOK
  <2> QED BY <2>2, <2>3, <2>4 DEF DoneOK
<1>8. BusyOK'
    BY <1>1, <1>2 DEF BlockInv, BusyOK
<1>9. (\A x \in requests : RequestOK(x))'
    BY <1>1 DEF BlockInv, RequestOK, Covers
<1> QED BY <1>3, <1>4, <1>5, <1>7, <1>8, <1>9 DEF BlockInv

\* What bios and requests are like stays so at every step of the block layer.
LEMMA BlockInvStep ==
    ASSUME BlockInv, BlockNext
    PROVE  BlockInv'
<1>1. \A b \in InFlight : b.pid \in Nat \ {0}
    BY InFlightIs DEF BlockInv, BlockTypes, Bio, Request
<1>2. ASSUME NEW p \in {b.pid : b \in InFlight}, GetCommand(p) PROVE BlockInv'
    BY <1>1, <1>2, GetCommandStep
<1> QED BY <1>2, QueueStep, SleepStep, GetRequestStep, MergeStep, StateSteps, CompleteStep,
           PlugSteps DEF BlockNext

-----------------------------------------------------------------------------
(* btt: one handler for each event.                                        *)

LEMMA BttActs ==
    ASSUME NEW e, AddTrace(e)
    PROVE  /\ e.act = "Q" => BttQueue(e)
           /\ e.act = "G" /\ e.kind = "fs" /\ Passed(e) => BttGetrq(e)
           /\ e.act = "S" /\ e.kind = "fs" /\ Passed(e) => BttSleep(e)
           /\ e.act = "I" /\ e.kind = "fs" /\ Passed(e) => BttInsert(e)
           /\ e.act \in {"M", "F"} /\ e.kind = "fs" /\ Passed(e) => BttMerge(e)
           /\ e.act = "D" /\ e.kind = "fs" /\ Passed(e) => BttIssue(e)
           /\ e.act = "R" /\ e.kind = "fs" /\ ~pre_culling => BttRequeue(e)
           /\ e.act = "C" /\ e.kind = "fs" /\ Passed(e) => BttComplete(e)
           /\ e.act \in {"P", "U", "UT"} => BttPlug(e)
           /\ e.act \in {"I", "D", "R", "C"} /\ e.kind = "pc" => BttLetGo(e)
           /\ e.act = "G" /\ ~Passed(e) => BttLetGo(e)
<1>1. /\ BttQueue(e) => e.act = "Q"
      /\ BttGetrq(e) => e.act = "G" /\ Passed(e)
      /\ BttSleep(e) => e.act = "S"
      /\ BttInsert(e) => e.act = "I" /\ e.kind = "fs"
      /\ BttMerge(e) => e.act \in {"M", "F"}
      /\ BttIssue(e) => e.act = "D" /\ e.kind = "fs"
      /\ BttRequeue(e) => e.act = "R" /\ e.kind = "fs"
      /\ BttComplete(e) => e.act = "C" /\ e.kind = "fs"
      /\ BttPlug(e) => e.act \in {"P", "U", "UT"}
    BY DEF BttQueue, BttGetrq, BttSleep, BttInsert, BttMerge, BttIssue, BttRequeue,
           BttComplete, BttPlug
<1>2. BttLetGo(e) => /\ e.act \notin {"Q", "P", "U", "UT"}
                     /\ \/ e.kind = "pc" \/ (e.act # "R" /\ ~Passed(e))
                        \/ (e.act = "R" /\ pre_culling)
    BY DEF BttLetGo
<1> QED BY <1>1, <1>2 DEF AddTrace

Times == Nat \cup {Never}
KnownBio ==
    [sector : Nat, len : Nat \ {0}, pid : Nat, w : {0, 1}, q : Nat, g : Times, s : Nat,
     i : Times, m : Times, d : Times]

\* What btt knows is of a time that is over.
KnownInv ==
    /\ qs \subseteq KnownBio /\ IsFiniteSet(qs) /\ pre_culling \in BOOLEAN
    /\ \A q \in qs : q.q \in 1..now /\ q.d <= now

LEMMA FoundIn ==
    /\ \A sector : \A found \in FoundAt(sector) : found \subseteq qs
    /\ \A e : \A found \in FoundWithin(e) : found \subseteq qs
BY DEF FoundAt, Holding, FoundWithin, Within, Missable

\* A bio of which another time is known.
LaterKnown(p, q) ==
    /\ p.sector = q.sector /\ p.len = q.len /\ p.pid = q.pid /\ p.q = q.q
    /\ p.d \in {q.d, now + 1}

LEMMA KnownMarked ==
    ASSUME KnownInv, BlockInv, BlockNext, pre_culling' = pre_culling,
           NEW found, found \subseteq qs, NEW marked,
           \A q \in found : marked[q] \in KnownBio /\ LaterKnown(marked[q], q),
           Marked(found, marked)
    PROVE  KnownInv'
<1>0. now \in Nat /\ now' = now + 1
    BY AgesKept
<1>1. qs' = (qs \ found) \cup {marked[q] : q \in found}
    BY DEF Marked
<1>2. qs' \subseteq KnownBio
    BY <1>1 DEF KnownInv
<1>3. IsFiniteSet(qs')
  <2>1. IsFiniteSet(found) /\ IsFiniteSet(qs \ found)
    BY FS_Subset, FS_Difference DEF KnownInv
  <2> DEFINE f == [q \in found |-> marked[q]]
  <2>2. f \in [found -> KnownBio]
    OBVIOUS
  <2> DEFINE R == {marked[q] : q \in found}
  <2>3. R = {f[q] : q \in found}
    OBVIOUS
  <2> HIDE DEF f, R
  <2>4. IsFiniteSet(R)
    BY <2>1, <2>2, <2>3, FiniteImage
  <2> USE DEF R
  <2> QED BY <1>1, <2>1, <2>4, FS_Union
<1>4. ASSUME NEW p \in qs' PROVE p.q \in 1..now' /\ p.d <= now'
  <2>1. CASE p \in qs
    <3>1. p.q \in 1..now /\ p.d <= now /\ p.d \in Int
      BY <2>1 DEF KnownInv, KnownBio, Times, Never
    <3> QED BY <1>0, <3>1
  <2>2. CASE p \notin qs
    <3>1. PICK q \in found : p = marked[q]
      BY <1>1, <2>2
    <3>2. p.q = q.q /\ p.d \in {q.d, now + 1} /\ q \in qs
      BY <3>1 DEF LaterKnown
    <3>3. q.q \in 1..now /\ q.d <= now /\ q.d \in Int
      BY <3>2 DEF KnownInv, KnownBio, Times, Never
    <3> QED BY <1>0, <3>2, <3>3
  <2> QED BY <2>1, <2>2
<1> QED BY <1>2, <1>3, <1>4 DEF KnownInv

LEMMA KnownSame ==
    ASSUME KnownInv, BlockInv, BlockNext, pre_culling' = pre_culling, qs' \subseteq qs
    PROVE  KnownInv'
<1>0. now \in Nat /\ now' = now + 1
    BY AgesKept
<1>1. IsFiniteSet(qs')
    BY FS_Subset DEF KnownInv
<1>2. ASSUME NEW p \in qs' PROVE p.q \in 1..now' /\ p.d <= now'
  <2>1. p.q \in 1..now /\ p.d <= now /\ p.d \in Int
    BY DEF KnownInv, KnownBio, Times, Never
  <2> QED BY <1>0, <2>1
<1> QED BY <1>1, <1>2 DEF KnownInv

LEMMA KnownInit == AnalysisInit => KnownInv
BY FS_EmptySet DEF AnalysisInit, BttInit, KnownInv

\* The times that are put down.
LEMMA MarkOne ==
    ASSUME NEW q \in KnownBio, NEW time \in Nat, time = now + 1
    PROVE  /\ [q EXCEPT !.g = time] \in KnownBio /\ LaterKnown([q EXCEPT !.g = time], q)
           /\ [q EXCEPT !.g = time].d = q.d
           /\ [q EXCEPT !.s = time] \in KnownBio /\ LaterKnown([q EXCEPT !.s = time], q)
           /\ [q EXCEPT !.s = time].d = q.d
           /\ [q EXCEPT !.i = time] \in KnownBio /\ LaterKnown([q EXCEPT !.i = time], q)
           /\ [q EXCEPT !.i = time].d = q.d
           /\ [q EXCEPT !.m = time] \in KnownBio /\ LaterKnown([q EXCEPT !.m = time], q)
           /\ [q EXCEPT !.m = time].d = q.d
           /\ [q EXCEPT !.d = time] \in KnownBio /\ LaterKnown([q EXCEPT !.d = time], q)
           /\ [q EXCEPT !.d = time].d = time
BY DEF KnownBio, Times, LaterKnown

\* The handlers that put a time down.
LEMMA MarkSteps ==
    ASSUME NEW e, KnownInv, e.time \in Nat, e.time = now + 1,
           BttGetrq(e) \/ BttSleep(e) \/ BttInsert(e) \/ BttMerge(e) \/ BttIssue(e)
    PROVE  \E found, marked :
              /\ \/ ~BttIssue(e) /\ found \in FoundAt(e.sector)
                    /\ \A q \in found : marked[q].d = q.d
                 \/ BttIssue(e) /\ found \in FoundWithin(e)
                    /\ \A q \in found : marked[q].d = e.time
              /\ \A q \in found : marked[q] \in KnownBio /\ LaterKnown(marked[q], q)
              /\ Marked(found, marked)
<1>1. \A q \in qs : q \in KnownBio
    BY DEF KnownInv
<1>2. CASE BttGetrq(e)
  <2>1. PICK found \in FoundAt(e.sector) :
           Marked(found, [q \in found |-> [q EXCEPT !.g = e.time]])
    BY <1>2 DEF BttGetrq
  <2>2. found \subseteq qs /\ ~BttIssue(e)
    BY <1>2, FoundIn DEF BttGetrq, BttIssue
  <2> DEFINE marked == [q \in found |-> [q EXCEPT !.g = e.time]]
  <2>3. \A q \in found : marked[q] = [q EXCEPT !.g = e.time]
    OBVIOUS
  <2> HIDE DEF marked
  <2>4. ASSUME NEW q \in found
        PROVE  marked[q] \in KnownBio /\ LaterKnown(marked[q], q) /\ marked[q].d = q.d
    <3>1. q \in KnownBio
      BY <1>1, <2>2
    <3>2. /\ [q EXCEPT !.g = e.time] \in KnownBio
          /\ LaterKnown([q EXCEPT !.g = e.time], q)
          /\ [q EXCEPT !.g = e.time].d = q.d
      BY <3>1, MarkOne
    <3> QED BY <2>3, <3>2, Zenon
  <2>5. Marked(found, marked)
    BY <2>1 DEF marked
  <2> QED BY <2>2, <2>4, <2>5
<1>3. CASE BttSleep(e)
  <2>1. PICK found \in FoundAt(e.sector) :
           Marked(found, [q \in found |-> [q EXCEPT !.s = e.time]])
    BY <1>3 DEF BttSleep
  <2>2. found \subseteq qs /\ ~BttIssue(e)
    BY <1>3, FoundIn DEF BttSleep, BttIssue
  <2> DEFINE marked == [q \in found |-> [q EXCEPT !.s = e.time]]
  <2>3. \A q \in found : marked[q] = [q EXCEPT !.s = e.time]
    OBVIOUS
  <2> HIDE DEF marked
  <2>4. ASSUME NEW q \in found
        PROVE  marked[q] \in KnownBio /\ LaterKnown(marked[q], q) /\ marked[q].d = q.d
    <3>1. q \in KnownBio
      BY <1>1, <2>2
    <3>2. /\ [q EXCEPT !.s = e.time] \in KnownBio
          /\ LaterKnown([q EXCEPT !.s = e.time], q)
          /\ [q EXCEPT !.s = e.time].d = q.d
      BY <3>1, MarkOne
    <3> QED BY <2>3, <3>2, Zenon
  <2>5. Marked(found, marked)
    BY <2>1 DEF marked
  <2> QED BY <2>2, <2>4, <2>5
<1>4. CASE BttInsert(e)
  <2>1. PICK found \in FoundAt(e.sector) :
           Marked(found, [q \in found |-> [q EXCEPT !.i = e.time]])
    BY <1>4 DEF BttInsert
  <2>2. found \subseteq qs /\ ~BttIssue(e)
    BY <1>4, FoundIn DEF BttInsert, BttIssue
  <2> DEFINE marked == [q \in found |-> [q EXCEPT !.i = e.time]]
  <2>3. \A q \in found : marked[q] = [q EXCEPT !.i = e.time]
    OBVIOUS
  <2> HIDE DEF marked
  <2>4. ASSUME NEW q \in found
        PROVE  marked[q] \in KnownBio /\ LaterKnown(marked[q], q) /\ marked[q].d = q.d
    <3>1. q \in KnownBio
      BY <1>1, <2>2
    <3>2. /\ [q EXCEPT !.i = e.time] \in KnownBio
          /\ LaterKnown([q EXCEPT !.i = e.time], q)
          /\ [q EXCEPT !.i = e.time].d = q.d
      BY <3>1, MarkOne
    <3> QED BY <2>3, <3>2, Zenon
  <2>5. Marked(found, marked)
    BY <2>1 DEF marked
  <2> QED BY <2>2, <2>4, <2>5
<1>5. CASE BttMerge(e)
  <2>1. PICK found \in FoundAt(e.sector) :
           Marked(found, [q \in found |-> [q EXCEPT !.m = e.time]])
    BY <1>5 DEF BttMerge
  <2>2. found \subseteq qs /\ ~BttIssue(e)
    BY <1>5, FoundIn DEF BttMerge, BttIssue
  <2> DEFINE marked == [q \in found |-> [q EXCEPT !.m = e.time]]
  <2>3. \A q \in found : marked[q] = [q EXCEPT !.m = e.time]
    OBVIOUS
  <2> HIDE DEF marked
  <2>4. ASSUME NEW q \in found
        PROVE  marked[q] \in KnownBio /\ LaterKnown(marked[q], q) /\ marked[q].d = q.d
    <3>1. q \in KnownBio
      BY <1>1, <2>2
    <3>2. /\ [q EXCEPT !.m = e.time] \in KnownBio
          /\ LaterKnown([q EXCEPT !.m = e.time], q)
          /\ [q EXCEPT !.m = e.time].d = q.d
      BY <3>1, MarkOne
    <3> QED BY <2>3, <3>2, Zenon
  <2>5. Marked(found, marked)
    BY <2>1 DEF marked
  <2> QED BY <2>2, <2>4, <2>5
<1>6. CASE BttIssue(e)
  <2>1. PICK found \in FoundWithin(e) :
           Marked(found, [q \in found |-> [q EXCEPT !.d = e.time]])
    BY <1>6 DEF BttIssue
  <2>2. found \subseteq qs
    BY FoundIn
  <2> DEFINE marked == [q \in found |-> [q EXCEPT !.d = e.time]]
  <2>3. \A q \in found : marked[q] = [q EXCEPT !.d = e.time]
    OBVIOUS
  <2> HIDE DEF marked
  <2>4. ASSUME NEW q \in found
        PROVE  marked[q] \in KnownBio /\ LaterKnown(marked[q], q) /\ marked[q].d = e.time
    <3>1. q \in KnownBio
      BY <1>1, <2>2
    <3>2. /\ [q EXCEPT !.d = e.time] \in KnownBio
          /\ LaterKnown([q EXCEPT !.d = e.time], q)
          /\ [q EXCEPT !.d = e.time].d = e.time
      BY <3>1, MarkOne
    <3> QED BY <2>3, <3>2, Zenon
  <2>5. Marked(found, marked)
    BY <2>1 DEF marked
  <2> QED BY <1>6, <2>4, <2>5
<1> QED BY <1>2, <1>3, <1>4, <1>5, <1>6

\* Only events of bios and requests bear a size, and those of queueing do.
LEMMA QueueSize ==
    ASSUME BlockInv, BlockNext, event'.act = "Q"
    PROVE  event'.len > 0 /\ event' \in Events /\ event'.time = now + 1 /\ now \in Nat
<1>1. event' \in Events /\ event'.time = now + 1 /\ now \in Nat
    BY EventTimes, AgesKept
<1>2. /\ \A b \in waiting : \A act : RecordBio(act, b) => event'.act = act
      /\ \A r \in requests : \A act, pid : RecordRequest(act, r, pid) => event'.act = act
    BY DEF RecordBio, RecordRequest, Event
<1>3. \A b \in waiting : ~Sleep(b) /\ ~GetRequest(b) /\ \A r \in requests : ~Merge(b, r)
    BY <1>2 DEF Sleep, GetRequest, Merge
<1>4. \A r \in requests : ~Insert(r) /\ ~Issue(r) /\ ~Requeue(r) /\ ~Complete(r)
    BY <1>2 DEF Insert, Issue, Requeue, Complete
<1>5. /\ \A p : ~GetCommand(p)
      /\ ~Plug /\ \A act \in {"U", "UT"} : ~Unplug(act)
    BY DEF GetCommand, Plug, Unplug, Event
<1>6. workload.bios # <<>> /\ Queue(Head(workload.bios))
    BY <1>3, <1>4, <1>5 DEF BlockNext
<1>7. PICK b \in Bio : event'.len = b.len
    BY <1>6, QueueIs
<1> QED BY <1>1, <1>7 DEF Bio

LEMMA KnownStep ==
    ASSUME KnownInv, BlockInv, BlockNext, AddTrace(event')
    PROVE  KnownInv'
<1>0. /\ now \in Nat /\ now' = now + 1 /\ event' \in Events /\ event'.time = now + 1
      /\ event'.time \in Nat
    BY EventTimes, AgesKept
<1> DEFINE e == event'
<1>1. CASE BttQueue(e)
  <2>0. pre_culling' = FALSE
    BY <1>1 DEF BttQueue
  <2>1. CASE qs' = qs
    <3>1. IsFiniteSet(qs') /\ qs' \subseteq KnownBio
      BY <2>1 DEF KnownInv
    <3>2. ASSUME NEW p \in qs' PROVE p.q \in 1..now' /\ p.d <= now'
      <4>1. p.q \in 1..now /\ p.d <= now /\ p.d \in Int
        BY <2>1 DEF KnownInv, KnownBio, Times, Never
      <4> QED BY <1>0, <4>1
    <3> QED BY <2>0, <3>1, <3>2 DEF KnownInv
  <2>2. CASE qs' = qs \cup {NewQ(e)}
    <3>1. /\ NewQ(e) \in KnownBio /\ NewQ(e).q = now + 1 /\ NewQ(e).d = -1
      <4>1. e.act = "Q"
        BY <1>1 DEF BttQueue
      <4>2. e.len \in Nat \ {0} /\ e.sector \in Nat /\ e.pid \in Nat /\ e.w \in {0, 1}
        BY <4>1, QueueSize DEF Events
      <4> HIDE DEF e
      <4> QED BY <1>0, <4>2 DEF NewQ, KnownBio, Times, Never, e
    <3>2. IsFiniteSet(qs') /\ qs' \subseteq KnownBio
      BY <2>2, <3>1, FS_AddElement DEF KnownInv
    <3>3. ASSUME NEW p \in qs' PROVE p.q \in 1..now' /\ p.d <= now'
      <4>1. CASE p \in qs
        <5>1. p.q \in 1..now /\ p.d <= now /\ p.d \in Int
          BY <4>1 DEF KnownInv, KnownBio, Times, Never
        <5> QED BY <1>0, <5>1
      <4>2. CASE p = NewQ(e)
        BY <1>0, <3>1, <4>2
      <4> QED BY <2>2, <4>1, <4>2
    <3> QED BY <2>0, <3>2, <3>3 DEF KnownInv
  <2> QED BY <1>1, <2>1, <2>2 DEF BttQueue
<1>2. CASE BttGetrq(e) \/ BttSleep(e) \/ BttInsert(e) \/ BttMerge(e) \/ BttIssue(e)
  <2>1. pre_culling' = pre_culling
    BY <1>2 DEF BttGetrq, BttSleep, BttInsert, BttMerge, BttIssue
  <2>2. PICK found, marked :
              /\ found \in FoundAt(e.sector) \/ found \in FoundWithin(e)
              /\ \A q \in found : marked[q] \in KnownBio /\ LaterKnown(marked[q], q)
              /\ Marked(found, marked)
    BY <1>0, <1>2, MarkSteps
  <2>3. found \subseteq qs
    BY <2>2, FoundIn
  <2> QED BY <2>1, <2>2, <2>3, KnownMarked
<1>3. CASE BttRequeue(e) \/ BttPlug(e) \/ BttLetGo(e)
  <2>1. pre_culling' = pre_culling /\ qs' = qs
    BY <1>3 DEF BttRequeue, BttPlug, BttLetGo
  <2> QED BY <2>1, KnownSame
<1>4. CASE BttComplete(e)
  <2>1. pre_culling' = pre_culling /\ qs' \subseteq qs
    BY <1>4 DEF BttComplete
  <2> QED BY <2>1, KnownSame
<1> QED BY <1>1, <1>2, <1>3, <1>4 DEF AddTrace

-----------------------------------------------------------------------------
(* Ranges of time.                                                         *)

Span == [start : Nat, end : Nat]

LEMMA MinOf ==
    ASSUME NEW S, S \subseteq Nat, S # {}
    PROVE  Min(S) \in S /\ \A x \in S : Min(S) <= x
<1>1. PICK x \in S : \A y \in S : ~(y < x)
    BY LeastOf
<1>2. \A y \in S : x <= y
    BY <1>1
<1> QED BY <1>2 DEF Min

LEMMA MaxOf ==
    ASSUME NEW S, NEW m \in S, S \subseteq Nat, \A x \in S : x <= m
    PROVE  Max(S) = m
<1>1. \E x \in S : \A y \in S : x >= y
    OBVIOUS
<1>2. Max(S) \in S /\ \A y \in S : Max(S) >= y
  <2> HIDE <1>1
  <2> QED BY <1>1 DEF Max
<1>3. PICK n : n = Max(S)
    OBVIOUS
<1>4. n \in Nat /\ m \in Nat /\ n >= m /\ n <= m
    BY <1>2, <1>3
<1> QED BY <1>3, <1>4

\* Ranges in order, that begin before they end, apart by range_delta, and over.
RangesOK(ranges, time) ==
    /\ ranges \in Seq(Span)
    /\ \A k \in 1..Len(ranges) : ranges[k].start <= ranges[k].end /\ ranges[k].end <= time
    /\ Apart(ranges)

\* update_range keeps the ranges in order and apart by range_delta.
LEMMA InRangeOK ==
    ASSUME NEW ranges, NEW time \in Nat, RangesOK(ranges, time)
    PROVE  RangesOK(InRange(ranges, time + 1), time + 1)
<1> DEFINE n == Len(ranges)
           new == [start |-> time + 1, end |-> time + 1]
<1>0. n \in Nat /\ ranges \in Seq(Span) /\ range_delta \in Nat /\ new \in Span
    BY AnalysisAssumption DEF RangesOK, Span
<1>1. \A k \in 1..n : /\ ranges[k] \in Span /\ ranges[k].start \in Nat
                      /\ ranges[k].end \in Nat /\ ranges[k].start <= ranges[k].end
                      /\ ranges[k].end <= time
  <2> TAKE k \in 1..n
  <2>1. ranges[k] \in Span
    BY <1>0
  <2> QED BY <2>1 DEF RangesOK, Span
<1>2. \A k \in 2..n : ranges[k].start - ranges[k - 1].end >= range_delta
    BY DEF RangesOK, Apart
<1>3. CASE n > 0 /\ time + 1 < ranges[n].end
    BY <1>0, <1>1, <1>3
<1>4. CASE n > 0 /\ (time + 1) - ranges[n].end < range_delta
  <2> DEFINE last == [ranges[n] EXCEPT !.end = time + 1]
  <2>0. ranges[n] \in Span /\ time + 1 \in Nat
    BY <1>0, <1>1, <1>4
  <2>1. last \in Span /\ last.start = ranges[n].start /\ last.end = time + 1
    BY ONLY <2>0 DEF Span
  <2>2. InRange(ranges, time + 1) = [ranges EXCEPT ![n] = last]
    BY <1>0, <1>1, <1>4 DEF InRange
  <2> HIDE DEF last
  <2>3. PICK s : s = [ranges EXCEPT ![n] = last]
    OBVIOUS
  <2>4. /\ s \in Seq(Span) /\ Len(s) = n /\ s[n] = last
        /\ \A k \in 1..n : k # n => s[k] = ranges[k]
    BY <1>0, <1>4, <2>1, <2>3
  <2>5. \A k \in 1..n : s[k].start = ranges[k].start /\ s[k].start <= s[k].end
                        /\ s[k].end <= time + 1
    BY <1>0, <1>1, <1>4, <2>1, <2>4
  <2>6. ASSUME NEW k \in 2..n
        PROVE s[k - 1].start <= s[k - 1].end /\ s[k].start - s[k - 1].end >= range_delta
    <3>1. k - 1 \in 1..n /\ k - 1 # n /\ k \in 1..n
      BY <1>0
    <3> QED BY <1>1, <1>2, <2>4, <2>5, <3>1
  <2>7. RangesOK(s, time + 1)
    BY <2>4, <2>5, <2>6 DEF RangesOK, Apart
  <2> QED BY <2>2, <2>3, <2>7
<1>5. CASE n = 0 \/ (~(time + 1 < ranges[n].end) /\ ~((time + 1) - ranges[n].end < range_delta))
  <2>1. InRange(ranges, time + 1) = Append(ranges, new)
    <3>1. ~(n > 0 /\ time + 1 < ranges[n].end)
      BY <1>0, <1>5
    <3>2. ~(n > 0 /\ (time + 1) - ranges[n].end < range_delta)
      BY <1>0, <1>5
    <3>3. InRange(ranges, time + 1) =
             IF n > 0 /\ time + 1 < ranges[n].end THEN ranges
             ELSE IF n > 0 /\ (time + 1) - ranges[n].end < range_delta
             THEN [ranges EXCEPT ![n].end = time + 1]
             ELSE Append(ranges, new)
      BY Zenon DEF InRange
    <3> HIDE DEF n, new
    <3> QED BY <3>1, <3>2, <3>3, Zenon
  <2>2. new.start = time + 1 /\ new.end = time + 1
    OBVIOUS
  <2> HIDE DEF new
  <2>3. PICK s : s = Append(ranges, new)
    OBVIOUS
  <2>4. /\ s \in Seq(Span) /\ Len(s) = n + 1 /\ s[n + 1] = new
        /\ \A k \in 1..n : s[k] = ranges[k]
    BY <1>0, <2>3
  <2>5. \A k \in 1..(n + 1) : s[k].start <= s[k].end /\ s[k].end <= time + 1
    BY <1>0, <1>1, <2>2, <2>4
  <2>6. ASSUME NEW k \in 2..(n + 1)
        PROVE s[k - 1].start <= s[k - 1].end /\ s[k].start - s[k - 1].end >= range_delta
    <3>1. k - 1 \in 1..n
      BY <1>0
    <3>2. CASE k = n + 1
      BY <1>0, <1>1, <1>5, <2>2, <2>4, <3>1, <3>2
    <3>3. CASE k \in 2..n
      BY <1>0, <1>1, <1>2, <2>4, <3>1, <3>3
    <3> QED BY <3>2, <3>3, <1>0
  <2>7. RangesOK(s, time + 1)
    BY <2>4, <2>5, <2>6 DEF RangesOK, Apart
  <2> QED BY <2>1, <2>3, <2>7
<1> QED BY <1>0, <1>3, <1>4, <1>5

LEMMA RangesLater ==
    ASSUME NEW ranges, NEW time \in Nat, RangesOK(ranges, time)
    PROVE  RangesOK(ranges, time + 1)
<1>1. \A k \in 1..Len(ranges) : ranges[k].end \in Nat
  <2> TAKE k \in 1..Len(ranges)
  <2>1. ranges[k] \in Span
    BY DEF RangesOK
  <2> QED BY <2>1 DEF Span
<1> QED BY <1>1 DEF RangesOK

\* The ranges with a bio on the device: they do not touch.
Untouched(ranges) == \A a, b \in ranges : a # b => a.end < b.start \/ b.end < a.start
LivesOK(ranges, time) ==
    /\ ranges \subseteq Span /\ IsFiniteSet(ranges)
    /\ \A r \in ranges : r.start <= r.end /\ r.end <= time
    /\ Untouched(ranges)

LEMMA InsideIs ==
    ASSUME NEW r \in Span, NEW dt \in Nat, NEW ct \in Nat, dt <= ct, r.start <= r.end
    PROVE  Inside(r, dt, ct) <=> r.start <= ct /\ dt <= r.end
BY DEF Inside, Span

\* The new range and those it meets become one, from the first of them to now.
LEMMA WithLiveIs ==
    ASSUME NEW ranges, NEW time \in Nat, LivesOK(ranges, time), NEW dt \in Nat, dt <= time
    PROVE  LET met == {r \in ranges : Inside(r, dt, time + 1)}
           IN  \E hull \in Span :
                  /\ WithLive(ranges, dt, time + 1) = (ranges \ met) \cup {hull}
                  /\ hull.end = time + 1 /\ hull.start \in {dt} \cup {r.start : r \in met}
                  /\ hull.start <= dt /\ \A r \in met : hull.start <= r.start
<1> DEFINE met == {r \in ranges : Inside(r, dt, time + 1)}
           starts == {dt} \cup {r.start : r \in met}
           ends == {time + 1} \cup {r.end : r \in met}
           hull == [start |-> Min(starts), end |-> Max(ends)]
<1>0. \A r \in ranges : r.start \in Nat /\ r.end \in Nat /\ r.end <= time
    BY DEF LivesOK, Span
<1>1. Min(starts) \in starts /\ \A x \in starts : Min(starts) <= x
  <2>1. starts \subseteq Nat /\ starts # {}
    BY <1>0
  <2> HIDE DEF starts
  <2> QED BY <2>1, MinOf
<1>2. Max(ends) = time + 1
  <2>1. ends \subseteq Nat /\ time + 1 \in ends /\ \A x \in ends : x <= time + 1
    BY <1>0
  <2> HIDE DEF ends
  <2> QED BY <2>1, MaxOf
<1>3. WithLive(ranges, dt, time + 1) = (ranges \ met) \cup {hull}
    BY DEF WithLive
<1>4. hull.end = time + 1 /\ hull.start = Min(starts)
    BY <1>2
<1>5. hull \in Span
    BY <1>0, <1>1, <1>2 DEF Span
<1> HIDE DEF hull
<1>6. /\ hull.start \in {dt} \cup {r.start : r \in met}
      /\ hull.start <= dt /\ \A r \in met : hull.start <= r.start
    BY <1>1, <1>4
<1> QED BY <1>3, <1>4, <1>5, <1>6

\* p_live_add keeps the ranges apart.
LEMMA WithLiveOK ==
    ASSUME NEW ranges, NEW time \in Nat, LivesOK(ranges, time), NEW dt \in Nat, dt <= time
    PROVE  /\ LivesOK(WithLive(ranges, dt, time + 1), time + 1)
           /\ \A x \in Int : (\E r \in WithLive(ranges, dt, time + 1) : x \in r.start..r.end)
                 <=> (x \in dt..(time + 1) \/ \E r \in ranges : x \in r.start..r.end)
<1> DEFINE met == {r \in ranges : Inside(r, dt, time + 1)}
<1>1. PICK hull \in Span :
                  /\ WithLive(ranges, dt, time + 1) = (ranges \ met) \cup {hull}
                  /\ hull.end = time + 1 /\ hull.start \in {dt} \cup {r.start : r \in met}
                  /\ hull.start <= dt /\ \A r \in met : hull.start <= r.start
    BY WithLiveIs
<1>0. /\ \A r \in ranges : /\ r \in Span /\ r.start \in Nat /\ r.end \in Nat
                           /\ r.start <= r.end /\ r.end <= time
      /\ hull.start \in Nat /\ hull.end \in Nat
    BY DEF LivesOK, Span
<1>2. \A r \in ranges : r \in met <=> r.start <= time + 1 /\ dt <= r.end
  <2> TAKE r \in ranges
  <2>1. Inside(r, dt, time + 1) <=> r.start <= time + 1 /\ dt <= r.end
    BY <1>0, InsideIs
  <2> QED BY <2>1
<1>3. met \subseteq ranges
    OBVIOUS
<1> HIDE DEF met
<1>4. \A r \in ranges \ met : r.end < hull.start
  <2> TAKE r \in ranges \ met
  <2>1. r.end < dt
    BY <1>0, <1>2
  <2>2. ASSUME NEW m \in met, hull.start = m.start PROVE r.end < hull.start
    <3>1. m.end < r.start \/ r.end < m.start
      BY <1>3 DEF LivesOK, Untouched
    <3>2. dt <= m.end
      BY <1>2, <1>3
    <3> QED BY <1>0, <1>3, <2>1, <2>2, <3>1, <3>2
  <2> QED BY <1>1, <2>1, <2>2
<1>5. LivesOK(WithLive(ranges, dt, time + 1), time + 1)
  <2>1. IsFiniteSet((ranges \ met) \cup {hull})
    BY <1>3, FS_Difference, FS_Subset, FS_AddElement DEF LivesOK
  <2>2. \A r \in (ranges \ met) \cup {hull} : r \in Span /\ r.start <= r.end /\ r.end <= time + 1
    BY <1>0, <1>1
  <2>3. Untouched((ranges \ met) \cup {hull})
    BY <1>4 DEF LivesOK, Untouched
  <2> QED BY <1>1, <2>1, <2>2, <2>3 DEF LivesOK
<1>6. ASSUME NEW x \in Int
      PROVE  (\E r \in WithLive(ranges, dt, time + 1) : x \in r.start..r.end)
                 <=> (x \in dt..(time + 1) \/ \E r \in ranges : x \in r.start..r.end)
  <2>1. x \in hull.start..hull.end
           <=> (x \in dt..(time + 1) \/ \E r \in met : x \in r.start..r.end)
    <3>1. ASSUME x \in hull.start..hull.end, x < dt PROVE \E r \in met : x \in r.start..r.end
      <4>1. PICK m \in met : hull.start = m.start
        BY <1>0, <1>1, <3>1
      <4>2. dt <= m.end
        BY <1>2, <1>3
      <4>3. x \in m.start..m.end
        BY <1>0, <1>3, <3>1, <4>1, <4>2
      <4> QED BY <4>3
    <3>2. ASSUME NEW r \in met, x \in r.start..r.end PROVE x \in hull.start..hull.end
      BY <1>0, <1>1, <1>3, <3>2
    <3>3. ASSUME x \in dt..(time + 1) PROVE x \in hull.start..hull.end
      BY <1>0, <1>1, <3>3
    <3>4. ASSUME x \in hull.start..hull.end, ~(x < dt) PROVE x \in dt..(time + 1)
      BY <1>0, <1>1, <3>4
    <3> QED BY <3>1, <3>2, <3>3, <3>4
  <2>2. (\E r \in WithLive(ranges, dt, time + 1) : x \in r.start..r.end)
           <=> (x \in hull.start..hull.end \/ \E r \in ranges \ met : x \in r.start..r.end)
    BY <1>1
  <2> QED BY <1>3, <2>1, <2>2
<1> QED BY <1>5, <1>6

\* The ranges are apart, and over.
RangesInv ==
    LivesOK(lives, now) /\ RangesOK(qranges, now) /\ RangesOK(cranges, now)

LEMMA RangesInit == AnalysisInit => RangesInv
<1> SUFFICES ASSUME AnalysisInit PROVE RangesInv
    OBVIOUS
<1>1. lives = {} /\ qranges = <<>> /\ cranges = <<>> /\ now = 0
    BY DEF AnalysisInit, BttInit, BlockInit, now
<1>2. LivesOK({}, 0)
    BY FS_EmptySet DEF LivesOK, Untouched
<1>3. RangesOK(<<>>, 0)
    BY DEF RangesOK, Apart
<1> QED BY <1>1, <1>2, <1>3 DEF RangesInv

LEMMA LivesLater ==
    ASSUME NEW ranges, NEW time \in Nat, LivesOK(ranges, time)
    PROVE  LivesOK(ranges, time + 1)
<1>1. \A r \in ranges : r.end \in Nat
    BY DEF LivesOK, Span
<1> QED BY <1>1 DEF LivesOK

\* Those that are let go were found, and the first of them was put on the device
\* at a time that is over.
LEMMA FirstIssued ==
    ASSUME KnownInv, BlockInv, NEW issued, issued \subseteq qs, issued # {},
           \A q \in issued : q.d # Never
    PROVE  /\ Min({q.d : q \in issued}) \in Nat
           /\ \A q \in issued : Min({p.d : p \in issued}) <= q.d /\ q.d \in Nat
           /\ Min({q.d : q \in issued}) <= now
           /\ Min({q.d : q \in issued}) \in {q.d : q \in issued}
<1> DEFINE times == {q.d : q \in issued}
<1>1. \A q \in issued : q.d \in Nat /\ q.d <= now
    BY DEF KnownInv, KnownBio, Times
<1>2. times \subseteq Nat /\ times # {} /\ \A x \in times : x <= now
    BY <1>1
<1> HIDE DEF times
<1>3. Min(times) \in times /\ \A x \in times : Min(times) <= x
    BY <1>2, MinOf
<1> QED BY <1>1, <1>2, <1>3 DEF times

LEMMA RangesStep ==
    ASSUME KnownInv, BlockInv, BlockNext, RangesInv,
           AddTrace(event') \/ UNCHANGED <<lives, qranges, cranges>>
    PROVE  RangesInv'
<1>0. /\ now \in Nat /\ now' = now + 1 /\ event'.time = now + 1
    BY EventTimes, AgesKept
<1>1. /\ LivesOK(lives, now + 1) /\ RangesOK(qranges, now + 1)
      /\ RangesOK(cranges, now + 1)
    BY <1>0, LivesLater, RangesLater DEF RangesInv
<1>2. /\ RangesOK(InRange(qranges, now + 1), now + 1)
      /\ RangesOK(InRange(cranges, now + 1), now + 1)
    BY <1>0, InRangeOK DEF RangesInv
<1> DEFINE e == event'
<1>3. qranges' \in {qranges, InRange(qranges, e.time)}
    BY DEF AddTrace, BttQueue, BttGetrq, BttSleep, BttInsert, BttMerge, BttIssue,
           BttRequeue, BttComplete, BttPlug, BttLetGo
<1>4. cranges' \in {cranges, InRange(cranges, e.time)}
    BY DEF AddTrace, BttQueue, BttGetrq, BttSleep, BttInsert, BttMerge, BttIssue,
           BttRequeue, BttComplete, BttPlug, BttLetGo
<1>5. LivesOK(lives', now + 1)
  <2>1. ASSUME BttComplete(e) PROVE LivesOK(lives', now + 1)
    <3>1. PICK found \in FoundWithin(e) :
             LET issued == {q \in found : q.d # Never}
             IN lives' = IF issued = {} THEN lives
                         ELSE WithLive(lives, Min({q.d : q \in issued}), e.time)
      BY <2>1 DEF BttComplete
    <3> DEFINE issued == {q \in found : q.d # Never}
    <3>2. issued \subseteq qs /\ \A q \in issued : q.d # Never
      BY FoundIn
    <3>3. lives' = IF issued = {} THEN lives
                         ELSE WithLive(lives, Min({q.d : q \in issued}), e.time)
      BY <3>1
    <3> HIDE DEF issued
    <3>4. CASE issued = {}
      BY <1>1, <3>3, <3>4
    <3>5. CASE issued # {}
      <4>1. PICK first \in Nat : first = Min({q.d : q \in issued}) /\ first <= now
        BY <3>2, <3>5, FirstIssued
      <4>2. LivesOK(WithLive(lives, first, now + 1), now + 1)
        BY <1>0, <4>1, WithLiveOK DEF RangesInv
      <4> QED BY <1>0, <3>3, <3>5, <4>1, <4>2
    <3> QED BY <3>4, <3>5
  <2>2. ~BttComplete(e) => lives' = lives
    BY DEF AddTrace, BttQueue, BttGetrq, BttSleep, BttInsert, BttMerge, BttIssue,
           BttRequeue, BttPlug, BttLetGo
  <2> QED BY <1>1, <2>1, <2>2
<1> QED BY <1>0, <1>1, <1>2, <1>3, <1>4, <1>5 DEF RangesInv

\* The ranges cover what btt has taken out, and nothing else.
SpansCovered ==
    \A x \in Int : (\E r \in lives : x \in r.start..r.end)
                      <=> (\E s \in spans : x \in s[1]..s[2])

\* A completion adds the times of its bios to both, whichever of them btt finds.
LEMMA SpansStep ==
    ASSUME KnownInv, BlockInv, BlockNext, RangesInv, SpansCovered,
           \/ AddTrace(event') /\ spans' = spans \cup TakenOut
           \/ UNCHANGED <<lives, spans>>
    PROVE  SpansCovered'
<1>0. /\ now \in Nat /\ event'.time = now + 1
    BY EventTimes, AgesKept
<1>1. ASSUME lives' = lives, spans' = spans PROVE SpansCovered'
    BY <1>1 DEF SpansCovered
<1>2. ASSUME BttComplete(event'), spans' = spans \cup TakenOut PROVE SpansCovered'
  <2>1. PICK found \in FoundWithin(event') :
           LET issued == {q \in found : q.d # Never}
           IN /\ lives' = IF issued = {} THEN lives
                          ELSE WithLive(lives, Min({q.d : q \in issued}), event'.time)
              /\ qs' = qs \ found
    BY <1>2 DEF BttComplete
  <2> DEFINE issued == {q \in found : q.d # Never}
  <2>2. found \subseteq qs /\ issued \subseteq qs /\ \A q \in issued : q.d # Never
    BY FoundIn
  <2>3. lives' = IF issued = {} THEN lives
                 ELSE WithLive(lives, Min({q.d : q \in issued}), event'.time)
    BY <2>1
  <2>4. qs \ qs' = found /\ event'.act = "C"
    BY <1>2, <2>1, <2>2 DEF BttComplete
  <2>5. TakenOut = {<<q.d, now + 1>> : q \in issued}
    BY <1>0, <2>4 DEF TakenOut
  <2> HIDE DEF issued
  <2>6. CASE issued = {}
    <3>1. TakenOut = {}
      BY <2>5, <2>6
    <3> QED BY <1>1, <1>2, <2>3, <2>6, <3>1
  <2>7. CASE issued # {}
    <3>1. PICK first \in Nat : /\ first = Min({q.d : q \in issued}) /\ first <= now
                               /\ first \in {q.d : q \in issued}
                               /\ \A q \in issued : first <= q.d /\ q.d \in Nat
      BY <2>2, <2>7, FirstIssued
    <3>2. \A x \in Int : (\E r \in lives' : x \in r.start..r.end)
                 <=> (x \in first..(now + 1) \/ \E r \in lives : x \in r.start..r.end)
      BY <1>0, <2>3, <2>7, <3>1, WithLiveOK DEF RangesInv
    <3>3. ASSUME NEW x \in Int
          PROVE  (\E s \in spans' : x \in s[1]..s[2])
                    <=> (x \in first..(now + 1) \/ \E s \in spans : x \in s[1]..s[2])
      <4>1. (\E s \in spans' : x \in s[1]..s[2])
               <=> \/ \E s \in spans : x \in s[1]..s[2]
                   \/ \E q \in issued : x \in q.d..(now + 1)
        <5>1. spans' = spans \cup {<<q.d, now + 1>> : q \in issued}
          BY <1>2, <2>5
        <5>2. \A q \in issued : /\ <<q.d, now + 1>> \in spans'
                                /\ <<q.d, now + 1>>[1] = q.d
                                /\ <<q.d, now + 1>>[2] = now + 1
          BY <5>1
        <5>3. \A s \in spans' : s \in spans \/ \E q \in issued : s = <<q.d, now + 1>>
          BY <5>1
        <5>4. \A s \in spans : s \in spans'
          BY <5>1
        <5> QED BY <5>2, <5>3, <5>4
      <4>2. x \in first..(now + 1) <=> \E q \in issued : x \in q.d..(now + 1)
        BY <1>0, <3>1
      <4> QED BY <4>1, <4>2
    <3> QED BY <3>2, <3>3 DEF SpansCovered
  <2> QED BY <2>6, <2>7
<1>3. ASSUME ~BttComplete(event'), AddTrace(event'), spans' = spans \cup TakenOut
      PROVE  SpansCovered'
  <2>1. lives' = lives
    BY <1>3 DEF AddTrace, BttQueue, BttGetrq, BttSleep, BttInsert, BttMerge, BttIssue,
           BttRequeue, BttPlug, BttLetGo
  <2>2. event'.act = "C" => qs' = qs
    BY <1>3 DEF AddTrace, BttQueue, BttGetrq, BttSleep, BttInsert, BttMerge, BttIssue,
           BttRequeue, BttPlug, BttLetGo
  <2>3. TakenOut = {}
    BY <2>2 DEF TakenOut
  <2> QED BY <1>1, <1>3, <2>1, <2>3
<1> QED BY <1>1, <1>2, <1>3

-----------------------------------------------------------------------------
(* Nothing missing and nothing overlapping: btt knows the bios in flight.  *)

\* Once two bios have overlapped it is not forgotten.
LEMMA OverlapKept == BlockNext /\ overlapped => overlapped'
BY DEF BlockNext, Queue, Sleep, GetRequest, Merge, GetCommand, Insert, Issue, Requeue,
       Complete, Plug, Unplug

\* While nothing is missing every event is read by both programs.
LEMMA PlainStep ==
    ASSUME BlockInv, lost \in Nat, AnalysisNext, Plain'
    PROVE  Plain /\ BlockNext /\ DumpTrace(event') /\ AddTrace(event')
<1>1. BlockNext /\ lost' = 0 /\ ~overlapped'
    BY DEF AnalysisNext, Plain
<1>2. ~Missing
    BY <1>1 DEF Missing
<1>3. Read
    BY <1>2 DEF AnalysisNext
<1> QED BY <1>1, <1>3, OverlapKept DEF Read, Plain

\* The event of a request.
LEMMA RequestEvents ==
    ASSUME NEW r \in requests
    PROVE  /\ Insert(r) => event'.act = "I" /\ event'.pid = r.pid
           /\ Issue(r) => event'.act = "D" /\ event'.pid = 0
           /\ Requeue(r) => event'.act = "R" /\ event'.pid = 0
           /\ Complete(r) => event'.act = "C" /\ event'.pid = 0
           /\ (Insert(r) \/ Issue(r) \/ Requeue(r) \/ Complete(r)) =>
                 /\ event'.kind = r.kind /\ event'.len = r.len /\ event'.w = r.w
                 /\ event'.time = now + 1
                 /\ event'.sector = (IF r.kind = "pc" THEN 0 ELSE r.start)
<1>1. \A act, pid : RecordRequest(act, r, pid) =>
           /\ event'.act = act /\ event'.pid = pid
           /\ event'.kind = r.kind /\ event'.len = r.len /\ event'.w = r.w
           /\ event'.time = now + 1
           /\ event'.sector = (IF r.kind = "pc" THEN 0 ELSE r.start)
    BY DEF RecordRequest, Event
<1> QED BY <1>1 DEF Insert, Issue, Requeue, Complete, Kernel

LEMMA SleepIs ==
    ASSUME BlockInv, NEW b \in waiting, Sleep(b)
    PROVE  \E c \in Bio :
              /\ c.start = b.start /\ c.len = b.len /\ c.pid = b.pid /\ c.q = b.q
              /\ c.w = b.w
              /\ waiting' = (waiting \ {b}) \cup {c} /\ requests' = requests
              /\ completed' = completed /\ overlapped' = overlapped
              /\ commands' = commands
              /\ event'.act = "S" /\ event'.kind = "fs" /\ event'.sector = b.start
              /\ event'.len = b.len /\ event'.pid = b.pid /\ event'.w = b.w
<1>0. b \in Bio
    BY DEF BlockInv, BlockTypes
<1>1. PICK c : c = [b EXCEPT !.slept = TRUE]
    OBVIOUS
<1>2. /\ c \in Bio /\ c.start = b.start /\ c.len = b.len /\ c.pid = b.pid /\ c.q = b.q
      /\ c.w = b.w
    BY ONLY <1>0, <1>1 DEF Bio
<1>3. /\ waiting' = (waiting \ {b}) \cup {c} /\ requests' = requests
      /\ completed' = completed /\ overlapped' = overlapped /\ commands' = commands
      /\ event' = Event("S", b.start, b.len, b.pid, b.w, "fs")
    BY <1>1 DEF Sleep, RecordBio
<1> QED BY <1>2, <1>3 DEF Event

KnownAs(q, b) == q.sector = b.start /\ q.len = b.len /\ q.q = b.q /\ q.pid = b.pid

\* btt knows each bio in flight and no other, and of those on the device since when.
KnowsAll ==
    /\ \A q \in qs : \E b \in InFlight : KnownAs(q, b)
    /\ \A b \in InFlight : \E q \in qs : KnownAs(q, b)
    /\ \A p, q \in qs : p.q = q.q => p = q
    /\ \A r \in requests : r.state = "issued" =>
          \A b \in r.bios : \A q \in qs : q.q = b.q => q.d = r.d
    /\ InFlight # {} => ~pre_culling

LEMMA KnowsInit == AnalysisInit => KnowsAll
BY DEF AnalysisInit, BlockInit, BttInit, KnowsAll, InFlight

LEMMA Apart1 ==
    ASSUME BlockInv, KnowsAll, ~overlapped, NEW p \in qs, NEW q \in qs, p # q
    PROVE  ~(p.sector < End(q) /\ q.sector < End(p))
<1>1. PICK b \in InFlight : KnownAs(p, b)
    BY DEF KnowsAll
<1>2. PICK c \in InFlight : KnownAs(q, c)
    BY DEF KnowsAll
<1>3. b # c
    BY <1>1, <1>2 DEF KnowsAll, KnownAs
<1>4. ~Overlap(b, c)
    BY <1>3 DEF BlockInv, BusyOK
<1> QED BY <1>1, <1>2, <1>4 DEF KnownAs, Overlap, End

\* dip_find_sec finds the bio that holds the sector, if no two overlap.
LEMMA FoundAtIs ==
    ASSUME BlockInv, KnownInv, KnowsAll, ~overlapped, NEW q \in qs, NEW sector \in Nat,
           q.sector <= sector, sector < End(q)
    PROVE  FoundAt(sector) = {{q}}
<1>0. \A p \in qs : p.sector \in Nat /\ End(p) \in Nat
    BY DEF KnownInv, KnownBio, End
<1>1. Holding(sector) = {q}
  <2>1. q \in Holding(sector)
    BY DEF Holding
  <2>2. ASSUME NEW p \in Holding(sector) PROVE p = q
    <3>1. p \in qs /\ p.sector <= sector /\ sector < End(p)
      BY DEF Holding
    <3>2. p.sector < End(q) /\ q.sector < End(p)
      BY <1>0, <3>1
    <3> QED BY <3>1, <3>2, Apart1
  <2> QED BY <2>1, <2>2
<1>2. ~SomeOverlap
    BY Apart1 DEF SomeOverlap
<1>3. FoundAt(sector) = {{p} : p \in Holding(sector)}
    BY <1>1, <1>2 DEF FoundAt
<1> QED BY <1>1, <1>3

\* dip_foreach finds every bio of the range, if no two overlap.
LEMMA FoundWithinIs ==
    ASSUME BlockInv, KnownInv, KnowsAll, ~overlapped, NEW e, e.sector \in Nat, e.len \in Nat
    PROVE  FoundWithin(e) = {Within(e)}
<1>1. Missable(e) = {}
  <2> SUFFICES ASSUME NEW q \in Within(e), NEW p \in qs, p.sector < q.sector, End(p) >= End(e)
               PROVE  FALSE
    BY DEF Missable
  <2>1. q \in qs /\ End(q) <= End(e)
    BY DEF Within
  <2>2. /\ p.sector \in Nat /\ q.sector \in Nat /\ End(p) \in Nat /\ End(q) \in Nat
        /\ q.sector < End(q)
    BY <2>1 DEF KnownInv, KnownBio, End
  <2>3. End(e) \in Nat
    BY DEF End
  <2>4. p.sector < End(q) /\ q.sector < End(p) /\ p # q
    BY <2>1, <2>2, <2>3
  <2> QED BY <2>1, <2>4, Apart1
<1> QED BY <1>1 DEF FoundWithin

\* The bios within a request on its way are its own.
LEMMA WithinIs ==
    ASSUME BlockInv, KnownInv, KnowsAll, ~overlapped, NEW r \in requests, r.kind = "fs",
           NEW e, e.sector = r.start, e.len = r.len
    PROVE  Within(e) = {q \in qs : \E b \in r.bios : q.q = b.q}
<1>0. /\ r \in Request /\ RequestOK(r) /\ Covers(r) /\ r.bios \subseteq Bio
      /\ \A b \in InFlight : b \in Bio
    BY DEF BlockInv, BlockTypes, RequestOK, Request, InFlight
<1>1. ASSUME NEW q \in qs, NEW b \in r.bios, q.q = b.q PROVE q \in Within(e)
  <2>1. PICK c \in InFlight : KnownAs(q, c)
    BY DEF KnowsAll
  <2>2. c = b
    BY <1>1, <2>1, InFlightIs DEF KnownAs, BlockInv, Separate
  <2> QED BY <1>0, <2>1, <2>2 DEF KnownAs, Within, End, Covers
<1>2. ASSUME NEW q \in Within(e) PROVE \E b \in r.bios : q.q = b.q
  <2>0. q \in qs /\ r.start <= q.sector /\ q.sector + q.len <= r.start + r.len
    BY DEF Within, End
  <2>1. PICK c \in InFlight : KnownAs(q, c)
    BY <2>0 DEF KnowsAll
  <2>2. /\ c.start \in Nat /\ c.len \in Nat \ {0} /\ r.start \in Nat /\ r.len \in Nat
        /\ q.sector = c.start /\ q.len = c.len
    BY <1>0, <2>1 DEF KnownAs, Bio, Request
  <2>3. c.start \in r.start..(r.start + r.len - 1)
    BY <2>0, <2>2
  <2>4. PICK b \in r.bios : b.start <= c.start /\ c.start < b.start + b.len
    BY <1>0, <2>3 DEF Covers
  <2>5. b.start \in Nat /\ b.len \in Nat \ {0} /\ b \in InFlight
    BY <1>0, InFlightIs DEF Bio
  <2>6. Overlap(b, c)
    BY <2>2, <2>4, <2>5 DEF Overlap
  <2>7. b = c
    BY <2>5, <2>6 DEF BlockInv, BusyOK
  <2> QED BY <2>1, <2>7 DEF KnownAs
<1>3. Within(e) \subseteq qs
    BY DEF Within
<1> QED BY <1>1, <1>2, <1>3

\* The same bio, but for the times that do not matter here.
SameKnown(p, q) ==
    /\ p.sector = q.sector /\ p.len = q.len /\ p.q = q.q /\ p.pid = q.pid /\ p.d = q.d
SameBio(b, c) == b.start = c.start /\ b.len = c.len /\ b.q = c.q /\ b.pid = c.pid

\* Steps that leave alone who is in flight, and that put nothing on the device.
LEMMA KnowsKept ==
    ASSUME KnowsAll,
           \A p \in qs' : \E q \in qs : SameKnown(p, q),
           \A q \in qs : \E p \in qs' : SameKnown(p, q),
           \A p, q \in qs' : p.q = q.q => p = q,
           \A b \in InFlight' : \E c \in InFlight : SameBio(b, c),
           \A c \in InFlight : \E b \in InFlight' : SameBio(b, c),
           \A r \in requests' : r.state = "issued" /\ r.bios # {} => r \in requests,
           pre_culling' = pre_culling
    PROVE  KnowsAll'
<1>1. \A p \in qs' : \E b \in InFlight' : KnownAs(p, b)
  <2> TAKE p \in qs'
  <2>1. PICK q \in qs : SameKnown(p, q)
    OBVIOUS
  <2>2. PICK c \in InFlight : KnownAs(q, c)
    BY DEF KnowsAll
  <2>3. PICK b \in InFlight' : SameBio(b, c)
    OBVIOUS
  <2> QED BY <2>1, <2>2, <2>3 DEF SameKnown, SameBio, KnownAs
<1>2. \A b \in InFlight' : \E p \in qs' : KnownAs(p, b)
  <2> TAKE b \in InFlight'
  <2>1. PICK c \in InFlight : SameBio(b, c)
    OBVIOUS
  <2>2. PICK q \in qs : KnownAs(q, c)
    BY DEF KnowsAll
  <2>3. PICK p \in qs' : SameKnown(p, q)
    OBVIOUS
  <2> QED BY <2>1, <2>2, <2>3 DEF SameKnown, SameBio, KnownAs
<1>3. ASSUME NEW r \in requests', r.state = "issued", NEW b \in r.bios, NEW p \in qs', p.q = b.q
      PROVE  p.d = r.d
  <2>1. r \in requests
    BY <1>3
  <2>2. PICK q \in qs : SameKnown(p, q)
    OBVIOUS
  <2>3. \A c \in r.bios : \A x \in qs : x.q = c.q => x.d = r.d
    BY <1>3, <2>1 DEF KnowsAll
  <2>4. q.q = b.q /\ p.d = q.d
    BY <1>3, <2>2 DEF SameKnown
  <2> QED BY ONLY <2>2, <2>3, <2>4, b \in r.bios
<1>4. InFlight' # {} => ~pre_culling'
    BY DEF KnowsAll
<1> QED BY <1>1, <1>2, <1>3, <1>4 DEF KnowsAll, KnownAs

\* Putting a time down changes none of what is known of a bio but its d.
LEMMA MarkedKnown ==
    ASSUME KnowsAll, NEW found, found \subseteq qs, NEW marked,
           \A q \in found : LaterKnown(marked[q], q), Marked(found, marked)
    PROVE  /\ \A p \in qs' : \E q \in qs :
                 /\ LaterKnown(p, q)
                 /\ (q \in found /\ p = marked[q]) \/ (q \notin found /\ p = q)
           /\ \A q \in qs : \E p \in qs' :
                 /\ LaterKnown(p, q)
                 /\ (q \in found /\ p = marked[q]) \/ (q \notin found /\ p = q)
           /\ \A p, q \in qs' : p.q = q.q => p = q
<1>1. qs' = (qs \ found) \cup {marked[q] : q \in found}
    BY DEF Marked
<1>2. \A p \in qs' : \E q \in qs :
                 /\ LaterKnown(p, q)
                 /\ (q \in found /\ p = marked[q]) \/ (q \notin found /\ p = q)
    BY <1>1 DEF LaterKnown
<1>3. \A q \in qs : \E p \in qs' :
                 /\ LaterKnown(p, q)
                 /\ (q \in found /\ p = marked[q]) \/ (q \notin found /\ p = q)
    BY <1>1 DEF LaterKnown
<1>4. ASSUME NEW p1 \in qs', NEW p2 \in qs', p1.q = p2.q PROVE p1 = p2
  <2>1. PICK q1 \in qs :
                 /\ LaterKnown(p1, q1)
                 /\ (q1 \in found /\ p1 = marked[q1]) \/ (q1 \notin found /\ p1 = q1)
    BY <1>2
  <2>2. PICK q2 \in qs :
                 /\ LaterKnown(p2, q2)
                 /\ (q2 \in found /\ p2 = marked[q2]) \/ (q2 \notin found /\ p2 = q2)
    BY <1>2
  <2>3. q1 = q2
    <3>1. q1.q = q2.q
      BY ONLY <1>4, <2>1, <2>2 DEF LaterKnown
    <3>2. \A p, q \in qs : p.q = q.q => p = q
      BY DEF KnowsAll
    <3> QED BY ONLY <3>1, <3>2, q1 \in qs, q2 \in qs
  <2> QED BY <2>1, <2>2, <2>3
<1> QED BY <1>2, <1>3, <1>4

\* Events but those of issue leave the times of issue alone.
LEMMA MarkedSame ==
    ASSUME KnownInv, KnowsAll, event'.time = now + 1, now \in Nat,
           BttGetrq(event') \/ BttSleep(event') \/ BttInsert(event') \/ BttMerge(event')
    PROVE  /\ \A p \in qs' : \E q \in qs : SameKnown(p, q)
           /\ \A q \in qs : \E p \in qs' : SameKnown(p, q)
           /\ \A p, q \in qs' : p.q = q.q => p = q
           /\ pre_culling' = pre_culling
<1> DEFINE e == event'
<1>1. ~BttIssue(e) /\ pre_culling' = pre_culling
    BY DEF BttGetrq, BttSleep, BttInsert, BttMerge, BttIssue
<1>0. e.time \in Nat
    OBVIOUS
<1>2. PICK found, marked :
              /\ found \in FoundAt(e.sector)
              /\ \A q \in found : marked[q].d = q.d
              /\ \A q \in found : marked[q] \in KnownBio /\ LaterKnown(marked[q], q)
              /\ Marked(found, marked)
    BY <1>0, <1>1, MarkSteps
<1>3. found \subseteq qs
    BY <1>2, FoundIn
<1>4. /\ \A p \in qs' : \E q \in qs :
                 /\ LaterKnown(p, q)
                 /\ (q \in found /\ p = marked[q]) \/ (q \notin found /\ p = q)
      /\ \A q \in qs : \E p \in qs' :
                 /\ LaterKnown(p, q)
                 /\ (q \in found /\ p = marked[q]) \/ (q \notin found /\ p = q)
      /\ \A p, q \in qs' : p.q = q.q => p = q
  <2> HIDE DEF e
  <2> QED BY <1>2, <1>3, MarkedKnown
<1>5. \A p, q : LaterKnown(p, q) /\ p.d = q.d => SameKnown(p, q)
    BY DEF LaterKnown, SameKnown
<1> QED BY <1>1, <1>2, <1>4, <1>5

\* btt enters the bio that is queued (handle_queue).
LEMMA KnowsQueue ==
    ASSUME BlockInv, BlockNext, KnownInv, KnowsAll, ~overlapped', AddTrace(event'),
           workload.bios # <<>>, Queue(Head(workload.bios))
    PROVE  /\ KnowsAll' /\ \A q \in qs : q.sector # event'.sector
<1>1. PICK b \in Bio :
              /\ waiting' = waiting \cup {b} /\ b.q = now + 1
              /\ event'.act = "Q" /\ event'.kind = "fs" /\ event'.sector = b.start
              /\ event'.len = b.len /\ event'.pid = b.pid /\ event'.w = b.w
              /\ overlapped' = (overlapped \/ \E c \in InFlight : Overlap(b, c))
              /\ UNCHANGED <<requests, plugged, completed, commands>>
    BY QueueIs
<1>2. BttQueue(event')
    BY <1>1, BttActs
<1>3. \A q \in qs : q.sector # event'.sector
  <2> SUFFICES ASSUME NEW q \in qs, q.sector = b.start PROVE FALSE
    BY <1>1
  <2>1. PICK c \in InFlight : KnownAs(q, c)
    BY DEF KnowsAll
  <2>2. c \in Bio
    BY DEF BlockInv, BlockTypes, InFlight, Request
  <2>3. Overlap(b, c)
    BY <2>1, <2>2 DEF KnownAs, Overlap, Bio
  <2> QED BY <1>1, <2>3
<1>4. qs' = qs \cup {NewQ(event')} /\ pre_culling' = FALSE
    BY <1>2, <1>3 DEF BttQueue
<1>5. InFlight' = InFlight \cup {b}
    BY <1>1 DEF InFlight
<1>6. PICK new : new = NewQ(event')
    OBVIOUS
<1>7. KnownAs(new, b) /\ new.q = now + 1
    BY <1>1, <1>6, EventTimes DEF NewQ, KnownAs
<1>8. \A q \in qs : q.q # new.q
    BY <1>7, AgesKept DEF KnownInv
<1>9. \A c \in InFlight : c.q # new.q
    BY <1>7, AgesKept
<1>10. \A r \in requests' : r.state = "issued" =>
          \A c \in r.bios : \A q \in qs' : q.q = c.q => q.d = r.d
    BY <1>1, <1>4, <1>6, <1>9, InFlightIs DEF KnowsAll
<1>11. \A q \in qs' : \E c \in InFlight' : KnownAs(q, c)
    BY <1>4, <1>5, <1>6, <1>7 DEF KnowsAll
<1>12. \A c \in InFlight' : \E q \in qs' : KnownAs(q, c)
    BY <1>4, <1>5, <1>6, <1>7 DEF KnowsAll
<1>13. \A p, q \in qs' : p.q = q.q => p = q
    BY <1>4, <1>6, <1>8 DEF KnowsAll
<1> QED BY <1>3, <1>4, <1>10, <1>11, <1>12, <1>13 DEF KnowsAll, KnownAs

\* btt marks all bios of a request, and no other, as issued (handle_issue).
LEMMA KnowsIssue ==
    ASSUME BlockInv, BlockNext, KnownInv, KnowsAll, ~overlapped, AddTrace(event'),
           NEW r \in requests, r.kind = "fs", Issue(r)
    PROVE  KnowsAll' /\ BttIssue(event')
<1> DEFINE e == event'
<1>0. now \in Nat /\ now' = now + 1 /\ e \in Events /\ e.time = now + 1
    BY AgesKept, EventTimes
<1>1. PICK s \in Request :
              /\ Replace(r, s) /\ SameRequest(r, s) /\ AfterIssue(r, s)
              /\ UNCHANGED <<waiting, plugged, overlapped, completed, commands>>
    BY StateStepIs
<1>2. /\ e.act = "D" /\ e.kind = "fs" /\ e.len = r.len /\ e.sector = r.start
    BY RequestEvents
<1>3. r.bios # {} /\ r.bios \subseteq InFlight /\ r \in Request
    BY InFlightIs DEF BlockInv, RequestOK, BlockTypes
<1>4. Passed(e)
    BY <1>2, <1>3 DEF Passed, KnowsAll, Request
<1>5. BttIssue(e)
    BY <1>2, <1>4, BttActs
<1>6. PICK found, marked :
              /\ found \in FoundWithin(e)
              /\ \A q \in found : marked[q].d = e.time
              /\ \A q \in found : marked[q] \in KnownBio /\ LaterKnown(marked[q], q)
              /\ Marked(found, marked)
  <2>1. e.time \in Nat
    BY <1>0
  <2> HIDE DEF e
  <2> QED BY <1>0, <1>5, <2>1, MarkSteps
<1>7. found = {q \in qs : \E b \in r.bios : q.q = b.q}
    BY <1>0, <1>2, <1>6, FoundWithinIs, WithinIs DEF Events
<1>8. /\ \A p \in qs' : \E q \in qs :
                 /\ LaterKnown(p, q)
                 /\ (q \in found /\ p = marked[q]) \/ (q \notin found /\ p = q)
      /\ \A q \in qs : \E p \in qs' :
                 /\ LaterKnown(p, q)
                 /\ (q \in found /\ p = marked[q]) \/ (q \notin found /\ p = q)
      /\ \A p, q \in qs' : p.q = q.q => p = q
  <2> HIDE DEF e
  <2>1. found \subseteq qs /\ \A q \in found : LaterKnown(marked[q], q)
    BY <1>6, <1>7
  <2> QED BY <1>6, <2>1, MarkedKnown
<1>9. requests' = (requests \ {r}) \cup {s} /\ s.bios = r.bios /\ s.d = now + 1
    BY <1>1 DEF Replace, SameRequest, AfterIssue
<1>10. \A b : b \in InFlight' <=> b \in InFlight
  <2> TAKE b
  <2>1. b \in InFlight' <=> b \in waiting' \/ \E x \in requests' : b \in x.bios
    BY DEF InFlight
  <2> QED BY <1>1, <1>9, <2>1, InFlightIs
<1>11. ASSUME NEW x \in requests', x.state = "issued", NEW b \in x.bios, NEW p \in qs', p.q = b.q
       PROVE  p.d = x.d
  <2>1. PICK q \in qs :
                 /\ LaterKnown(p, q)
                 /\ (q \in found /\ p = marked[q]) \/ (q \notin found /\ p = q)
    BY <1>8
  <2>2. q.q = b.q
    BY <1>11, <2>1 DEF LaterKnown
  <2>3. CASE x = s
    BY <1>0, <1>6, <1>7, <1>9, <2>1, <2>2, <2>3
  <2>4. CASE x \in requests /\ x # r
    <3>1. \A c \in r.bios : c.q # b.q
      BY <1>3, <2>4, InFlightIs DEF BlockInv, Separate
    <3>2. q \notin found
      BY <1>7, <2>2, <3>1
    <3> QED BY <1>11, <2>1, <2>2, <2>4, <3>2 DEF KnowsAll
  <2> QED BY <1>9, <2>3, <2>4
<1>12. pre_culling' = pre_culling
    BY <1>5 DEF BttIssue
<1>13. \A p, q, b : LaterKnown(p, q) => (KnownAs(p, b) <=> KnownAs(q, b))
    BY DEF LaterKnown, KnownAs
<1>14. \A q \in qs' : \E c \in InFlight' : KnownAs(q, c)
    BY <1>8, <1>10, <1>13 DEF KnowsAll
<1>15. \A c \in InFlight' : \E q \in qs' : KnownAs(q, c)
    BY <1>8, <1>10, <1>13 DEF KnowsAll
<1>16. InFlight' # {} => ~pre_culling'
    BY <1>10, <1>12 DEF KnowsAll
<1>17. \A x \in requests' : x.state = "issued" =>
          \A b \in x.bios : \A q \in qs' : q.q = b.q => q.d = x.d
    BY <1>11
<1> QED BY <1>5, <1>8, <1>14, <1>15, <1>16, <1>17 DEF KnowsAll, KnownAs

\* What btt finds of the bios of a request that is done.
LEMMA CompleteFound ==
    ASSUME BlockInv, BlockNext, KnownInv, KnowsAll, ~overlapped, AddTrace(event'),
           NEW r \in requests, r.kind = "fs", Complete(r)
    PROVE  /\ BttComplete(event')
           /\ FoundWithin(event') = {{q \in qs : \E b \in r.bios : q.q = b.q}}
           /\ \A q \in qs : (\E b \in r.bios : q.q = b.q) => q.d = r.d /\ r.d # Never
<1> DEFINE e == event'
<1>0. now \in Nat /\ e \in Events /\ e.time = now + 1
    BY AgesKept, EventTimes
<1>2. /\ e.act = "C" /\ e.kind = "fs" /\ e.len = r.len /\ e.sector = r.start
      /\ r.state = "issued"
    BY CompleteIs
<1>3. r.bios # {} /\ r.bios \subseteq InFlight /\ r \in Request
    BY InFlightIs DEF BlockInv, RequestOK, BlockTypes
<1>4. Passed(e)
    BY <1>2, <1>3 DEF Passed, KnowsAll, Request
<1>5. BttComplete(e)
    BY <1>2, <1>4, BttActs
<1>6. FoundWithin(e) = {{q \in qs : \E b \in r.bios : q.q = b.q}}
  <2>1. e.sector \in Nat /\ e.len \in Nat
    BY <1>0 DEF Events
  <2>2. FoundWithin(e) = {Within(e)}
    BY <2>1, FoundWithinIs
  <2>3. Within(e) = {q \in qs : \E b \in r.bios : q.q = b.q}
    BY <1>2, WithinIs
  <2> QED BY <2>2, <2>3
<1>7. r.d # Never
    BY <1>3 DEF Request, Never
<1> QED BY <1>2, <1>5, <1>6, <1>7 DEF KnowsAll

\* btt takes out all bios of a request, and no other (handle_complete).
LEMMA KnowsComplete ==
    ASSUME BlockInv, BlockNext, KnownInv, KnowsAll, ~overlapped, AddTrace(event'),
           NEW r \in requests, r.kind = "fs", Complete(r)
    PROVE  KnowsAll'
<1>1. /\ requests' = requests \ {r} /\ waiting' = waiting
    BY CompleteIs
<1>2. qs' = qs \ {q \in qs : \E b \in r.bios : q.q = b.q} /\ pre_culling' = pre_culling
    BY CompleteFound DEF BttComplete
<1>3. \A x : x \in InFlight' <=> x \in InFlight /\ x \notin r.bios
  <2> TAKE x
  <2>1. x \in InFlight' <=> x \in waiting' \/ \E y \in requests' : x \in y.bios
    BY DEF InFlight
  <2>2. (\E y \in requests' : x \in y.bios)
          <=> (x \notin r.bios /\ \E y \in requests : x \in y.bios)
    BY <1>1 DEF BlockInv, Separate
  <2>3. x \in waiting => x \notin r.bios
    BY DEF BlockInv, Separate
  <2> QED BY <1>1, <2>1, <2>2, <2>3, InFlightIs
<1>4. \A q \in qs' : \E c \in InFlight' : KnownAs(q, c)
  <2> TAKE q \in qs'
  <2>1. PICK c \in InFlight : KnownAs(q, c)
    BY <1>2 DEF KnowsAll
  <2>2. c \notin r.bios
    BY <1>2, <2>1 DEF KnownAs
  <2> QED BY <1>3, <2>1, <2>2
<1>5. \A c \in InFlight' : \E q \in qs' : KnownAs(q, c)
  <2> TAKE c \in InFlight'
  <2>0. c \in InFlight /\ c \notin r.bios
    BY <1>3
  <2>1. PICK q \in qs : KnownAs(q, c)
    BY <2>0 DEF KnowsAll
  <2>2. ASSUME NEW b \in r.bios, q.q = b.q PROVE FALSE
    BY <2>0, <2>1, <2>2, InFlightIs DEF KnownAs, BlockInv, Separate
  <2> QED BY <1>2, <2>1, <2>2
<1>6. InFlight' # {} => ~pre_culling'
    BY <1>2, <1>3 DEF KnowsAll
<1>7. \A x \in requests' : x.state = "issued" =>
          \A b \in x.bios : \A q \in qs' : q.q = b.q => q.d = x.d
    BY <1>1, <1>2 DEF KnowsAll
<1>8. \A p, q \in qs' : p.q = q.q => p = q
    BY <1>2 DEF KnowsAll
<1> QED BY <1>4, <1>5, <1>6, <1>7, <1>8 DEF KnowsAll, KnownAs

LEMMA SameIsKept ==
    /\ KnowsAll /\ qs' = qs => /\ \A p \in qs' : \E q \in qs : SameKnown(p, q)
                               /\ \A q \in qs : \E p \in qs' : SameKnown(p, q)
                               /\ \A p, q \in qs' : p.q = q.q => p = q
    /\ (\A b : b \in InFlight' <=> b \in InFlight) =>
          /\ \A b \in InFlight' : \E c \in InFlight : SameBio(b, c)
          /\ \A c \in InFlight : \E b \in InFlight' : SameBio(b, c)
BY DEF SameKnown, SameBio, KnowsAll

LEMMA InFlightPrime ==
    \A b : b \in InFlight' <=> b \in waiting' \/ \E r \in requests' : b \in r.bios
BY DEF InFlight

LEMMA KnowsSleep ==
    ASSUME BlockInv, BlockNext, KnownInv, KnowsAll, AddTrace(event'),
           NEW b \in waiting, Sleep(b)
    PROVE  KnowsAll' /\ BttSleep(event')
<1>1. PICK c \in Bio :
              /\ c.start = b.start /\ c.len = b.len /\ c.pid = b.pid /\ c.q = b.q
              /\ waiting' = (waiting \ {b}) \cup {c} /\ requests' = requests
              /\ event'.act = "S" /\ event'.kind = "fs" /\ event'.len = b.len
    BY SleepIs
<1>2. b \in InFlight /\ b \in Bio
    BY InFlightIs DEF BlockInv, BlockTypes
<1>3. BttSleep(event')
    BY <1>1, <1>2, BttActs DEF KnowsAll, Passed, Bio
<1>4. \A x \in InFlight' : \E y \in InFlight : SameBio(x, y)
  <2> TAKE x \in InFlight'
  <2>1. x = c \/ x \in InFlight
    BY <1>1, InFlightIs, InFlightPrime
  <2> QED BY <1>1, <1>2, <2>1 DEF SameBio
<1>5. \A y \in InFlight : \E x \in InFlight' : SameBio(x, y)
  <2> TAKE y \in InFlight
  <2>1. y = b \/ y \in InFlight'
    BY <1>1, InFlightIs, InFlightPrime
  <2>2. c \in InFlight'
    BY <1>1, InFlightPrime
  <2> QED BY <1>1, <2>1, <2>2 DEF SameBio
<1>6. /\ \A p \in qs' : \E q \in qs : SameKnown(p, q)
      /\ \A q \in qs : \E p \in qs' : SameKnown(p, q)
      /\ \A p, q \in qs' : p.q = q.q => p = q
      /\ pre_culling' = pre_culling
    BY <1>3, MarkedSame, AgesKept, EventTimes
<1>7. \A r \in requests' : r.state = "issued" /\ r.bios # {} => r \in requests
    BY <1>1
<1> QED BY <1>3, <1>4, <1>5, <1>6, <1>7, KnowsKept

LEMMA KnowsGetRequest ==
    ASSUME BlockInv, BlockNext, KnownInv, KnowsAll, AddTrace(event'),
           NEW b \in waiting, GetRequest(b)
    PROVE  KnowsAll' /\ BttGetrq(event')
<1>1. PICK s \in Request :
              /\ requests' = requests \cup {s} /\ waiting' = waiting \ {b}
              /\ s.state = "got" /\ s.bios = {b}
              /\ event'.act = "G" /\ event'.kind = "fs" /\ event'.len = b.len
    BY GetRequestIs
<1>2. b \in InFlight /\ b \in Bio
    BY InFlightIs DEF BlockInv, BlockTypes
<1>3. BttGetrq(event')
    BY <1>1, <1>2, BttActs DEF KnowsAll, Passed, Bio
<1>4. \A x : x \in InFlight' <=> x \in InFlight
  <2> TAKE x
  <2>1. (\E r \in requests' : x \in r.bios)
          <=> (x = b \/ \E r \in requests : x \in r.bios)
    <3>1. x \in s.bios <=> x = b
      BY <1>1
    <3>2. requests' = requests \cup {s}
      BY <1>1
    <3> QED BY <3>1, <3>2, Zenon
  <2> QED BY <1>1, <2>1, InFlightIs, InFlightPrime
<1>6. /\ \A p \in qs' : \E q \in qs : SameKnown(p, q)
      /\ \A q \in qs : \E p \in qs' : SameKnown(p, q)
      /\ \A p, q \in qs' : p.q = q.q => p = q
      /\ pre_culling' = pre_culling
    BY <1>3, MarkedSame, AgesKept, EventTimes
<1>7. \A r \in requests' : r.state = "issued" /\ r.bios # {} => r \in requests
    BY <1>1
<1> QED BY <1>3, <1>4, <1>6, <1>7, KnowsKept, SameIsKept

LEMMA KnowsMerge ==
    ASSUME BlockInv, BlockNext, KnownInv, KnowsAll, AddTrace(event'),
           NEW b \in waiting, NEW r \in requests, Merge(b, r)
    PROVE  KnowsAll' /\ BttMerge(event')
<1>1. PICK s \in Request :
              /\ Replace(r, s) /\ waiting' = waiting \ {b} /\ Grown(b, r, s)
              /\ r.state # "issued"
              /\ event'.act \in {"M", "F"} /\ event'.kind = "fs" /\ event'.len = b.len
    BY MergeIs
<1>2. b \in InFlight /\ b \in Bio
    BY InFlightIs DEF BlockInv, BlockTypes
<1>3. BttMerge(event')
    BY <1>1, <1>2, BttActs DEF KnowsAll, Passed, Bio
<1>0. /\ requests' = (requests \ {r}) \cup {s} /\ s.bios = r.bios \cup {b}
      /\ s.state # "issued"
    BY <1>1 DEF Replace, Grown
<1>4. \A x : x \in InFlight' <=> x \in InFlight
  <2> TAKE x
  <2>1. (\E y \in requests' : x \in y.bios)
          <=> (x = b \/ \E y \in requests : x \in y.bios)
    <3>1. x \in s.bios <=> x \in r.bios \/ x = b
      BY <1>0
    <3> QED BY <3>1, <1>0, Zenon
  <2> QED BY <1>1, <2>1, InFlightIs, InFlightPrime
<1>6. /\ \A p \in qs' : \E q \in qs : SameKnown(p, q)
      /\ \A q \in qs : \E p \in qs' : SameKnown(p, q)
      /\ \A p, q \in qs' : p.q = q.q => p = q
      /\ pre_culling' = pre_culling
    BY <1>3, MarkedSame, AgesKept, EventTimes
<1>7. \A x \in requests' : x.state = "issued" /\ x.bios # {} => x \in requests
    BY <1>0
<1> QED BY <1>3, <1>4, <1>6, <1>7, KnowsKept, SameIsKept

\* What changes the state of a request and no more.
LEMMA InFlightReplaced ==
    ASSUME NEW r \in requests, NEW s, Replace(r, s), s.bios = r.bios, waiting' = waiting
    PROVE  \A x : x \in InFlight' <=> x \in InFlight
<1> TAKE x
<1>0. requests' = (requests \ {r}) \cup {s}
    BY DEF Replace
<1>1. (\E y \in requests' : x \in y.bios) <=> (\E y \in requests : x \in y.bios)
    BY <1>0, Zenon
<1> QED BY <1>1, InFlightIs, InFlightPrime

LEMMA KnowsInsert ==
    ASSUME BlockInv, BlockNext, KnownInv, KnowsAll, AddTrace(event'),
           NEW r \in requests, r.kind = "fs", Insert(r)
    PROVE  KnowsAll' /\ BttInsert(event')
<1>1. PICK s \in Request :
              /\ Replace(r, s) /\ SameRequest(r, s) /\ AfterInsert(r, s)
              /\ UNCHANGED <<waiting, plugged, overlapped, completed, commands>>
    BY StateStepIs
<1>2. /\ event'.act = "I" /\ event'.kind = "fs" /\ event'.len = r.len
    BY RequestEvents
<1>3. r.bios # {} /\ r.bios \subseteq InFlight /\ r \in Request
    BY InFlightIs DEF BlockInv, RequestOK, BlockTypes
<1>4. BttInsert(event')
    BY <1>2, <1>3, BttActs DEF KnowsAll, Passed, Request
<1>5. \A x : x \in InFlight' <=> x \in InFlight
    BY <1>1, InFlightReplaced DEF SameRequest
<1>6. /\ \A p \in qs' : \E q \in qs : SameKnown(p, q)
      /\ \A q \in qs : \E p \in qs' : SameKnown(p, q)
      /\ \A p, q \in qs' : p.q = q.q => p = q
      /\ pre_culling' = pre_culling
    BY <1>4, MarkedSame, AgesKept, EventTimes
<1>7. \A x \in requests' : x.state = "issued" /\ x.bios # {} => x \in requests
    BY <1>1 DEF Replace, AfterInsert
<1> QED BY <1>4, <1>5, <1>6, <1>7, KnowsKept, SameIsKept

LEMMA KnowsRequeue ==
    ASSUME BlockInv, BlockNext, KnowsAll, AddTrace(event'),
           NEW r \in requests, r.kind = "fs", Requeue(r)
    PROVE  KnowsAll' /\ BttRequeue(event')
<1>1. PICK s \in Request :
              /\ Replace(r, s) /\ SameRequest(r, s) /\ AfterRequeue(r, s)
              /\ UNCHANGED <<waiting, plugged, overlapped, completed, commands>>
    BY StateStepIs
<1>2. /\ event'.act = "R" /\ event'.kind = "fs" /\ event'.len = r.len
    BY RequestEvents
<1>3. r.bios # {} /\ r.bios \subseteq InFlight /\ r \in Request
    BY InFlightIs DEF BlockInv, RequestOK, BlockTypes
<1>4. BttRequeue(event')
    BY <1>2, <1>3, BttActs DEF KnowsAll
<1>5. \A x : x \in InFlight' <=> x \in InFlight
    BY <1>1, InFlightReplaced DEF SameRequest
<1>6. qs' = qs /\ pre_culling' = pre_culling
    BY <1>4 DEF BttRequeue
<1>7. \A x \in requests' : x.state = "issued" /\ x.bios # {} => x \in requests
    BY <1>1 DEF Replace, AfterRequeue
<1> QED BY <1>4, <1>5, <1>6, <1>7, KnowsKept, SameIsKept

\* Commands and plugging: btt knows of none.
LEMMA KnowsOther ==
    ASSUME BlockInv, BlockNext, KnowsAll, BttLetGo(event') \/ BttPlug(event'),
           \A b : b \in InFlight' <=> b \in InFlight,
           \A r \in requests' : r.state = "issued" /\ r.bios # {} => r \in requests
    PROVE  KnowsAll'
<1>1. qs' = qs /\ pre_culling' = pre_culling
    BY DEF BttLetGo, BttPlug
<1> QED BY <1>1, KnowsKept, SameIsKept

LEMMA KnowsCommand ==
    ASSUME BlockInv, BlockNext, KnowsAll, AddTrace(event'),
           NEW r \in requests, r.kind = "pc",
           Insert(r) \/ Issue(r) \/ Requeue(r) \/ Complete(r)
    PROVE  KnowsAll' /\ BttLetGo(event')
<1>1. event'.act \in {"I", "D", "R", "C"} /\ event'.kind = "pc" /\ BttLetGo(event')
    BY RequestEvents, BttActs
<1>2. r.bios = {}
    BY DEF BlockInv, RequestOK
<1>3. CASE Complete(r)
  <2>1. requests' = requests \ {r} /\ waiting' = waiting
    BY <1>3, CompleteIs
  <2>2. \A x : x \in InFlight' <=> x \in InFlight
    BY <1>2, <2>1, InFlightIs, InFlightPrime
  <2> QED BY <1>1, <2>1, <2>2, KnowsOther
<1>4. CASE Insert(r) \/ Issue(r) \/ Requeue(r)
  <2>1. PICK s \in Request :
              /\ Replace(r, s) /\ SameRequest(r, s)
              /\ UNCHANGED <<waiting, plugged, overlapped, completed, commands>>
    BY <1>4, StateStepIs
  <2>2. \A x : x \in InFlight' <=> x \in InFlight
    BY <2>1, InFlightReplaced DEF SameRequest
  <2>3. \A x \in requests' : x.state = "issued" /\ x.bios # {} => x \in requests
    BY <1>2, <2>1 DEF Replace, SameRequest
  <2> QED BY <1>1, <2>2, <2>3, KnowsOther
<1> QED BY <1>3, <1>4

LEMMA KnowsGetCommand ==
    ASSUME BlockInv, BlockNext, KnowsAll, AddTrace(event'), NEW p \in Nat \ {0},
           GetCommand(p)
    PROVE  KnowsAll' /\ BttLetGo(event')
<1>1. PICK s \in Request :
              /\ requests' = requests \cup {s} /\ waiting' = waiting
              /\ s.bios = {} /\ event'.act = "G" /\ event'.len = 0
    BY GetCommandIs
<1>2. BttLetGo(event')
    BY <1>1, BttActs DEF Passed
<1>3. \A x : x \in InFlight' <=> x \in InFlight
    BY <1>1, InFlightIs, InFlightPrime
<1> QED BY <1>1, <1>2, <1>3, KnowsOther

LEMMA PlugIs ==
    ASSUME BlockInv, Plug \/ \E act \in {"U", "UT"} : Unplug(act)
    PROVE  /\ event'.act \in {"P", "U", "UT"} /\ event'.kind = "fs" /\ event'.pid = 0
           /\ UNCHANGED <<waiting, requests, overlapped, completed, commands>>
BY DEF Plug, Unplug, Event, Kernel

LEMMA KnowsPlug ==
    ASSUME BlockInv, BlockNext, KnowsAll, AddTrace(event'),
           Plug \/ \E act \in {"U", "UT"} : Unplug(act)
    PROVE  KnowsAll' /\ BttPlug(event')
<1>1. event'.act \in {"P", "U", "UT"} /\ waiting' = waiting /\ requests' = requests
    BY PlugIs
<1>2. BttPlug(event')
    BY <1>1, BttActs
<1>3. \A x : x \in InFlight' <=> x \in InFlight
    BY <1>1, InFlightIs, InFlightPrime
<1> QED BY <1>1, <1>2, <1>3, KnowsOther

\* btt knows the bios on their way after every event it reads.
LEMMA KnowsStep ==
    ASSUME BlockInv, BlockNext, KnownInv, KnowsAll, ~overlapped', AddTrace(event')
    PROVE  KnowsAll'
<1>0. ~overlapped
    BY OverlapKept
<1>1. \A b \in waiting : Sleep(b) \/ GetRequest(b) => KnowsAll'
    BY KnowsSleep, KnowsGetRequest
<1>2. \A b \in waiting : \A r \in requests : Merge(b, r) => KnowsAll'
    BY KnowsMerge
<1>3. \A p \in Nat \ {0} : GetCommand(p) => KnowsAll'
    BY KnowsGetCommand
<1>4. \A r \in requests :
         r.kind = "fs" /\ (Insert(r) \/ Issue(r) \/ Requeue(r) \/ Complete(r)) => KnowsAll'
    BY <1>0, KnowsInsert, KnowsIssue, KnowsRequeue, KnowsComplete
<1>5. \A r \in requests :
         r.kind = "pc" /\ (Insert(r) \/ Issue(r) \/ Requeue(r) \/ Complete(r)) => KnowsAll'
    BY KnowsCommand
<1>6. (Plug \/ \E act \in {"U", "UT"} : Unplug(act)) => KnowsAll'
    BY KnowsPlug
<1>7. workload.bios # <<>> /\ Queue(Head(workload.bios)) => KnowsAll'
    BY KnowsQueue
<1>8. \A r \in requests : r.kind = "fs" \/ r.kind = "pc"
    BY DEF BlockInv, BlockTypes, Request
<1>9. \A b \in InFlight : b.pid \in Nat \ {0}
    BY InFlightIs DEF BlockInv, BlockTypes, Bio, Request
<1> QED BY <1>1, <1>2, <1>3, <1>4, <1>5, <1>6, <1>7, <1>8, <1>9 DEF BlockNext

PlugOrUnplug == Plug \/ \E act \in {"U", "UT"} : Unplug(act)
Serve(r) == Insert(r) \/ Issue(r) \/ Requeue(r) \/ Complete(r)

\* What both sides of a plain step are.
LEMMA PlainCases ==
    ASSUME BlockInv, BlockNext, KnownInv, KnowsAll, ~overlapped', AddTrace(event')
    PROVE  \/ /\ workload.bios # <<>> /\ Queue(Head(workload.bios)) /\ BttQueue(event')
              /\ \A q \in qs : q.sector # event'.sector
           \/ \E b \in waiting : \/ Sleep(b) /\ BttSleep(event')
                                 \/ GetRequest(b) /\ BttGetrq(event')
                                 \/ \E r \in requests : Merge(b, r) /\ BttMerge(event')
           \/ \E p \in Nat \ {0} : GetCommand(p) /\ BttLetGo(event')
           \/ \E r \in requests : r.kind = "fs" /\ (\/ Insert(r) /\ BttInsert(event')
                                                    \/ Issue(r) /\ BttIssue(event')
                                                    \/ Requeue(r) /\ BttRequeue(event')
                                                    \/ Complete(r) /\ BttComplete(event'))
           \/ \E r \in requests : r.kind = "pc" /\ Serve(r) /\ BttLetGo(event')
           \/ PlugOrUnplug /\ BttPlug(event')
<1>0. ~overlapped
    BY OverlapKept
<1>1. \A b \in waiting : (Sleep(b) => BttSleep(event')) /\ (GetRequest(b) => BttGetrq(event'))
    BY KnowsSleep, KnowsGetRequest
<1>2. \A b \in waiting : \A r \in requests : Merge(b, r) => BttMerge(event')
    BY KnowsMerge
<1>3. \A p \in Nat \ {0} : GetCommand(p) => BttLetGo(event')
    BY KnowsGetCommand
<1>4. \A r \in requests : r.kind = "fs" =>
         /\ Insert(r) => BttInsert(event')
         /\ Issue(r) => BttIssue(event')
         /\ Requeue(r) => BttRequeue(event')
         /\ Complete(r) => BttComplete(event')
    BY <1>0, KnowsInsert, KnowsIssue, KnowsRequeue, CompleteFound
<1>5. \A r \in requests : r.kind = "pc" /\ Serve(r) => BttLetGo(event')
    BY KnowsCommand DEF Serve
<1>6. PlugOrUnplug => BttPlug(event')
    BY KnowsPlug DEF PlugOrUnplug
<1>7. workload.bios # <<>> /\ Queue(Head(workload.bios)) =>
         BttQueue(event') /\ \A q \in qs : q.sector # event'.sector
  <2> SUFFICES ASSUME workload.bios # <<>>, Queue(Head(workload.bios))
               PROVE  BttQueue(event') /\ \A q \in qs : q.sector # event'.sector
    OBVIOUS
  <2>1. event'.act = "Q"
    BY QueueIs
  <2> QED BY <2>1, BttActs, KnowsQueue
<1>8. \A r \in requests : r.kind = "fs" \/ r.kind = "pc"
    BY DEF BlockInv, BlockTypes, Request
<1>9. \A b \in InFlight : b.pid \in Nat \ {0}
    BY InFlightIs DEF BlockInv, BlockTypes, Bio, Request
<1> QED BY <1>1, <1>2, <1>3, <1>4, <1>5, <1>6, <1>7, <1>8, <1>9
        DEF BlockNext, PlugOrUnplug, Serve

\* The ranges with a bio on the device are those of the bios that are done.
Covered ==
    \A x \in Int : (\E r \in lives : x \in r.start..r.end)
                      <=> (\E b \in completed : x \in b.d..b.c)

\* What completes adds to the ranges the time its bios were on the device.
LEMMA CoveredStep ==
    ASSUME BlockInv, BlockNext, KnownInv, RangesInv, KnowsAll, ~overlapped',
           AddTrace(event'), Covered
    PROVE  Covered'
<1>0. ~overlapped /\ now \in Nat /\ event'.time = now + 1
    BY OverlapKept, AgesKept, EventTimes
<1>1. ASSUME lives' = lives, completed' = completed PROVE Covered'
    BY <1>1 DEF Covered
<1>2. ASSUME NEW r \in requests, r.kind = "fs", Complete(r)
      PROVE  Covered'
  <2> DEFINE all == {q \in qs : \E b \in r.bios : q.q = b.q}
             issued == {q \in all : q.d # Never}
  <2>1. /\ BttComplete(event') /\ FoundWithin(event') = {all}
        /\ \A q \in all : q.d = r.d /\ r.d # Never
    BY <1>0, <1>2, CompleteFound
  <2>2. issued = all
    BY <2>1
  <2>3. all # {}
    <3>1. PICK b \in r.bios : b \in InFlight
      BY <1>2, InFlightIs DEF BlockInv, RequestOK
    <3>2. PICK q \in qs : KnownAs(q, b)
      BY <3>1 DEF KnowsAll
    <3> QED BY <3>1, <3>2 DEF KnownAs
  <2>4. lives' = IF issued = {} THEN lives
                 ELSE WithLive(lives, Min({q.d : q \in issued}), event'.time)
    BY <2>1 DEF BttComplete
  <2> HIDE DEF all
  <2>5. {q.d : q \in issued} = {r.d}
    BY <2>1, <2>2, <2>3
  <2>6. r.d \in Nat /\ r.d <= now
    <3>1. r \in Request
      BY DEF BlockInv, BlockTypes
    <3> QED BY <3>1, <1>0 DEF Request, BlockInv, Ages
  <2>7. Min({q.d : q \in issued}) = r.d
    BY <2>5, <2>6, MinOf
  <2>8. lives' = WithLive(lives, r.d, now + 1)
    BY <1>0, <2>2, <2>3, <2>4, <2>7
  <2>9. \A x \in Int : (\E y \in lives' : x \in y.start..y.end)
                 <=> (x \in r.d..(now + 1) \/ \E y \in lives : x \in y.start..y.end)
    BY <1>0, <2>6, <2>8, WithLiveOK DEF RangesInv
  <2>10. \A x \in Int : (\E b \in completed' : x \in b.d..b.c)
                 <=> (x \in r.d..(now + 1) \/ \E b \in completed : x \in b.d..b.c)
    <3>1. completed' = completed \cup {DoneOf(r, b, now + 1) : b \in r.bios}
      BY <1>2, CompleteIs
    <3>2. r.bios # {}
      BY <1>2 DEF BlockInv, RequestOK
    <3>3. \A b : DoneOf(r, b, now + 1).d = r.d /\ DoneOf(r, b, now + 1).c = now + 1
      BY DEF DoneOf
    <3> QED BY <3>1, <3>2, <3>3
  <2> QED BY <2>9, <2>10 DEF Covered
<1>3. CASE BttComplete(event') /\ \E r \in requests : r.kind = "fs" /\ Complete(r)
    BY <1>2, <1>3
<1>4. CASE ~BttComplete(event')
  <2>1. lives' = lives
    BY <1>4 DEF AddTrace, BttQueue, BttGetrq, BttSleep, BttInsert, BttMerge, BttIssue,
           BttRequeue, BttPlug, BttLetGo
  <2>2. completed' = completed
    <3>1. ASSUME NEW r \in requests, Complete(r) PROVE completed' = completed
      <4>1. r.kind = "pc"
        BY <1>0, <1>4, <3>1, CompleteFound DEF BlockInv, BlockTypes, Request
      <4>2. r.bios = {}
        BY <4>1 DEF BlockInv, RequestOK
      <4> QED BY <3>1, <4>2, CompleteIs
    <3>2. (\A r \in requests : ~Complete(r)) => completed' = completed
      BY DEF BlockNext, Queue, Sleep, GetRequest, Merge, GetCommand, Insert, Issue,
             Requeue, Plug, Unplug
    <3> QED BY <3>1, <3>2
  <2> QED BY <1>1, <2>1, <2>2
<1>5. BttComplete(event') => \E r \in requests : r.kind = "fs" /\ Complete(r)
  <2>1. BttComplete(event') => event'.act = "C" /\ event'.kind = "fs"
    BY DEF BttComplete
  <2>2. /\ BttQueue(event') => event'.act # "C"
        /\ BttSleep(event') \/ BttGetrq(event') \/ BttMerge(event') => event'.act # "C"
        /\ BttInsert(event') \/ BttIssue(event') \/ BttRequeue(event') => event'.act # "C"
        /\ BttPlug(event') => event'.act # "C"
    BY DEF BttQueue, BttSleep, BttGetrq, BttMerge, BttInsert, BttIssue, BttRequeue, BttPlug
  <2>3. \A p \in Nat \ {0} : GetCommand(p) => event'.act # "C"
    BY GetCommandIs
  <2>4. \A r \in requests : r.kind = "pc" /\ Serve(r) => event'.kind # "fs"
    BY RequestEvents DEF Serve
  <2> QED BY <2>1, <2>2, <2>3, <2>4, PlainCases
<1> QED BY <1>3, <1>4, <1>5

-----------------------------------------------------------------------------
(* How many there are.                                                     *)

LEMMA CardMore ==
    ASSUME NEW S, IsFiniteSet(S), NEW a, a \notin S
    PROVE  Cardinality(S \cup {a}) = Cardinality(S) + 1 /\ Cardinality(S) \in Nat
BY FS_AddElement, FS_CardinalityType

LEMMA CardLess ==
    ASSUME NEW S, IsFiniteSet(S), NEW a \in S
    PROVE  /\ Cardinality(S \ {a}) = Cardinality(S) - 1
           /\ Cardinality(S) \in Nat \ {0} /\ Cardinality(S \ {a}) \in Nat
<1>1. IsFiniteSet(S \ {a})
    BY FS_RemoveElement
<1> QED BY <1>1, FS_RemoveElement, FS_CardinalityType, FS_EmptySet

One(s, class) == IF s \in class THEN 1 ELSE 0
Count(class) == Cardinality(requests \cap class)

LEMMA CountType ==
    ASSUME BlockInv, NEW class
    PROVE  IsFiniteSet(requests \cap class) /\ Count(class) \in Nat
<1>1. IsFiniteSet(requests \cap class)
    BY FS_Intersection DEF BlockInv, BlockTypes
<1> QED BY <1>1, FS_CardinalityType DEF Count

LEMMA CountAdded ==
    ASSUME BlockInv, NEW class, NEW s, s \notin requests, requests' = requests \cup {s}
    PROVE  Cardinality(requests' \cap class) = Count(class) + One(s, class)
<1>0. IsFiniteSet(requests \cap class) /\ Count(class) \in Nat
    BY CountType
<1>1. CASE s \in class
  <2>1. requests' \cap class = (requests \cap class) \cup {s} /\ s \notin requests \cap class
    BY <1>1
  <2> QED BY <1>0, <1>1, <2>1, CardMore DEF Count, One
<1>2. CASE s \notin class
  <2>1. requests' \cap class = requests \cap class
    BY <1>2
  <2>2. Cardinality(requests' \cap class) = Count(class)
    BY <2>1, Zenon DEF Count
  <2> QED BY <1>0, <1>2, <2>2 DEF One
<1> QED BY <1>1, <1>2

LEMMA CountDropped ==
    ASSUME BlockInv, NEW class, NEW r \in requests, requests' = requests \ {r}
    PROVE  /\ Cardinality(requests' \cap class) = Count(class) - One(r, class)
           /\ Count(class) >= One(r, class)
<1>0. IsFiniteSet(requests \cap class) /\ Count(class) \in Nat
    BY CountType
<1>1. CASE r \in class
  <2>1. requests' \cap class = (requests \cap class) \ {r} /\ r \in requests \cap class
    BY <1>1
  <2>2. /\ Cardinality((requests \cap class) \ {r}) = Count(class) - 1
        /\ Count(class) \in Nat \ {0}
    BY <1>0, <2>1, CardLess DEF Count
  <2>3. Cardinality(requests' \cap class) = Count(class) - 1
    BY <2>1, <2>2, Zenon
  <2> QED BY <1>1, <2>2, <2>3 DEF One
<1>2. CASE r \notin class
  <2>1. requests' \cap class = requests \cap class
    BY <1>2
  <2>2. Cardinality(requests' \cap class) = Count(class)
    BY <2>1, Zenon DEF Count
  <2> QED BY <1>0, <1>2, <2>2 DEF One
<1> QED BY <1>1, <1>2

LEMMA CountReplaced ==
    ASSUME BlockInv, NEW class, NEW r \in requests, NEW s, s.id = r.id, Replace(r, s)
    PROVE  /\ Cardinality(requests' \cap class) = Count(class) - One(r, class) + One(s, class)
           /\ Count(class) >= One(r, class)
<1> DEFINE rest == (requests \ {r}) \cap class
<1>0. requests' = (requests \ {r}) \cup {s}
    BY DEF Replace
<1>1. s \notin requests \ {r}
    BY DEF BlockInv, Separate
<1>2. /\ IsFiniteSet(rest) /\ Cardinality(rest) = Count(class) - One(r, class)
      /\ Count(class) >= One(r, class)
  <2>0. IsFiniteSet(requests \cap class) /\ Count(class) \in Nat
    BY CountType
  <2>1. CASE r \in class
    <3>1. rest = (requests \cap class) \ {r} /\ r \in requests \cap class
      BY <2>1
    <3>2. /\ Cardinality((requests \cap class) \ {r}) = Count(class) - 1
          /\ Count(class) \in Nat \ {0}
      BY <2>0, <3>1, CardLess DEF Count
    <3>3. IsFiniteSet((requests \cap class) \ {r})
      BY <2>0, FS_RemoveElement
    <3> QED BY <2>1, <3>1, <3>2, <3>3 DEF One
  <2>2. CASE r \notin class
    <3>1. rest = requests \cap class
      BY <2>2
    <3> QED BY <2>0, <2>2, <3>1 DEF Count, One
  <2> QED BY <2>1, <2>2
<1>3. Cardinality(requests' \cap class) = Cardinality(rest) + One(s, class)
  <2>1. CASE s \in class
    <3>1. requests' \cap class = rest \cup {s} /\ s \notin rest
      BY <1>0, <1>1, <2>1
    <3> QED BY <1>2, <2>1, <3>1, CardMore DEF One
  <2>2. CASE s \notin class
    <3>1. requests' \cap class = rest
      BY <1>0, <2>2
    <3> HIDE DEF rest
    <3>2. Cardinality(rest) \in Nat
      BY <1>2, FS_CardinalityType
    <3> QED BY <2>2, <3>1, <3>2 DEF One
  <2> QED BY <2>1, <2>2
<1>4. Count(class) \in Nat /\ One(r, class) \in Nat /\ One(s, class) \in Nat
    BY CountType DEF One
<1> QED BY <1>2, <1>3, <1>4

\* The bios of a request that is done, what btt knows of them, and what is put
\* down of them are as many.
LEMMA FoundMap ==
    ASSUME BlockInv, KnownInv, KnowsAll, NEW r \in requests
    PROVE  LET all == {q \in qs : \E b \in r.bios : q.q = b.q}
           IN  \E m \in [r.bios -> all] :
                  /\ \A b \in r.bios : KnownAs(m[b], b)
                  /\ \A x, y \in r.bios : m[x] = m[y] => x = y
                  /\ \A q \in all : \E b \in r.bios : m[b] = q
<1> DEFINE all == {q \in qs : \E b \in r.bios : q.q = b.q}
           m == [b \in r.bios |-> CHOOSE q \in qs : KnownAs(q, b)]
<1>1. ASSUME NEW b \in r.bios PROVE m[b] \in qs /\ KnownAs(m[b], b)
  <2>1. b \in InFlight
    BY InFlightIs
  <2>2. \E q \in qs : KnownAs(q, b)
    BY <2>1 DEF KnowsAll
  <2> QED BY <2>2
<1>2. m \in [r.bios -> all]
    BY <1>1 DEF KnownAs
<1>3. ASSUME NEW x \in r.bios, NEW y \in r.bios, m[x] = m[y] PROVE x = y
  <2>1. x \in InFlight /\ y \in InFlight
    BY InFlightIs
  <2>2. m[x].q = x.q /\ m[y].q = y.q
    BY <1>1 DEF KnownAs
  <2> HIDE DEF m
  <2>3. x.q = y.q
    BY <1>3, <2>2
  <2> QED BY <2>1, <2>3 DEF BlockInv, Separate
<1>4. ASSUME NEW q \in all PROVE \E b \in r.bios : m[b] = q
  <2>1. PICK b \in r.bios : q.q = b.q
    OBVIOUS
  <2>2. m[b] \in qs /\ m[b].q = q.q
    BY <1>1, <2>1 DEF KnownAs
  <2>3. m[b] = q
    BY <2>2 DEF KnowsAll
  <2> QED BY <2>3
<1> HIDE DEF m
<1> QED BY <1>1, <1>2, <1>3, <1>4

LEMMA NewlyDone ==
    ASSUME BlockInv, NEW r \in requests
    PROVE  LET new == {DoneOf(r, b, now + 1) : b \in r.bios}
               m == [b \in r.bios |-> DoneOf(r, b, now + 1)]
           IN  /\ m \in [r.bios -> new]
               /\ \A x, y \in r.bios : m[x] = m[y] => x = y
               /\ \A f \in new : \E b \in r.bios : m[b] = f
               /\ completed \cap new = {}
               /\ IsFiniteSet(r.bios)
<1> DEFINE new == {DoneOf(r, b, now + 1) : b \in r.bios}
           m == [b \in r.bios |-> DoneOf(r, b, now + 1)]
<1>1. m \in [r.bios -> new] /\ \A f \in new : \E b \in r.bios : m[b] = f
    OBVIOUS
<1>2. ASSUME NEW x \in r.bios, NEW y \in r.bios, m[x] = m[y] PROVE x = y
  <2>1. DoneOf(r, x, now + 1) = DoneOf(r, y, now + 1)
    BY <1>2
  <2>2. x.q = y.q /\ x \in InFlight /\ y \in InFlight
    BY <2>1, DoneOfType
  <2> QED BY <2>2 DEF BlockInv, Separate
<1>3. completed \cap new = {}
    BY DoneOfType DEF BlockInv, DoneOK
<1>4. IsFiniteSet(r.bios)
    BY DEF BlockInv, RequestOK
<1> QED BY <1>1, <1>2, <1>3, <1>4

LEMMA SameCard ==
    ASSUME NEW S, IsFiniteSet(S), NEW T, NEW m \in [S -> T],
           \A x, y \in S : m[x] = m[y] => x = y,
           \A y \in T : \E x \in S : m[x] = y
    PROVE  IsFiniteSet(T) /\ Cardinality(T) = Cardinality(S)
<1>1. m \in Bijection(S, T)
    BY DEF Bijection, Injection, Surjection, IsInjective
<1> QED BY <1>1, FS_Bijection DEF ExistsBijection

\* Of a request with its bios but one too many are taken off.
DoneRequests == {b.request : b \in completed}
Merged == Cardinality(completed) - Cardinality(DoneRequests)

\* A request that is done adds its bios but one to those merged.
LEMMA MergedStep ==
    ASSUME BlockInv, BlockInv', NEW r \in requests, Complete(r), r.bios # {}
    PROVE  /\ Merged' = Merged + Cardinality(r.bios) - 1 /\ Merged \in Int
           /\ Cardinality(r.bios) \in Nat \ {0}
<1> DEFINE new == {DoneOf(r, b, now + 1) : b \in r.bios}
           m == [b \in r.bios |-> DoneOf(r, b, now + 1)]
<1>0. /\ completed' = completed \cup new /\ IsFiniteSet(completed)
      /\ IsFiniteSet(completed')
    BY CompleteIs DEF BlockInv, BlockTypes
<1>1. /\ m \in [r.bios -> new]
      /\ \A x, y \in r.bios : m[x] = m[y] => x = y
      /\ \A f \in new : \E b \in r.bios : m[b] = f
      /\ completed \cap new = {} /\ IsFiniteSet(r.bios)
    BY NewlyDone
<1>2. \A f \in new : f.request = r.id
    BY DEF DoneOf
<1>3. IsFiniteSet(new) /\ Cardinality(new) = Cardinality(r.bios)
  <2> HIDE DEF new, m
  <2> QED BY <1>1, SameCard
<1>4. new # {}
    OBVIOUS
<1> HIDE DEF new, m
<1>5. Cardinality(completed') = Cardinality(completed) + Cardinality(r.bios)
  <2>1. Cardinality(completed \cap new) = 0
    BY <1>1, FS_EmptySet
  <2>2. Cardinality(completed \cup new) = Cardinality(completed) + Cardinality(new)
                                           - Cardinality(completed \cap new)
    BY <1>0, <1>3, FS_Union
  <2>3. Cardinality(completed) \in Nat /\ Cardinality(new) \in Nat
    BY <1>0, <1>3, FS_CardinalityType
  <2> QED BY <1>0, <1>3, <2>1, <2>2, <2>3
<1>6. DoneRequests' = DoneRequests \cup {r.id}
    BY <1>0, <1>2, <1>4 DEF DoneRequests
<1>7. r.id \notin DoneRequests
    BY DEF DoneRequests, BlockInv, DoneOK
<1>8. IsFiniteSet(DoneRequests)
  <2> DEFINE f == [b \in completed |-> b.request]
  <2>1. f \in [completed -> Nat]
    BY DEF BlockInv, BlockTypes, Done
  <2>2. DoneRequests = {f[b] : b \in completed}
    BY DEF DoneRequests
  <2> HIDE DEF f
  <2> QED BY <1>0, <2>1, <2>2, FiniteImage
<1>9. Cardinality(DoneRequests') = Cardinality(DoneRequests) + 1
    BY <1>6, <1>7, <1>8, CardMore
<1>10. /\ Cardinality(completed) \in Nat /\ Cardinality(DoneRequests) \in Nat
       /\ Cardinality(r.bios) \in Nat
    BY <1>0, <1>1, <1>8, FS_CardinalityType
<1>11. Cardinality(r.bios) # 0
    BY <1>1, FS_EmptySet
<1> QED BY <1>5, <1>9, <1>10, <1>11 DEF Merged

-----------------------------------------------------------------------------
(* iostat.                                                                 *)

Line == [rqm : Int, ios : Int, sec : Int, wait : Int, svctm : Int]
IoStat == [stats : Line, all : Line, printed : Line, start : Int, cur_qusz : Int,
           tot_qusz : Int, qu_change : Int, cur_dev : Int, idle : Int, dev_change : Int]
Fields == {"rqm", "ios", "sec", "wait", "svctm"}

LEMMA LineIs ==
    /\ \A a \in Line : a \in [Fields -> Int] /\ DOMAIN a = Fields
    /\ \A a \in [Fields -> Int] : a \in Line
<1>1. \A a \in Line : a \in [Fields -> Int]
    BY DEF Line, Fields
<1>2. ASSUME NEW a \in [Fields -> Int] PROVE a \in Line
  <2>1. a = [rqm |-> a["rqm"], ios |-> a["ios"], sec |-> a["sec"], wait |-> a["wait"],
             svctm |-> a["svctm"]]
    BY DEF Fields
  <2>2. /\ a["rqm"] \in Int /\ a["ios"] \in Int /\ a["sec"] \in Int /\ a["wait"] \in Int
        /\ a["svctm"] \in Int
    BY DEF Fields
  <2> QED BY <2>1, <2>2 DEF Line
<1> QED BY <1>1, <1>2

LEMMA PlusLine ==
    ASSUME NEW a \in Line, NEW b \in Line
    PROVE  Plus(a, b) \in Line /\ \A f \in Fields : Plus(a, b)[f] = a[f] + b[f]
<1>1. a \in [Fields -> Int] /\ b \in [Fields -> Int]
    BY LineIs
<1>2. Plus(a, b) = [f \in Fields |-> a[f] + b[f]]
    BY <1>1 DEF Plus
<1>3. Plus(a, b) \in [Fields -> Int]
    BY <1>1, <1>2
<1> QED BY <1>2, <1>3, LineIs

LEMMA SameLine ==
    ASSUME NEW a \in Line, NEW b \in Line, \A f \in Fields : a[f] = b[f]
    PROVE  a = b
<1>1. a \in [Fields -> Int] /\ b \in [Fields -> Int]
    BY LineIs
<1> QED BY <1>1

LEMMA NoLineIs == NoLine \in Line /\ \A f \in Fields : NoLine[f] = 0
BY DEF NoLine, Line, Fields

LEMMA PlusAssoc ==
    ASSUME NEW a \in Line, NEW b \in Line, NEW c \in Line
    PROVE  Plus(a, Plus(b, c)) = Plus(Plus(a, b), c)
<1>1. /\ Plus(b, c) \in Line /\ Plus(a, b) \in Line
      /\ Plus(a, Plus(b, c)) \in Line /\ Plus(Plus(a, b), c) \in Line
    BY PlusLine
<1>2. \A f \in Fields : Plus(a, Plus(b, c))[f] = Plus(Plus(a, b), c)[f]
  <2> TAKE f \in Fields
  <2>1. a[f] \in Int /\ b[f] \in Int /\ c[f] \in Int
    BY LineIs
  <2>2. Plus(b, c)[f] = b[f] + c[f] /\ Plus(a, b)[f] = a[f] + b[f]
    BY PlusLine
  <2>3. Plus(a, Plus(b, c))[f] = a[f] + (b[f] + c[f])
    BY <1>1, <2>2, PlusLine
  <2>4. Plus(Plus(a, b), c)[f] = (a[f] + b[f]) + c[f]
    BY <1>1, <2>2, PlusLine
  <2> QED BY <2>1, <2>3, <2>4
<1> QED BY <1>1, <1>2, SameLine

LEMMA PlusNothing ==
    ASSUME NEW a \in Line
    PROVE  Plus(a, NoLine) = a
<1>1. Plus(a, NoLine) \in Line
    BY PlusLine, NoLineIs
<1>2. \A f \in Fields : Plus(a, NoLine)[f] = a[f]
  <2> TAKE f \in Fields
  <2>1. a[f] \in Int /\ NoLine[f] = 0 /\ NoLine \in Line
    BY LineIs, NoLineIs
  <2>2. Plus(a, NoLine)[f] = a[f] + NoLine[f]
    BY <2>1, PlusLine
  <2> QED BY <2>1, <2>2
<1> QED BY <1>1, <1>2, SameLine

\* What is printed and what has come since make up the whole.
IoOK(io) == io \in IoStat /\ Plus(io.printed, io.stats) = io.all
SameBooks(io, was) ==
    io.stats = was.stats /\ io.all = was.all /\ io.printed = was.printed
SameDepths(io, was) == io.cur_qusz = was.cur_qusz /\ io.cur_dev = was.cur_dev

LEMMA IoParts ==
    ASSUME NEW io \in IoStat
    PROVE  /\ io.stats \in Line /\ io.all \in Line /\ io.printed \in Line
           /\ io.start \in Int /\ io.cur_qusz \in Int /\ io.tot_qusz \in Int
           /\ io.qu_change \in Int /\ io.cur_dev \in Int /\ io.idle \in Int
           /\ io.dev_change \in Int
BY DEF IoStat

LEMMA AddOK ==
    ASSUME NEW io, IoOK(io), NEW what \in Line
    PROVE  IoOK(Add(io, what)) /\ SameDepths(Add(io, what), io)
<1>0. io \in IoStat /\ Plus(io.printed, io.stats) = io.all
    BY DEF IoOK
<1>1. io.stats \in Line /\ io.all \in Line /\ io.printed \in Line
    BY <1>0, IoParts
<1>2. PICK s \in Line : s = Plus(io.stats, what)
    BY <1>1, PlusLine
<1>3. PICK t \in Line : t = Plus(io.all, what)
    BY <1>1, PlusLine
<1>4. PICK x : x = [io EXCEPT !.stats = s, !.all = t]
    OBVIOUS
<1>5. Add(io, what) = x
    BY <1>2, <1>3, <1>4 DEF Add
<1>6. /\ x \in IoStat /\ x.stats = s /\ x.all = t /\ x.printed = io.printed
      /\ x.cur_qusz = io.cur_qusz /\ x.cur_dev = io.cur_dev
    BY ONLY <1>0, <1>4, s \in Line, t \in Line DEF IoStat
<1>7. Plus(io.printed, s) = t
    BY <1>0, <1>1, <1>2, <1>3, PlusAssoc
<1> QED BY <1>5, <1>6, <1>7 DEF IoOK, SameDepths

LEMMA QueueTimeOK ==
    ASSUME NEW io, IoOK(io), NEW time \in Nat
    PROVE  /\ IoOK(QueueTime(io, time)) /\ SameDepths(QueueTime(io, time), io)
           /\ SameBooks(QueueTime(io, time), io)
<1>0. io \in IoStat /\ Plus(io.printed, io.stats) = io.all
    BY DEF IoOK
<1>1. io.tot_qusz + (time - io.qu_change) * io.cur_qusz \in Int
    BY <1>0, IoParts
<1>3. time \in Int
    OBVIOUS
<1>2. PICK n \in Int : n = io.tot_qusz + (time - io.qu_change) * io.cur_qusz
    BY <1>1
<1>4. PICK x : x = [io EXCEPT !.tot_qusz = n, !.qu_change = time]
    OBVIOUS
<1>5. QueueTime(io, time) = x
    BY <1>2, <1>4 DEF QueueTime
<1>6. /\ x \in IoStat /\ x.stats = io.stats /\ x.all = io.all /\ x.printed = io.printed
      /\ x.cur_qusz = io.cur_qusz /\ x.cur_dev = io.cur_dev
    BY ONLY <1>0, <1>3, <1>4, n \in Int DEF IoStat
<1> QED BY <1>0, <1>5, <1>6 DEF IoOK, SameDepths, SameBooks

LEMMA IdleTimeOK ==
    ASSUME NEW io, IoOK(io), NEW time \in Nat, NEW force \in BOOLEAN
    PROVE  /\ IoOK(IdleTime(io, time, force)) /\ SameDepths(IdleTime(io, time, force), io)
           /\ SameBooks(IdleTime(io, time, force), io)
<1>0. io \in IoStat /\ Plus(io.printed, io.stats) = io.all
    BY DEF IoOK
<1>1. io.idle \in Int /\ io.dev_change \in Int
    BY <1>0, IoParts
<1>3. time \in Int
    OBVIOUS
<1>2. PICK n \in Int : n = IF io.cur_dev = 0 \/ force THEN io.idle + time - io.dev_change
                           ELSE io.idle
    BY <1>1
<1>4. PICK x : x = [io EXCEPT !.idle = n, !.dev_change = time]
    OBVIOUS
<1>5. IdleTime(io, time, force) = x
    BY <1>2, <1>4 DEF IdleTime
<1>6. /\ x \in IoStat /\ x.stats = io.stats /\ x.all = io.all /\ x.printed = io.printed
      /\ x.cur_qusz = io.cur_qusz /\ x.cur_dev = io.cur_dev
    BY ONLY <1>0, <1>3, <1>4, n \in Int DEF IoStat
<1> QED BY <1>0, <1>5, <1>6 DEF IoOK, SameDepths, SameBooks

LEMMA DumpedOK ==
    ASSUME NEW io, IoOK(io), NEW time \in Nat
    PROVE  IoOK(Dumped(io, time)) /\ SameDepths(Dumped(io, time), io)
<1>1. CASE ~plug.known
    BY <1>1 DEF Dumped, SameDepths
<1>2. CASE plug.known
  <2>1. PICK y : y = QueueTime(IdleTime(io, time, TRUE), time)
    OBVIOUS
  <2>a. PICK z : z = IdleTime(io, time, TRUE)
    OBVIOUS
  <2>b. IoOK(z) /\ SameDepths(z, io) /\ SameBooks(z, io)
    BY <2>a, IdleTimeOK
  <2>c. IoOK(y) /\ SameDepths(y, z) /\ SameBooks(y, z)
    BY <2>1, <2>a, <2>b, QueueTimeOK
  <2>2. IoOK(y) /\ SameDepths(y, io) /\ y.stats = io.stats
    BY <2>b, <2>c DEF SameDepths, SameBooks
  <2>3. y \in IoStat /\ y.printed \in Line /\ y.stats \in Line /\ y.all \in Line
    BY <2>2, IoParts DEF IoOK
  <2>4. PICK p \in Line : p = Plus(y.printed, y.stats)
    BY <2>3, PlusLine
  <2>5. PICK n \in Line : n = NoLine
    BY NoLineIs
  <2>6. PICK x : x = [y EXCEPT !.printed = p, !.stats = n]
    OBVIOUS
  <2>7. Dumped(io, time) = x
    <3>1. Dumped(io, time) = [y EXCEPT !.printed = Plus(y.printed, io.stats), !.stats = NoLine]
      BY <1>2, <2>1, Zenon DEF Dumped
    <3> QED BY <2>2, <2>4, <2>5, <2>6, <3>1, Zenon
  <2>8. /\ x \in IoStat /\ x.stats = n /\ x.all = y.all /\ x.printed = p
        /\ x.cur_qusz = y.cur_qusz /\ x.cur_dev = y.cur_dev
    BY ONLY <2>3, <2>6, n \in Line, p \in Line DEF IoStat
  <2>9. Plus(p, n) = p /\ p = y.all
    BY <2>2, <2>4, <2>5, PlusNothing DEF IoOK
  <2> QED BY <2>2, <2>7, <2>8, <2>9 DEF IoOK, SameDepths
<1> QED BY <1>1, <1>2

LEMMA StartOK ==
    ASSUME NEW io, IoOK(io), NEW time \in Nat
    PROVE  IoOK([io EXCEPT !.start = time]) /\ SameDepths([io EXCEPT !.start = time], io)
<1>0. io \in IoStat /\ Plus(io.printed, io.stats) = io.all
    BY DEF IoOK
<1>4. PICK x : x = [io EXCEPT !.start = time]
    OBVIOUS
<1>6. /\ x \in IoStat /\ x.stats = io.stats /\ x.all = io.all /\ x.printed = io.printed
      /\ x.cur_qusz = io.cur_qusz /\ x.cur_dev = io.cur_dev
    BY ONLY <1>0, <1>4, time \in Nat DEF IoStat
<1>7. IoOK(x) /\ SameDepths(x, io)
    BY <1>0, <1>6 DEF IoOK, SameDepths
<1> QED BY <1>4, <1>7

\* Printing lines moves what has come since to what was printed.
LEMMA CheckedOK ==
    ASSUME NEW io, IoOK(io), NEW time \in Nat
    PROVE  IoOK(Checked(io, time)) /\ SameDepths(Checked(io, time), io)
<1>1. CASE io.start = Never
    BY <1>1, StartOK DEF Checked
<1>2. CASE io.start # Never /\ time - io.start >= interval
  <2>1. Checked(io, time) = [Dumped(io, time) EXCEPT !.start = time]
    BY <1>2 DEF Checked
  <2>2. IoOK(Dumped(io, time)) /\ SameDepths(Dumped(io, time), io)
    BY DumpedOK
  <2> QED BY <2>1, <2>2, StartOK DEF SameDepths
<1>3. CASE io.start # Never /\ ~(time - io.start >= interval)
    BY <1>3 DEF Checked, SameDepths
<1> QED BY <1>1, <1>2, <1>3

LEMMA SetQueueDepth ==
    ASSUME NEW io, IoOK(io), NEW n \in Int
    PROVE  /\ IoOK([io EXCEPT !.cur_qusz = n]) /\ [io EXCEPT !.cur_qusz = n].cur_qusz = n
           /\ [io EXCEPT !.cur_qusz = n].cur_dev = io.cur_dev
<1>0. io \in IoStat /\ Plus(io.printed, io.stats) = io.all
    BY DEF IoOK
<1>1. PICK x : x = [io EXCEPT !.cur_qusz = n]
    OBVIOUS
<1>2. /\ x \in IoStat /\ x.stats = io.stats /\ x.all = io.all /\ x.printed = io.printed
      /\ x.cur_qusz = n /\ x.cur_dev = io.cur_dev
    BY ONLY <1>0, <1>1, n \in Int DEF IoStat
<1>3. IoOK(x)
    BY <1>0, <1>2 DEF IoOK
<1> QED BY <1>1, <1>2, <1>3

LEMMA SetDeviceDepth ==
    ASSUME NEW io, IoOK(io), NEW n \in Int
    PROVE  /\ IoOK([io EXCEPT !.cur_dev = n]) /\ [io EXCEPT !.cur_dev = n].cur_dev = n
           /\ [io EXCEPT !.cur_dev = n].cur_qusz = io.cur_qusz
<1>0. io \in IoStat /\ Plus(io.printed, io.stats) = io.all
    BY DEF IoOK
<1>1. PICK x : x = [io EXCEPT !.cur_dev = n]
    OBVIOUS
<1>2. /\ x \in IoStat /\ x.stats = io.stats /\ x.all = io.all /\ x.printed = io.printed
      /\ x.cur_dev = n /\ x.cur_qusz = io.cur_qusz
    BY ONLY <1>0, <1>1, n \in Int DEF IoStat
<1>3. IoOK(x)
    BY <1>0, <1>2 DEF IoOK
<1> QED BY <1>1, <1>2, <1>3

LEMMA GetrqOK ==
    ASSUME NEW io, IoOK(io), NEW e, e.time \in Nat
    PROVE  /\ IoOK(IostatGetrq(io, e)) /\ IostatGetrq(io, e).cur_qusz = io.cur_qusz + 1
           /\ IostatGetrq(io, e).cur_dev = io.cur_dev
<1>1. PICK q : q = QueueTime(io, e.time)
    OBVIOUS
<1>2. IoOK(q) /\ SameDepths(q, io) /\ io.cur_qusz \in Int
    BY <1>1, QueueTimeOK, IoParts DEF IoOK
<1>3. PICK n \in Int : n = q.cur_qusz + 1
    BY <1>2 DEF SameDepths
<1>4. IostatGetrq(io, e) = [q EXCEPT !.cur_qusz = n]
    BY <1>1, <1>3 DEF IostatGetrq
<1>5. /\ IoOK([q EXCEPT !.cur_qusz = n]) /\ [q EXCEPT !.cur_qusz = n].cur_qusz = n
      /\ [q EXCEPT !.cur_qusz = n].cur_dev = q.cur_dev
    BY <1>2, SetQueueDepth
<1> QED BY <1>2, <1>3, <1>4, <1>5, Zenon DEF SameDepths

LEMMA IssueOK ==
    ASSUME NEW io, IoOK(io), NEW e, e.time \in Nat, e.len \in Nat
    PROVE  /\ IoOK(IostatIssue(io, e)) /\ IostatIssue(io, e).cur_qusz = io.cur_qusz
           /\ IostatIssue(io, e).cur_dev = io.cur_dev + 1
<1>0. PICK what : what = [NoLine EXCEPT !.ios = 1, !.sec = e.len]
    OBVIOUS
<1>b. NoLine \in Line
    BY NoLineIs
<1>c. PICK len \in Int : len = e.len
    OBVIOUS
<1>e. PICK one \in Int : one = 1
    OBVIOUS
<1>d. what = [NoLine EXCEPT !.ios = one, !.sec = len]
    BY <1>0, <1>c, <1>e
<1>a. what \in Line
    BY ONLY <1>b, <1>d, one \in Int, len \in Int DEF Line
<1>1. PICK q : q = IdleTime(Add(io, what), e.time, FALSE)
    OBVIOUS
<1>2. IoOK(q) /\ SameDepths(q, io) /\ io.cur_dev \in Int
  <2>1. PICK y : y = Add(io, what)
    OBVIOUS
  <2>2. IoOK(y) /\ SameDepths(y, io)
    BY <1>a, <2>1, AddOK
  <2>3. IoOK(q) /\ SameDepths(q, y)
    BY <1>1, <2>1, <2>2, IdleTimeOK
  <2> QED BY <2>2, <2>3, IoParts DEF IoOK, SameDepths
<1>3. PICK n \in Int : n = q.cur_dev + 1
    BY <1>2 DEF SameDepths
<1>4. IostatIssue(io, e) = [q EXCEPT !.cur_dev = n]
    BY <1>0, <1>1, <1>3 DEF IostatIssue
<1>5. /\ IoOK([q EXCEPT !.cur_dev = n]) /\ [q EXCEPT !.cur_dev = n].cur_dev = n
      /\ [q EXCEPT !.cur_dev = n].cur_qusz = q.cur_qusz
    BY <1>2, SetDeviceDepth
<1> QED BY <1>2, <1>3, <1>4, <1>5, Zenon DEF SameDepths

LEMMA IoMergeOK ==
    ASSUME NEW io, IoOK(io)
    PROVE  IoOK(IostatMerge(io)) /\ SameDepths(IostatMerge(io), io)
<1>0. PICK what : what = [NoLine EXCEPT !.rqm = 1]
    OBVIOUS
<1>1. what \in Line
    BY <1>0 DEF NoLine, Line
<1> QED BY <1>0, <1>1, AddOK DEF IostatMerge

LEMMA TdeltaType ==
    \A from, to \in Int : Tdelta(from, to) \in Int
BY DEF Tdelta

\* A completion takes one of the queue and the device for each bio found.
LEMMA IoCompleteOK ==
    ASSUME NEW io, IoOK(io), NEW e, e.time \in Nat, NEW found, found \subseteq qs, KnownInv
    PROVE  /\ IoOK(IostatComplete(io, e, found))
           /\ Cardinality(found) \in Nat
           /\ IostatComplete(io, e, found).cur_qusz = io.cur_qusz - Cardinality(found)
           /\ IostatComplete(io, e, found).cur_dev = io.cur_dev - Cardinality(found)
<1> DEFINE Wait(q) == IF q.i # Never THEN Tdelta(q.i, e.time)
                      ELSE IF q.m # Never THEN Tdelta(q.m, e.time) ELSE 0
           Service(q) == Tdelta(q.q, e.time)
           waits == [q \in found |-> Wait(q)]
           services == [q \in found |-> Service(q)]
<1>1. IsFiniteSet(found) /\ Cardinality(found) \in Nat
    BY FS_Subset, FS_CardinalityType DEF KnownInv
<1>2. \A q \in found : q.i \in Int /\ q.m \in Int /\ q.q \in Int
    BY DEF KnownInv, KnownBio, Times, Never
<1>3. waits \in [found -> Int] /\ services \in [found -> Int]
  <2>1. ASSUME NEW q \in found PROVE Wait(q) \in Int /\ Service(q) \in Int
    <3>1. Tdelta(q.i, e.time) \in Int /\ Tdelta(q.m, e.time) \in Int /\ Tdelta(q.q, e.time) \in Int
      <4>1. q.i \in Int /\ q.m \in Int /\ q.q \in Int /\ e.time \in Int
        BY <1>2
      <4> QED BY <4>1, TdeltaType, Zenon
    <3> QED BY <3>1
  <2> HIDE DEF Wait, Service
  <2> QED BY <2>1
<1> HIDE DEF waits, services
<1>4. PICK w \in Int : w = Total(waits)
    BY <1>1, <1>3, TotalType
<1>5. PICK s \in Int : s = Total(services)
    BY <1>1, <1>3, TotalType
<1>6. PICK what : what = [NoLine EXCEPT !.wait = w, !.svctm = s]
    OBVIOUS
<1>a. NoLine \in Line
    BY NoLineIs
<1>7. what \in Line
    BY ONLY <1>6, <1>a, w \in Int, s \in Int DEF Line
<1>8. PICK x : x = IdleTime(QueueTime(Add(io, what), e.time), e.time, FALSE)
    OBVIOUS
<1>9. IoOK(x) /\ SameDepths(x, io)
  <2>1. PICK y : y = Add(io, what)
    OBVIOUS
  <2>2. IoOK(y) /\ SameDepths(y, io)
    BY <1>7, <2>1, AddOK
  <2>3. PICK z : z = QueueTime(y, e.time)
    OBVIOUS
  <2>4. IoOK(z) /\ SameDepths(z, y)
    BY <2>2, <2>3, QueueTimeOK
  <2>5. IoOK(x) /\ SameDepths(x, z)
    BY <1>8, <2>1, <2>3, <2>4, IdleTimeOK
  <2> QED BY <2>2, <2>4, <2>5 DEF SameDepths
<1>10. io.cur_qusz \in Int /\ io.cur_dev \in Int
    BY IoParts DEF IoOK
<1>11. PICK n \in Int : n = x.cur_qusz - Cardinality(found)
    BY <1>1, <1>9, <1>10 DEF SameDepths
<1>12. PICK m \in Int : m = x.cur_dev - Cardinality(found)
    BY <1>1, <1>9, <1>10 DEF SameDepths
<1>13. IostatComplete(io, e, found)
          = IF Cardinality(found) = 0 THEN io ELSE [x EXCEPT !.cur_qusz = n, !.cur_dev = m]
    BY <1>4, <1>5, <1>6, <1>8, <1>11, <1>12 DEF IostatComplete, waits, services
<1>14. CASE Cardinality(found) = 0
    BY <1>1, <1>10, <1>13, <1>14
<1>15. CASE Cardinality(found) # 0
  <2>0. PICK y : y = [x EXCEPT !.cur_qusz = n, !.cur_dev = m]
    OBVIOUS
  <2>1. IoOK(y) /\ y.cur_qusz = n /\ y.cur_dev = m
    <3>0. x \in IoStat /\ Plus(x.printed, x.stats) = x.all
      BY <1>9 DEF IoOK
    <3>1. /\ y \in IoStat /\ y.stats = x.stats /\ y.all = x.all /\ y.printed = x.printed
          /\ y.cur_qusz = n /\ y.cur_dev = m
      BY ONLY <3>0, <2>0, n \in Int, m \in Int DEF IoStat
    <3> QED BY <3>0, <3>1 DEF IoOK
  <2>2. IostatComplete(io, e, found) = y
    BY <1>13, <1>15, <2>0, Zenon
  <2> QED BY <1>1, <1>9, <1>11, <1>12, <2>1, <2>2, Zenon DEF SameDepths
<1> QED BY <1>14, <1>15

-----------------------------------------------------------------------------
(* blkparse: what is counted.                                              *)

Counter == [n : Int, len : Int]
Stats == [Counted -> [Directions -> Counter]]
Waiting == {"allocation", "dispatch", "completion"}
Waits == [Waiting -> [Directions -> Int]]
Info == [stats : Stats, waits : Waits]

LEMMA StatsValue ==
    ASSUME NEW stats \in Stats, NEW of \in Counted, NEW w \in Directions
    PROVE  stats[of][w] \in Counter /\ stats[of][w].n \in Int /\ stats[of][w].len \in Int
BY DEF Stats, Counter

LEMMA NewInfo ==
    /\ NewProcess \in Info /\ NewProcess.stats = NoStats /\ NewProcess.waits = NoWaits
    /\ NoStats \in Stats /\ NoWaits \in Waits
    /\ \A of \in Counted : \A w \in Directions :
          NoStats[of][w].n = 0 /\ NoStats[of][w].len = 0
    /\ \A of \in Waiting : \A w \in Directions : NoWaits[of][w] = 0
<1>1. NoStats \in Stats
    BY DEF NoStats, Stats, Counter
<1>2. NoWaits \in Waits
    BY DEF NoWaits, Waits, Waiting
<1>3. /\ \A of \in Counted : \A w \in Directions :
            NoStats[of][w].n = 0 /\ NoStats[of][w].len = 0
      /\ \A of \in Waiting : \A w \in Directions : NoWaits[of][w] = 0
    BY DEF NoStats, NoWaits, Waiting
<1>4. NewProcess \in Info /\ NewProcess.stats = NoStats /\ NewProcess.waits = NoWaits
  <2> HIDE DEF NoStats, NoWaits
  <2> QED BY <1>1, <1>2 DEF NewProcess, Info
<1> QED BY <1>1, <1>2, <1>3, <1>4

LEMMA AccountIs ==
    ASSUME NEW stats \in Stats, NEW of \in Counted, NEW w \in Directions, NEW n \in Int,
           NEW len \in Int
    PROVE  /\ Account(stats, of, w, n, len) \in Stats
           /\ \A x \in Counted : \A y \in Directions :
                 /\ Account(stats, of, w, n, len)[x][y].n
                       = stats[x][y].n + (IF x = of /\ y = w THEN n ELSE 0)
                 /\ Account(stats, of, w, n, len)[x][y].len
                       = stats[x][y].len + (IF x = of /\ y = w THEN len ELSE 0)
<1>1. PICK c : c = [n |-> stats[of][w].n + n, len |-> stats[of][w].len + len]
    OBVIOUS
<1>2. /\ c \in Counter /\ c.n = stats[of][w].n + n /\ c.len = stats[of][w].len + len
    BY <1>1, StatsValue DEF Counter
<1>3. PICK d \in [Directions -> Counter] : d = [stats[of] EXCEPT ![w] = c]
    BY <1>2 DEF Stats
<1>4. Account(stats, of, w, n, len) = [stats EXCEPT ![of] = d]
    BY <1>1, <1>3, Zenon DEF Account
<1>5. PICK new : new = [stats EXCEPT ![of] = d]
    OBVIOUS
<1>6. new \in Stats /\ new[of] = d /\ \A x \in Counted : x # of => new[x] = stats[x]
    BY <1>5 DEF Stats
<1>7. d[w] = c /\ \A y \in Directions : y # w => d[y] = stats[of][y]
    BY <1>3 DEF Stats
<1>8. ASSUME NEW x \in Counted, NEW y \in Directions
      PROVE  /\ new[x][y].n = stats[x][y].n + (IF x = of /\ y = w THEN n ELSE 0)
             /\ new[x][y].len = stats[x][y].len + (IF x = of /\ y = w THEN len ELSE 0)
  <2>0. stats[x][y].n \in Int /\ stats[x][y].len \in Int
    BY StatsValue
  <2>1. CASE x = of /\ y = w
    BY <1>2, <1>6, <1>7, <2>1
  <2>2. CASE ~(x = of /\ y = w)
    BY <1>6, <1>7, <2>0, <2>2
  <2> QED BY <2>1, <2>2
<1> QED BY <1>4, <1>5, <1>6, <1>8

\* The device's counts are the sums of the processes'.
SumsOK(stats, infos) ==
    /\ stats \in Stats /\ IsFiniteSet(DOMAIN infos) /\ infos \in [DOMAIN infos -> Info]
    /\ \A of \in Counted : \A w \in Directions :
          /\ stats[of][w].n = Total([p \in DOMAIN infos |-> infos[p].stats[of][w].n])
          /\ stats[of][w].len = Total([p \in DOMAIN infos |-> infos[p].stats[of][w].len])

ChangedAt(a, S, f, g, was) ==
    /\ IsFiniteSet(S) /\ f \in [S -> Int] /\ g \in [S \cup {a} -> Int]
    /\ \A x \in S : x # a => g[x] = f[x]
    /\ was \in Int /\ IF a \in S THEN was = f[a] ELSE was = 0

\* A total changes by what one of its parts changes by.
LEMMA TotalChange ==
    ASSUME NEW a, NEW S, NEW f, NEW g, NEW was, ChangedAt(a, S, f, g, was)
    PROVE  Total(g) = Total(f) + (g[a] - was)
<1> USE DEF ChangedAt
<1> DEFINE rest == S \ {a}
           h == [x \in rest |-> f[x]]
<1>1. IsFiniteSet(rest) /\ h \in [rest -> Int] /\ a \notin rest
    BY FS_RemoveElement
<1>2. \A x \in rest : h[x] = f[x] /\ h[x] = g[x]
    OBVIOUS
<1>3. rest \cup {a} = S \cup {a}
    OBVIOUS
<1>4. a \in S => rest \cup {a} = S
    OBVIOUS
<1>5. a \notin S => rest = S
    OBVIOUS
<1>6. g[a] \in Int
    OBVIOUS
<1> HIDE DEF rest, h
<1>7. Total(g) = Total(h) + g[a]
  <2>1. g \in [rest \cup {a} -> Int]
    BY <1>3
  <2> QED BY <1>1, <1>2, <2>1, TotalAdd
<1>8. Total(h) \in Int
    BY <1>1, TotalType
<1>9. CASE a \in S
  <2>1. f \in [rest \cup {a} -> Int]
    BY <1>4, <1>9
  <2>2. Total(f) = Total(h) + f[a]
    BY <1>1, <1>2, <2>1, TotalAdd
  <2> QED BY <1>6, <1>7, <1>8, <1>9, <2>2
<1>10. CASE a \notin S
  <2>1. h = f
    BY <1>1, <1>2, <1>5, <1>10
  <2> QED BY <1>6, <1>7, <1>8, <1>10, <2>1
<1> QED BY <1>9, <1>10

\* What the device and the process p counted, and what they count, d more.
Recounted(stats, mine, p, d) ==
    \A of \in Counted : \A w \in Directions :
        /\ stats[of][w].n = io_stats[of][w].n + d[of][w].n
        /\ stats[of][w].len = io_stats[of][w].len + d[of][w].len
        /\ mine[of][w].n = PpiOf(p).stats[of][w].n + d[of][w].n
        /\ mine[of][w].len = PpiOf(p).stats[of][w].len + d[of][w].len

\* The sums agree if one process and the device change alike.
LEMMA SumsChange ==
    ASSUME SumsOK(io_stats, ppi), NEW p, NEW info \in Info, NEW stats \in Stats,
           NEW d \in Stats, Recounted(stats, info.stats, p, d)
    PROVE  /\ SumsOK(stats, WithPpi(p, info))
           /\ DOMAIN WithPpi(p, info) = DOMAIN ppi \cup {p} /\ WithPpi(p, info)[p] = info
           /\ \A q \in DOMAIN ppi : q # p => WithPpi(p, info)[q] = ppi[q]
<1> USE DEF Recounted
<1> DEFINE S == DOMAIN ppi
<1>0. PICK infos : infos = WithPpi(p, info)
    OBVIOUS
<1>1. /\ DOMAIN infos = S \cup {p} /\ infos[p] = info
      /\ \A q \in S : q # p => infos[q] = ppi[q]
    BY <1>0 DEF WithPpi
<1>2. /\ IsFiniteSet(S) /\ ppi \in [S -> Info]
    BY DEF SumsOK
<1>3. infos \in [S \cup {p} -> Info]
  <2>1. infos = [q \in S \cup {p} |-> IF q = p THEN info ELSE ppi[q]]
    BY <1>0 DEF WithPpi
  <2>2. \A q \in S \cup {p} : (IF q = p THEN info ELSE ppi[q]) \in Info
    BY <1>2
  <2> HIDE DEF S
  <2> QED BY <2>1, <2>2
<1>4. IsFiniteSet(S \cup {p})
    BY <1>2, FS_AddElement
<1>5. \A q \in S : ppi[q].stats \in Stats /\ ppi[q] \in Info
    BY <1>2 DEF Info
<1>6. \A q \in S \cup {p} : infos[q].stats \in Stats
    BY <1>3 DEF Info
<1>7. /\ p \in S => PpiOf(p) = ppi[p]
      /\ p \notin S => PpiOf(p).stats = NoStats
      /\ PpiOf(p).stats \in Stats
    BY <1>5, NewInfo DEF PpiOf
<1> HIDE DEF S
<1>8. ASSUME NEW of \in Counted, NEW w \in Directions
      PROVE  /\ stats[of][w].n = Total([q \in DOMAIN infos |-> infos[q].stats[of][w].n])
             /\ stats[of][w].len = Total([q \in DOMAIN infos |-> infos[q].stats[of][w].len])
  <2>a. PICK old \in Stats : old = PpiOf(p).stats
    BY <1>7
  <2>b. /\ old[of][w].n \in Int /\ old[of][w].len \in Int
        /\ d[of][w].n \in Int /\ d[of][w].len \in Int
        /\ io_stats[of][w].n \in Int /\ io_stats[of][w].len \in Int
    BY StatsValue DEF SumsOK
  <2>c. /\ info.stats[of][w].n = old[of][w].n + d[of][w].n
        /\ info.stats[of][w].len = old[of][w].len + d[of][w].len
    BY <2>a
  <2>d. p \notin S => old[of][w].n = 0 /\ old[of][w].len = 0
    BY <1>7, <2>a, NewInfo
  <2>e. p \in S => old = ppi[p].stats
    BY <1>7, <2>a
  <2>1. stats[of][w].n = Total([q \in DOMAIN infos |-> infos[q].stats[of][w].n])
    <3> DEFINE f == [q \in S |-> ppi[q].stats[of][w].n]
               g == [q \in DOMAIN infos |-> infos[q].stats[of][w].n]
    <3>1. f \in [S -> Int]
      BY <1>5, StatsValue
    <3>2. g \in [S \cup {p} -> Int]
      BY <1>1, <1>6, StatsValue
    <3>3. \A q \in S \ {p} : g[q] = f[q]
      BY <1>1
    <3>4. g[p] = info.stats[of][w].n
      BY <1>1
    <3>5. p \in S => old[of][w].n = f[p]
      BY <2>e
    <3>6. io_stats[of][w].n = Total(f)
      BY DEF SumsOK, S
    <3> HIDE DEF f, g
    <3>9. PICK was \in Int : was = old[of][w].n
      BY <2>b
    <3>10. IF p \in S THEN was = f[p] ELSE was = 0
      BY <2>d, <3>5, <3>9
    <3>7. ChangedAt(p, S, f, g, was)
      BY <1>2, <3>1, <3>2, <3>3, <3>9, <3>10 DEF ChangedAt
    <3>11. Total(g) = Total(f) + (g[p] - was)
      BY <3>7, TotalChange
    <3>8. Total(g) = stats[of][w].n
      BY <2>b, <2>c, <3>4, <3>6, <3>11, <3>9
    <3> QED BY <3>8 DEF g
  <2>2. stats[of][w].len = Total([q \in DOMAIN infos |-> infos[q].stats[of][w].len])
    <3> DEFINE f == [q \in S |-> ppi[q].stats[of][w].len]
               g == [q \in DOMAIN infos |-> infos[q].stats[of][w].len]
    <3>1. f \in [S -> Int]
      BY <1>5, StatsValue
    <3>2. g \in [S \cup {p} -> Int]
      BY <1>1, <1>6, StatsValue
    <3>3. \A q \in S \ {p} : g[q] = f[q]
      BY <1>1
    <3>4. g[p] = info.stats[of][w].len
      BY <1>1
    <3>5. p \in S => old[of][w].len = f[p]
      BY <2>e
    <3>6. io_stats[of][w].len = Total(f)
      BY DEF SumsOK, S
    <3> HIDE DEF f, g
    <3>9. PICK was \in Int : was = old[of][w].len
      BY <2>b
    <3>10. IF p \in S THEN was = f[p] ELSE was = 0
      BY <2>d, <3>5, <3>9
    <3>7. ChangedAt(p, S, f, g, was)
      BY <1>2, <3>1, <3>2, <3>3, <3>9, <3>10 DEF ChangedAt
    <3>11. Total(g) = Total(f) + (g[p] - was)
      BY <3>7, TotalChange
    <3>8. Total(g) = stats[of][w].len
      BY <2>b, <2>c, <3>4, <3>6, <3>11, <3>9
    <3> QED BY <3>8 DEF g
  <2> QED BY <2>1, <2>2
<1>9. SumsOK(stats, infos)
    BY <1>1, <1>3, <1>4, <1>8 DEF SumsOK
<1> QED BY <1>0, <1>1, <1>9 DEF S

LEMMA TraceActs ==
    ASSUME NEW e, DumpTrace(e)
    PROVE  /\ e.act = "Q" => TraceQueue(e)
           /\ e.act = "G" => TraceGetrq(e)
           /\ e.act = "I" /\ e.kind = "fs" => TraceInsert(e)
           /\ e.act \in {"M", "F"} => TraceMerge(e)
           /\ e.act = "D" /\ e.kind = "fs" => TraceIssue(e)
           /\ e.act = "R" /\ e.kind = "fs" => TraceRequeue(e)
           /\ e.act = "C" /\ e.kind = "fs" => TraceComplete(e)
           /\ e.act \in {"I", "D", "R", "C"} /\ e.kind = "pc" => TraceCommand(e)
           /\ e.act \in {"U", "UT"} => TraceUnplug(e)
           /\ e.act \in {"S", "P"} => TraceOther(e)
<1>1. \/ e.act = "Q" /\ TraceQueue(e)
      \/ e.act = "G" /\ TraceGetrq(e)
      \/ e.act = "I" /\ e.kind = "fs" /\ TraceInsert(e)
      \/ e.act \in {"M", "F"} /\ TraceMerge(e)
      \/ e.act = "D" /\ e.kind = "fs" /\ TraceIssue(e)
      \/ e.act = "R" /\ e.kind = "fs" /\ TraceRequeue(e)
      \/ e.act = "C" /\ e.kind = "fs" /\ TraceComplete(e)
      \/ e.act \in {"I", "D", "R", "C"} /\ e.kind = "pc" /\ TraceCommand(e)
      \/ e.act \in {"U", "UT"} /\ TraceUnplug(e)
      \/ e.act \in {"S", "P"} /\ TraceOther(e)
    BY DEF DumpTrace, TraceQueue, TraceGetrq, TraceInsert, TraceMerge, TraceIssue,
           TraceRequeue, TraceComplete, TraceCommand, TraceUnplug, TraceOther
<1> QED BY <1>1

\* The wait is put down if it is longer, and nothing else changes.
LongerPut(new, infos, t, of, w, time) ==
    /\ DOMAIN new = DOMAIN infos /\ new \in [DOMAIN infos -> Info]
    /\ \A p \in DOMAIN infos :
          /\ new[p].stats = infos[p].stats
          /\ \A x \in Waiting : \A y \in Directions :
                new[p].waits[x][y] =
                    IF p = t.pid /\ x = of /\ y = w /\ time # Garbage
                         /\ time > infos[p].waits[x][y]
                    THEN time ELSE infos[p].waits[x][y]

LEMMA WaitedIs ==
    ASSUME NEW infos, infos \in [DOMAIN infos -> Info], NEW t, NEW of \in Waiting,
           NEW w \in Directions, NEW time \in Int
    PROVE  LongerPut(Waited(infos, t, of, w, time), infos, t, of, w, time)
<1> USE DEF LongerPut
<1> DEFINE longer(p, x, y) == p = t.pid /\ x = of /\ y = w /\ time # Garbage
                              /\ time > infos[p].waits[x][y]
<1>1. PICK new : new = Waited(infos, t, of, w, time)
    OBVIOUS
<1>2. CASE t.pid \notin DOMAIN infos \/ time = Garbage
  <2>1. new = infos
    BY <1>1, <1>2 DEF Waited
  <2>2. \A p \in DOMAIN infos : \A x, y : ~longer(p, x, y)
    BY <1>2
  <2> QED BY <1>1, <2>1, <2>2
<1>3. CASE t.pid \in DOMAIN infos /\ time # Garbage
  <2>0. PICK old \in Info : old = infos[t.pid]
    BY <1>3
  <2>1. PICK x1 \in Int : x1 = IF time > old.waits[of][w] THEN time ELSE old.waits[of][w]
    BY <2>0 DEF Info, Waits
  <2>2. PICK x2 \in [Directions -> Int] : x2 = [old.waits[of] EXCEPT ![w] = x1]
    BY <2>0 DEF Info, Waits
  <2>3. PICK x3 \in Waits : x3 = [old.waits EXCEPT ![of] = x2]
    BY <2>0 DEF Info, Waits
  <2>4. PICK x4 \in Info : x4 = [old EXCEPT !.waits = x3]
    BY <2>0 DEF Info
  <2>5. new = [infos EXCEPT ![t.pid] = x4]
    BY <1>1, <1>3, <2>0, <2>1, <2>2, <2>3, <2>4, Zenon DEF Waited
  <2>6. /\ DOMAIN new = DOMAIN infos /\ new \in [DOMAIN infos -> Info]
        /\ new[t.pid] = x4
        /\ \A p \in DOMAIN infos : p # t.pid => new[p] = infos[p]
    BY <1>3, <2>5
  <2>7. x4.stats = old.stats /\ x4.waits = x3
    BY <2>4 DEF Info
  <2>8. x3[of] = x2 /\ \A x \in Waiting : x # of => x3[x] = old.waits[x]
    BY <2>3 DEF Info, Waits
  <2>9. x2[w] = x1 /\ \A y \in Directions : y # w => x2[y] = old.waits[of][y]
    BY <2>2 DEF Info, Waits
  <2>10. \A p \in DOMAIN infos : new[p].stats = infos[p].stats
    BY <2>0, <2>6, <2>7
  <2>11. ASSUME NEW p \in DOMAIN infos, NEW x \in Waiting, NEW y \in Directions
         PROVE  new[p].waits[x][y] = IF longer(p, x, y) THEN time
                                     ELSE infos[p].waits[x][y]
    <3>1. CASE p = t.pid /\ x = of /\ y = w
      BY <1>3, <2>0, <2>1, <2>6, <2>7, <2>8, <2>9, <3>1
    <3>2. CASE p = t.pid /\ ~(x = of /\ y = w)
      BY <2>0, <2>6, <2>7, <2>8, <2>9, <3>2
    <3>3. CASE p # t.pid
      BY <2>6, <3>3
    <3> QED BY <3>1, <3>2, <3>3
  <2> QED BY <1>1, <2>6, <2>10, <2>11
<1> QED BY <1>2, <1>3

LEMMA SumsKept ==
    ASSUME NEW stats, NEW infos, SumsOK(stats, infos), NEW new,
           DOMAIN new = DOMAIN infos, new \in [DOMAIN infos -> Info],
           \A p \in DOMAIN infos : new[p].stats = infos[p].stats
    PROVE  SumsOK(stats, new)
<1>1. ASSUME NEW of \in Counted, NEW w \in Directions
      PROVE  /\ [p \in DOMAIN new |-> new[p].stats[of][w].n]
                    = [p \in DOMAIN infos |-> infos[p].stats[of][w].n]
             /\ [p \in DOMAIN new |-> new[p].stats[of][w].len]
                    = [p \in DOMAIN infos |-> infos[p].stats[of][w].len]
    OBVIOUS
<1>2. ASSUME NEW of \in Counted, NEW w \in Directions
      PROVE  /\ stats[of][w].n = Total([p \in DOMAIN new |-> new[p].stats[of][w].n])
             /\ stats[of][w].len = Total([p \in DOMAIN new |-> new[p].stats[of][w].len])
  <2> DEFINE n1 == [p \in DOMAIN new |-> new[p].stats[of][w].n]
             n2 == [p \in DOMAIN infos |-> infos[p].stats[of][w].n]
             l1 == [p \in DOMAIN new |-> new[p].stats[of][w].len]
             l2 == [p \in DOMAIN infos |-> infos[p].stats[of][w].len]
  <2>1. n1 = n2 /\ l1 = l2
    BY <1>1
  <2>2. stats[of][w].n = Total(n2) /\ stats[of][w].len = Total(l2)
    BY DEF SumsOK
  <2> HIDE DEF n1, n2, l1, l2
  <2>3. stats[of][w].n = Total(n1) /\ stats[of][w].len = Total(l1)
    BY <2>1, <2>2, Zenon
  <2> QED BY <2>3 DEF n1, l1
<1> QED BY <1>2 DEF SumsOK

\* What a count leaves of the processes: an entry for the one of the event, and
\* the waits as they were.
Entered(infos, p) ==
    /\ infos \in [DOMAIN infos -> Info] /\ DOMAIN infos = DOMAIN ppi \cup {p}
    /\ infos[p].waits = PpiOf(p).waits
    /\ \A q \in DOMAIN ppi : q # p => infos[q] = ppi[q]

LEMMA Recount ==
    ASSUME SumsOK(io_stats, ppi), NEW p, NEW d \in Stats, NEW stats \in Stats,
           NEW mine \in Stats, Recounted(stats, mine, p, d),
           NEW infos, infos = WithPpi(p, [PpiOf(p) EXCEPT !.stats = mine])
    PROVE  SumsOK(stats, infos) /\ Entered(infos, p)
<1>1. PICK old \in Info : old = PpiOf(p)
    BY NewInfo DEF PpiOf, SumsOK
<1>2. PICK info \in Info : info = [old EXCEPT !.stats = mine]
    BY DEF Info
<1>3. info.stats = mine /\ info.waits = old.waits
    BY <1>2 DEF Info
<1>4. Recounted(stats, info.stats, p, d)
    BY <1>3
<1>5. infos = WithPpi(p, info)
    BY <1>1, <1>2, Zenon
<1>6. /\ SumsOK(stats, infos)
      /\ DOMAIN infos = DOMAIN ppi \cup {p} /\ infos[p] = info
      /\ \A q \in DOMAIN ppi : q # p => infos[q] = ppi[q]
  <2>1. PICK new : new = WithPpi(p, info)
    OBVIOUS
  <2>2. /\ SumsOK(stats, new)
        /\ DOMAIN new = DOMAIN ppi \cup {p} /\ new[p] = info
        /\ \A q \in DOMAIN ppi : q # p => new[q] = ppi[q]
    BY <1>4, <2>1, SumsChange
  <2> QED BY <1>5, <2>1, <2>2
<1>7. infos \in [DOMAIN infos -> Info]
    BY <1>6 DEF SumsOK
<1> QED BY <1>1, <1>3, <1>6, <1>7 DEF Entered

\* account_*: the device and the process of the event count one more.
LEMMA AccountOK ==
    ASSUME SumsOK(io_stats, ppi), NEW p, NEW of \in Counted, NEW w \in Directions,
           NEW len \in Int
    PROVE  LET infos == WithPpi(p, [PpiOf(p) EXCEPT !.stats = Account(@, of, w, 1, len)])
           IN  SumsOK(Account(io_stats, of, w, 1, len), infos) /\ Entered(infos, p)
<1>1. PICK old \in Info : old = PpiOf(p)
    BY NewInfo DEF PpiOf, SumsOK
<1>2. old.stats \in Stats /\ io_stats \in Stats /\ 1 \in Int
    BY DEF Info, SumsOK
<1>3. PICK mine \in Stats : mine = Account(old.stats, of, w, 1, len)
    BY <1>2, AccountIs
<1>4. PICK stats \in Stats : stats = Account(io_stats, of, w, 1, len)
    BY <1>2, AccountIs
<1>5. PICK d \in Stats : d = Account(NoStats, of, w, 1, len)
    BY NewInfo, AccountIs
<1>d. \A x \in Counted : \A y \in Directions :
         /\ d[x][y].n = NoStats[x][y].n + (IF x = of /\ y = w THEN 1 ELSE 0)
         /\ d[x][y].len = NoStats[x][y].len + (IF x = of /\ y = w THEN len ELSE 0)
  <2>1. NoStats \in Stats /\ 1 \in Int
    BY NewInfo
  <2> QED BY <1>5, <2>1, AccountIs
<1>s. \A x \in Counted : \A y \in Directions :
         /\ stats[x][y].n = io_stats[x][y].n + (IF x = of /\ y = w THEN 1 ELSE 0)
         /\ stats[x][y].len = io_stats[x][y].len + (IF x = of /\ y = w THEN len ELSE 0)
  <2>1. PICK was \in Stats : was = io_stats
    BY <1>2
  <2>2. stats = Account(was, of, w, 1, len)
    BY <1>4, <2>1
  <2>3. \A x \in Counted : \A y \in Directions :
           /\ stats[x][y].n = was[x][y].n + (IF x = of /\ y = w THEN 1 ELSE 0)
           /\ stats[x][y].len = was[x][y].len + (IF x = of /\ y = w THEN len ELSE 0)
    BY <1>2, <2>2, AccountIs
  <2> QED BY <2>1, <2>3
<1>m. \A x \in Counted : \A y \in Directions :
         /\ mine[x][y].n = old.stats[x][y].n + (IF x = of /\ y = w THEN 1 ELSE 0)
         /\ mine[x][y].len = old.stats[x][y].len + (IF x = of /\ y = w THEN len ELSE 0)
    BY <1>2, <1>3, AccountIs
<1>6. Recounted(stats, mine, p, d)
  <2>1. ASSUME NEW x \in Counted, NEW y \in Directions
        PROVE  /\ stats[x][y].n = io_stats[x][y].n + d[x][y].n
               /\ stats[x][y].len = io_stats[x][y].len + d[x][y].len
               /\ mine[x][y].n = old.stats[x][y].n + d[x][y].n
               /\ mine[x][y].len = old.stats[x][y].len + d[x][y].len
    <3>1. /\ d[x][y].n = 0 + (IF x = of /\ y = w THEN 1 ELSE 0)
          /\ d[x][y].len = 0 + (IF x = of /\ y = w THEN len ELSE 0)
      BY <1>d, NewInfo
    <3>2. /\ stats[x][y].n = io_stats[x][y].n + (IF x = of /\ y = w THEN 1 ELSE 0)
          /\ stats[x][y].len = io_stats[x][y].len + (IF x = of /\ y = w THEN len ELSE 0)
      BY <1>s
    <3>3. /\ mine[x][y].n = old.stats[x][y].n + (IF x = of /\ y = w THEN 1 ELSE 0)
          /\ mine[x][y].len = old.stats[x][y].len + (IF x = of /\ y = w THEN len ELSE 0)
      BY <1>m
    <3> QED BY <3>1, <3>2, <3>3
  <2> QED BY <1>1, <2>1 DEF Recounted
<1>7. PICK infos : infos = WithPpi(p, [PpiOf(p) EXCEPT !.stats = mine])
    OBVIOUS
<1>8. SumsOK(stats, infos) /\ Entered(infos, p)
    BY <1>6, <1>7, Recount
<1>9. infos = WithPpi(p, [PpiOf(p) EXCEPT !.stats = Account(@, of, w, 1, len)])
    BY <1>1, <1>3, <1>7, Zenon
<1> QED BY <1>4, <1>8, <1>9

\* account_requeue: both count a requeue, and the length not as issued.
LEMMA RequeueOK ==
    ASSUME SumsOK(io_stats, ppi), NEW e, NEW of \in Counted, NEW issue \in Counted,
           of # issue, e.w \in Directions, e.len \in Int,
           AccountedRequeue(e, of, issue)
    PROVE  /\ SumsOK(io_stats', ppi') /\ Entered(ppi', e.pid)
           /\ \A x \in Counted : \A y \in Directions :
                 /\ io_stats'[x][y].n
                       = io_stats[x][y].n + (IF x = of /\ y = e.w THEN 1 ELSE 0)
                 /\ io_stats'[x][y].len
                       = io_stats[x][y].len - (IF x = issue /\ y = e.w THEN e.len ELSE 0)
<1> DEFINE Both(stats) == Account(Account(stats, of, e.w, 1, 0), issue, e.w, 0, -e.len)
           p == e.pid
<1>0. io_stats' = Both(io_stats) /\ ppi' = WithPpi(p, [PpiOf(p) EXCEPT !.stats = Both(@)])
    BY Zenon DEF AccountedRequeue
<1>1. PICK old \in Info : old = PpiOf(p)
    BY NewInfo DEF PpiOf, SumsOK
<1>2. old.stats \in Stats /\ io_stats \in Stats /\ -e.len \in Int /\ 0 \in Int /\ 1 \in Int
    BY DEF Info, SumsOK
<1>3. ASSUME NEW s \in Stats
      PROVE  /\ Both(s) \in Stats
             /\ \A x \in Counted : \A y \in Directions :
                   /\ Both(s)[x][y].n = s[x][y].n + (IF x = of /\ y = e.w THEN 1 ELSE 0)
                   /\ Both(s)[x][y].len
                        = s[x][y].len - (IF x = issue /\ y = e.w THEN e.len ELSE 0)
  <2>1. PICK half \in Stats : half = Account(s, of, e.w, 1, 0)
    BY <1>2, AccountIs
  <2>2. PICK whole \in Stats : whole = Account(half, issue, e.w, 0, -e.len)
    BY <1>2, AccountIs
  <2>3. whole = Both(s)
    BY <2>1, <2>2, Zenon
  <2>4. ASSUME NEW x \in Counted, NEW y \in Directions
        PROVE  /\ whole[x][y].n = s[x][y].n + (IF x = of /\ y = e.w THEN 1 ELSE 0)
               /\ whole[x][y].len = s[x][y].len - (IF x = issue /\ y = e.w THEN e.len ELSE 0)
    <3>1. /\ half[x][y].n = s[x][y].n + (IF x = of /\ y = e.w THEN 1 ELSE 0)
          /\ half[x][y].len = s[x][y].len + (IF x = of /\ y = e.w THEN 0 ELSE 0)
      BY <1>2, <2>1, AccountIs
    <3>2. /\ whole[x][y].n = half[x][y].n + (IF x = issue /\ y = e.w THEN 0 ELSE 0)
          /\ whole[x][y].len = half[x][y].len + (IF x = issue /\ y = e.w THEN -e.len ELSE 0)
      BY <1>2, <2>2, AccountIs
    <3>3. s[x][y].n \in Int /\ s[x][y].len \in Int
      BY StatsValue
    <3> QED BY <3>1, <3>2, <3>3
  <2> QED BY <2>3, <2>4
<1>4. PICK mine \in Stats : mine = Both(old.stats)
    BY <1>2, <1>3
<1>5. PICK stats \in Stats : stats = Both(io_stats)
    BY <1>2, <1>3
<1>6. PICK d \in Stats : d = Both(NoStats)
    BY <1>3, NewInfo
<1>7. Recounted(stats, mine, p, d)
  <2>1. ASSUME NEW x \in Counted, NEW y \in Directions
        PROVE  /\ stats[x][y].n = io_stats[x][y].n + d[x][y].n
               /\ stats[x][y].len = io_stats[x][y].len + d[x][y].len
               /\ mine[x][y].n = old.stats[x][y].n + d[x][y].n
               /\ mine[x][y].len = old.stats[x][y].len + d[x][y].len
    <3> HIDE DEF Both
    <3>1. /\ d[x][y].n = 0 + (IF x = of /\ y = e.w THEN 1 ELSE 0)
          /\ d[x][y].len = 0 - (IF x = issue /\ y = e.w THEN e.len ELSE 0)
      BY <1>3, <1>6, NewInfo
    <3>2. /\ stats[x][y].n = io_stats[x][y].n + (IF x = of /\ y = e.w THEN 1 ELSE 0)
          /\ stats[x][y].len = io_stats[x][y].len - (IF x = issue /\ y = e.w THEN e.len ELSE 0)
      BY <1>2, <1>3, <1>5
    <3>3. /\ mine[x][y].n = old.stats[x][y].n + (IF x = of /\ y = e.w THEN 1 ELSE 0)
          /\ mine[x][y].len = old.stats[x][y].len - (IF x = issue /\ y = e.w THEN e.len ELSE 0)
      BY <1>2, <1>3, <1>4
    <3>4. /\ io_stats[x][y].len \in Int /\ old.stats[x][y].len \in Int
          /\ io_stats[x][y].n \in Int /\ old.stats[x][y].n \in Int
      BY <1>2, StatsValue
    <3> QED BY <3>1, <3>2, <3>3, <3>4
  <2> QED BY <1>1, <2>1 DEF Recounted
<1>8. ppi' = WithPpi(p, [PpiOf(p) EXCEPT !.stats = mine])
    BY <1>0, <1>1, <1>4, Zenon
<1>9. SumsOK(stats, ppi') /\ Entered(ppi', p)
  <2> HIDE DEF p, Both
  <2> QED BY <1>7, <1>8, Recount
<1>10. io_stats' = stats
    BY <1>0, <1>5
<1> HIDE DEF Both
<1> QED BY <1>2, <1>3, <1>5, <1>9, <1>10

Track == [sector : Nat, pid : Nat, allocation : Int, queue : Int, dispatch : Int]
TracksOK ==
    /\ tracks \subseteq Track /\ IsFiniteSet(tracks)
    /\ \A t, u \in tracks : t.sector = u.sector => t = u
\* One track per sector; the processes add up to the device.
BookInv ==
    /\ TracksOK /\ SumsOK(io_stats, ppi)
    /\ cur_depth \in [Directions -> Nat] /\ max_depth \in [Directions -> Nat]

\* There is at most one track for a sector.
LEMMA TheTrackIs ==
    ASSUME TracksOK, NEW sector
    PROVE  /\ At(sector) # {} => /\ TheTrack(sector) \in tracks
                                 /\ TheTrack(sector).sector = sector
                                 /\ At(sector) = {TheTrack(sector)}
           /\ \A t \in tracks : t.sector = sector => At(sector) = {t} /\ TheTrack(sector) = t
<1>1. ASSUME NEW t \in tracks, t.sector = sector
      PROVE  At(sector) = {t} /\ TheTrack(sector) = t
  <2>1. \E u \in tracks : u.sector = sector
    BY <1>1
  <2>2. TheTrack(sector) \in tracks /\ TheTrack(sector).sector = sector
    BY <2>1, Zenon DEF TheTrack
  <2> QED BY <1>1, <2>2 DEF At, TracksOK
<1>2. At(sector) # {} => \E t \in tracks : t.sector = sector
    BY DEF At
<1> QED BY <1>1, <1>2

LEMMA FindTrackIs ==
    ASSUME TracksOK, NEW sector \in Nat, NEW pid \in Nat
    PROVE  FindTrack(sector, pid) \in Track /\ FindTrack(sector, pid).sector = sector
<1>1. CASE At(sector) # {}
    BY <1>1, TheTrackIs DEF FindTrack, TracksOK
<1>2. CASE At(sector) = {}
    BY <1>2 DEF FindTrack, Track, Garbage
<1> QED BY <1>1, <1>2

LEMMA SetIs ==
    ASSUME TracksOK, NEW t \in Track, Set(t)
    PROVE  /\ TracksOK' /\ t \in tracks'
           /\ \A u : u \in tracks' <=> u = t \/ (u \in tracks /\ u.sector # t.sector)
<1>1. \A u : u \in tracks' <=> u = t \/ (u \in tracks /\ u.sector # t.sector)
    BY DEF Set, At
<1>2. IsFiniteSet(tracks')
  <2>1. IsFiniteSet(tracks \ At(t.sector))
    BY FS_Difference DEF TracksOK
  <2> QED BY <2>1, FS_AddElement DEF Set
<1>3. tracks' \subseteq Track
    BY <1>1 DEF TracksOK
<1>4. \A x, y \in tracks' : x.sector = y.sector => x = y
    BY <1>1 DEF TracksOK
<1> QED BY <1>1, <1>2, <1>3, <1>4 DEF TracksOK

\* log_track_frontmerge moves the track of the request to its new start.
LEMMA FrontmergeIs ==
    ASSUME TracksOK, NEW e, e.sector \in Nat, e.len \in Nat, FrontmergeTrack(e)
    PROVE  TracksOK'
<1>1. CASE At(e.sector + e.len) = {}
    BY <1>1 DEF FrontmergeTrack, TracksOK
<1>2. CASE At(e.sector + e.len) # {}
  <2>1. PICK t \in tracks : t = TheTrack(e.sector + e.len)
    BY <1>2, TheTrackIs
  <2>2. IsFiniteSet(tracks \ {t})
    BY FS_RemoveElement DEF TracksOK
  <2>3. CASE At(e.sector) # {}
    <3>1. tracks' = tracks \ {t}
      BY <1>2, <2>1, <2>3 DEF FrontmergeTrack
    <3> QED BY <2>2, <3>1 DEF TracksOK
  <2>4. CASE At(e.sector) = {}
    <3>1. PICK u : u = [t EXCEPT !.sector = e.sector]
      OBVIOUS
    <3>2. u \in Track /\ u.sector = e.sector
      BY <3>1 DEF TracksOK, Track
    <3>3. tracks' = (tracks \ {t}) \cup {u}
      BY <1>2, <2>1, <2>4, <3>1 DEF FrontmergeTrack
    <3>4. IsFiniteSet(tracks')
      BY <2>2, <3>3, FS_AddElement
    <3>5. \A x \in tracks : x.sector # e.sector
      BY <2>4 DEF At
    <3> QED BY <3>2, <3>3, <3>4, <3>5 DEF TracksOK
  <2> QED BY <2>3, <2>4
<1> QED BY <1>1, <1>2

LEMMA DropTrack ==
    ASSUME TracksOK, NEW t, tracks' = tracks \ {t}
    PROVE  TracksOK'
BY FS_RemoveElement DEF TracksOK

LEMMA DeeperIs ==
    ASSUME BookInv, NEW w \in Directions, Deeper(w)
    PROVE  /\ cur_depth' \in [Directions -> Nat] /\ max_depth' \in [Directions -> Nat]
           /\ cur_depth'[w] = cur_depth[w] + 1
           /\ max_depth'[w] >= cur_depth'[w] /\ max_depth'[w] >= max_depth[w]
           /\ \A x \in Directions : x # w => cur_depth'[x] = cur_depth[x]
                                             /\ max_depth'[x] = max_depth[x]
<1>1. /\ cur_depth' \in [Directions -> Nat] /\ cur_depth'[w] = cur_depth[w] + 1
      /\ \A x \in Directions : x # w => cur_depth'[x] = cur_depth[x]
    BY DEF Deeper, BookInv
<1>2. PICK n \in Nat : n = IF cur_depth'[w] > max_depth[w] THEN cur_depth'[w] ELSE max_depth[w]
    BY <1>1 DEF BookInv
<1>3. max_depth' = [max_depth EXCEPT ![w] = n]
    BY <1>2 DEF Deeper
<1>4. n >= cur_depth'[w] /\ n >= max_depth[w]
    BY <1>1, <1>2 DEF BookInv
<1> QED BY <1>1, <1>3, <1>4 DEF BookInv

LEMMA ShallowerIs ==
    ASSUME BookInv, NEW w \in Directions, Shallower(w)
    PROVE  /\ cur_depth' \in [Directions -> Nat] /\ max_depth' = max_depth
           /\ cur_depth'[w] = (IF cur_depth[w] > 0 THEN cur_depth[w] - 1 ELSE 0)
           /\ \A x \in Directions : x # w => cur_depth'[x] = cur_depth[x]
BY DEF Shallower, BookInv

\* The counts that the statements about the sums and the depths speak of.
Counts(e) ==
    \A w \in Directions :
        LET its == e.w = w /\ e.kind = "fs"
        IN  /\ io_stats'["requeue"][w].n
                  = io_stats["requeue"][w].n + (IF its /\ e.act = "R" THEN 1 ELSE 0)
            /\ io_stats'["issue"][w].len
                  = io_stats["issue"][w].len + (IF its /\ e.act = "D" THEN e.len ELSE 0)
                      - (IF its /\ e.act = "R" THEN e.len ELSE 0)
            /\ io_stats'["complete"][w].len
                  = io_stats["complete"][w].len + (IF its /\ e.act = "C" THEN e.len ELSE 0)

LEMMA CountsSame ==
    ASSUME SumsOK(io_stats, ppi), NEW e, io_stats' = io_stats, e.act \notin {"R", "D", "C"}
    PROVE  Counts(e)
<1>1. \A of \in Counted : \A w \in Directions :
         io_stats[of][w].n \in Int /\ io_stats[of][w].len \in Int
    BY StatsValue DEF SumsOK
<1> QED BY <1>1 DEF Counts, Counted

LEMMA CountsOne ==
    ASSUME SumsOK(io_stats, ppi), NEW e, e.w \in Directions, e.len \in Int,
           NEW of \in Counted, NEW w \in Directions, NEW len \in Int,
           io_stats' = Account(io_stats, of, w, 1, len),
           \/ /\ of \notin {"requeue", "issue", "complete"}
              /\ (e.act \notin {"R", "D", "C"} \/ e.kind = "pc")
           \/ /\ w = e.w /\ len = e.len /\ e.kind = "fs"
              /\ \/ of = "issue" /\ e.act = "D"
                 \/ of = "complete" /\ e.act = "C"
    PROVE  Counts(e)
<1>1. \A x \in Counted : \A y \in Directions :
         io_stats[x][y].n \in Int /\ io_stats[x][y].len \in Int
    BY StatsValue DEF SumsOK
<1>2. \A x \in Counted : \A y \in Directions :
         /\ io_stats'[x][y].n = io_stats[x][y].n + (IF x = of /\ y = w THEN 1 ELSE 0)
         /\ io_stats'[x][y].len = io_stats[x][y].len + (IF x = of /\ y = w THEN len ELSE 0)
  <2>1. 1 \in Int /\ io_stats \in Stats
    BY DEF SumsOK
  <2> QED BY <2>1, AccountIs
<1>3. "requeue" \in Counted /\ "issue" \in Counted /\ "complete" \in Counted
    BY DEF Counted
<1> QED BY <1>1, <1>2, <1>3 DEF Counts

LEMMA AccountedStep ==
    ASSUME BookInv, NEW e, e.w \in Directions, e.len \in Int, NEW of \in Counted,
           Accounted(e, of)
    PROVE  SumsOK(io_stats', ppi') /\ Entered(ppi', e.pid)
           /\ io_stats' = Account(io_stats, of, e.w, 1, e.len)
BY AccountOK DEF BookInv, Accounted

LEMMA WaitedStep ==
    ASSUME NEW stats, NEW infos, SumsOK(stats, infos), NEW t, NEW of \in Waiting,
           NEW w \in Directions, NEW time \in Int
    PROVE  SumsOK(stats, Waited(infos, t, of, w, time))
<1>1. PICK new : new = Waited(infos, t, of, w, time)
    OBVIOUS
<1>2. infos \in [DOMAIN infos -> Info]
    BY DEF SumsOK
<1>3. /\ DOMAIN new = DOMAIN infos /\ new \in [DOMAIN infos -> Info]
      /\ \A p \in DOMAIN infos : new[p].stats = infos[p].stats
  <2>1. LongerPut(new, infos, t, of, w, time)
    BY <1>1, <1>2, WaitedIs
  <2> QED BY <2>1 DEF LongerPut
<1> QED BY <1>1, <1>3, SumsKept

LEMMA BookStep ==
    ASSUME BookInv, NEW e \in Events, DumpTrace(e), e.act # "none"
    PROVE  BookInv' /\ Counts(e)
<1>0. /\ e.w \in Directions /\ e.len \in Nat /\ e.len \in Int /\ e.time \in Nat
      /\ e.sector \in Nat /\ e.pid \in Nat /\ e.kind \in {"fs", "pc"} /\ e.act \in Acts
    BY DEF Events, Directions
<1>a. TracksOK /\ SumsOK(io_stats, ppi)
      /\ cur_depth \in [Directions -> Nat] /\ max_depth \in [Directions -> Nat]
    BY DEF BookInv
<1>b. UNCHANGED tracks => TracksOK'
    BY <1>a DEF TracksOK
<1>c. \A t \in tracks : t.allocation \in Int /\ t.queue \in Int /\ t.dispatch \in Int
                        /\ t \in Track
    BY <1>a DEF TracksOK, Track
<1>d. \A from \in Int : Since(from, e.time) \in Int
    BY <1>0 DEF Since, Garbage
<1>1. CASE e.act = "Q"
  <2>1. TraceQueue(e)
    BY <1>1, TraceActs
  <2>2. "queue" \in Counted
    BY DEF Counted
  <2>3. Accounted(e, "queue") /\ UNCHANGED <<tracks, cur_depth, max_depth>>
    BY <2>1 DEF TraceQueue
  <2>4. SumsOK(io_stats', ppi') /\ io_stats' = Account(io_stats, "queue", e.w, 1, e.len)
    BY <1>0, <2>2, <2>3, AccountedStep
  <2>5. Counts(e)
    BY <1>0, <1>1, <1>a, <2>2, <2>4, CountsOne
  <2> QED BY <1>a, <1>b, <2>3, <2>4, <2>5 DEF BookInv
<1>2. CASE e.act = "G"
  <2>1. TraceGetrq(e)
    BY <1>2, TraceActs
  <2>2. PICK t : t = [FindTrack(e.sector, e.pid) EXCEPT !.allocation = e.time]
    OBVIOUS
  <2>3. t \in Track
    BY <1>0, <1>a, <2>2, FindTrackIs DEF Track
  <2>4. Set(t) /\ UNCHANGED <<cur_depth, max_depth, io_stats, ppi>>
    BY <2>1, <2>2, Zenon DEF TraceGetrq
  <2>5. TracksOK'
    BY <1>a, <2>3, <2>4, SetIs
  <2>6. Counts(e)
    BY <1>2, <1>a, <2>4, CountsSame
  <2> QED BY <1>a, <2>4, <2>5, <2>6 DEF BookInv
<1>3. CASE e.act = "I" /\ e.kind = "fs"
  <2>1. TraceInsert(e)
    BY <1>3, TraceActs
  <2>2. PICK t \in Track : t = FindTrack(e.sector, e.pid)
    BY <1>0, <1>a, FindTrackIs
  <2>3. PICK u : u = [t EXCEPT !.queue = e.time]
    OBVIOUS
  <2>4. u \in Track
    BY <1>0, <2>3 DEF Track
  <2>5. PICK time \in Int : time = Since(t.allocation, e.time)
    BY <1>d, <2>2 DEF Track
  <2>6. /\ Set(u) /\ ppi' = Waited(ppi, t, "allocation", e.w, time)
        /\ UNCHANGED <<cur_depth, max_depth, io_stats>>
    BY <2>1, <2>2, <2>3, <2>5, Zenon DEF TraceInsert
  <2>7. TracksOK'
    BY <1>a, <2>4, <2>6, SetIs
  <2>8. SumsOK(io_stats, ppi')
    BY <1>0, <1>a, <2>6, WaitedStep DEF Waiting
  <2>9. Counts(e)
    BY <1>3, <1>a, <2>6, CountsSame
  <2> QED BY <1>a, <2>6, <2>7, <2>8, <2>9 DEF BookInv
<1>4. CASE e.act \in {"M", "F"}
  <2>1. TraceMerge(e)
    BY <1>4, TraceActs
  <2>2. "merge" \in Counted
    BY DEF Counted
  <2>3. Accounted(e, "merge") /\ UNCHANGED <<cur_depth, max_depth>>
    BY <2>1 DEF TraceMerge
  <2>4. SumsOK(io_stats', ppi') /\ io_stats' = Account(io_stats, "merge", e.w, 1, e.len)
    BY <1>0, <2>2, <2>3, AccountedStep
  <2>5. Counts(e)
    BY <1>0, <1>4, <1>a, <2>2, <2>4, CountsOne
  <2>6. TracksOK'
    BY <1>0, <1>a, <1>b, <2>1, FrontmergeIs DEF TraceMerge
  <2> QED BY <1>a, <2>3, <2>4, <2>5, <2>6 DEF BookInv
<1>5. CASE e.act = "D" /\ e.kind = "fs"
  <2>1. TraceIssue(e)
    BY <1>5, TraceActs
  <2>2. "issue" \in Counted
    BY DEF Counted
  <2>3. PICK counted : counted = WithPpi(e.pid, [PpiOf(e.pid) EXCEPT !.stats =
                                     Account(@, "issue", e.w, 1, e.len)])
    OBVIOUS
  <2>4. Deeper(e.w) /\ io_stats' = Account(io_stats, "issue", e.w, 1, e.len)
    BY <2>1 DEF TraceIssue
  <2>5. SumsOK(io_stats', counted)
    BY <1>0, <1>a, <2>2, <2>3, <2>4, AccountOK
  <2>6. Counts(e)
    BY <1>0, <1>5, <1>a, <2>2, <2>4, CountsOne
  <2>7. TracksOK' /\ SumsOK(io_stats', ppi')
    <3>1. CASE At(e.sector) = {}
      <4>1. ppi' = counted /\ UNCHANGED tracks
        BY <2>1, <2>3, <3>1, Zenon DEF TraceIssue
      <4> QED BY <1>b, <2>5, <4>1
    <3>2. CASE At(e.sector) # {}
      <4>1. PICK t \in tracks : t = TheTrack(e.sector)
        BY <1>a, <3>2, TheTrackIs
      <4>2. PICK u : u = [t EXCEPT !.dispatch = e.time]
        OBVIOUS
      <4>3. u \in Track
        BY <1>0, <1>c, <4>1, <4>2 DEF Track
      <4>4. PICK time \in Int : time = Since(t.queue, e.time)
        BY <1>c, <1>d, <4>1
      <4>5. Set(u) /\ ppi' = Waited(counted, t, "dispatch", e.w, time)
        BY <2>1, <2>3, <3>2, <4>1, <4>2, <4>4, Zenon DEF TraceIssue
      <4>6. SumsOK(io_stats', ppi')
        BY <1>0, <2>5, <4>5, WaitedStep DEF Waiting
      <4> QED BY <1>a, <4>3, <4>5, <4>6, SetIs
    <3> QED BY <3>1, <3>2
  <2> QED BY <1>0, <2>4, <2>6, <2>7, DeeperIs DEF BookInv
<1>6. CASE e.act = "R" /\ e.kind = "fs"
  <2>1. TraceRequeue(e)
    BY <1>6, TraceActs
  <2>2. "issue" \in Counted /\ "requeue" \in Counted
    BY DEF Counted
  <2>3. AccountedRequeue(e, "requeue", "issue") /\ Shallower(e.w) /\ UNCHANGED tracks
    BY <2>1 DEF TraceRequeue
  <2>4. /\ SumsOK(io_stats', ppi')
        /\ \A x \in Counted : \A y \in Directions :
              /\ io_stats'[x][y].n
                    = io_stats[x][y].n + (IF x = "requeue" /\ y = e.w THEN 1 ELSE 0)
              /\ io_stats'[x][y].len
                    = io_stats[x][y].len - (IF x = "issue" /\ y = e.w THEN e.len ELSE 0)
    BY <1>0, <1>a, <2>2, <2>3, RequeueOK
  <2>5. \A of \in Counted : \A w \in Directions :
           io_stats[of][w].n \in Int /\ io_stats[of][w].len \in Int
    BY <1>a, StatsValue DEF SumsOK
  <2>6. Counts(e)
    BY <1>0, <1>6, <2>2, <2>4, <2>5 DEF Counts, Counted
  <2> QED BY <1>0, <1>a, <1>b, <2>3, <2>4, <2>6, ShallowerIs DEF BookInv
<1>7. CASE e.act = "C" /\ e.kind = "fs"
  <2>1. TraceComplete(e)
    BY <1>7, TraceActs
  <2>2. "complete" \in Counted
    BY DEF Counted
  <2>3. PICK counted : counted = WithPpi(e.pid, [PpiOf(e.pid) EXCEPT !.stats =
                                     Account(@, "complete", e.w, 1, e.len)])
    OBVIOUS
  <2>4. Shallower(e.w) /\ io_stats' = Account(io_stats, "complete", e.w, 1, e.len)
    BY <2>1 DEF TraceComplete
  <2>5. SumsOK(io_stats', counted)
    BY <1>0, <1>a, <2>2, <2>3, <2>4, AccountOK
  <2>6. Counts(e)
    BY <1>0, <1>7, <1>a, <2>2, <2>4, CountsOne
  <2>7. TracksOK' /\ SumsOK(io_stats', ppi')
    <3>1. CASE At(e.sector) = {}
      <4>1. ppi' = counted /\ UNCHANGED tracks
        BY <2>1, <2>3, <3>1, Zenon DEF TraceComplete
      <4> QED BY <1>b, <2>5, <4>1
    <3>2. CASE At(e.sector) # {}
      <4>1. PICK t \in tracks : t = TheTrack(e.sector)
        BY <1>a, <3>2, TheTrackIs
      <4>4. PICK time \in Int : time = Since(t.dispatch, e.time)
        BY <1>c, <1>d, <4>1
      <4>5. tracks' = tracks \ {t} /\ ppi' = Waited(counted, t, "completion", e.w, time)
        BY <2>1, <2>3, <3>2, <4>1, <4>4, Zenon DEF TraceComplete
      <4>6. SumsOK(io_stats', ppi')
        BY <1>0, <2>5, <4>5, WaitedStep DEF Waiting
      <4> QED BY <1>a, <4>5, <4>6, DropTrack
    <3> QED BY <3>1, <3>2
  <2> QED BY <1>0, <1>a, <2>4, <2>6, <2>7, ShallowerIs DEF BookInv
<1>8. CASE e.act \in {"I", "D", "R", "C"} /\ e.kind = "pc"
  <2>1. TraceCommand(e)
    BY <1>8, TraceActs
  <2>2. UNCHANGED tracks
    BY <2>1 DEF TraceCommand
  <2>3. \A x \in {"pc_issue", "pc_complete", "pc_requeue", "issue", "complete", "requeue"} :
           x \in Counted
    BY DEF Counted
  <2>4. CASE e.act = "I" /\ UNCHANGED <<cur_depth, max_depth, io_stats, ppi>>
    <3>1. Counts(e)
      BY <1>a, <2>4, CountsSame
    <3> QED BY <1>a, <1>b, <2>2, <2>4, <3>1 DEF BookInv
  <2>5. CASE e.act = "D" /\ Deeper(e.w) /\ Accounted(e, "pc_issue")
    <3>1. SumsOK(io_stats', ppi') /\ io_stats' = Account(io_stats, "pc_issue", e.w, 1, e.len)
      BY <1>0, <2>3, <2>5, AccountedStep
    <3>2. Counts(e)
      BY <1>0, <1>8, <1>a, <2>3, <3>1, CountsOne
    <3> QED BY <1>0, <1>b, <2>2, <2>5, <3>1, <3>2, DeeperIs DEF BookInv
  <2>6. CASE e.act = "R" /\ Shallower(e.w) /\ AccountedRequeue(e, "pc_requeue", "pc_issue")
    <3>1. /\ SumsOK(io_stats', ppi')
          /\ \A x \in Counted : \A y \in Directions :
                /\ io_stats'[x][y].n
                      = io_stats[x][y].n + (IF x = "pc_requeue" /\ y = e.w THEN 1 ELSE 0)
                /\ io_stats'[x][y].len
                      = io_stats[x][y].len - (IF x = "pc_issue" /\ y = e.w THEN e.len ELSE 0)
      BY <1>0, <1>a, <2>3, <2>6, RequeueOK
    <3>2. \A of \in Counted : \A w \in Directions :
             io_stats[of][w].n \in Int /\ io_stats[of][w].len \in Int
      BY <1>a, StatsValue DEF SumsOK
    <3>3. Counts(e)
      BY <1>8, <2>3, <3>1, <3>2 DEF Counts
    <3> QED BY <1>0, <1>a, <1>b, <2>2, <2>6, <3>1, <3>3, ShallowerIs DEF BookInv
  <2>7. CASE e.act = "C" /\ Shallower(e.w) /\ Accounted(e, "pc_complete")
    <3>1. SumsOK(io_stats', ppi')
          /\ io_stats' = Account(io_stats, "pc_complete", e.w, 1, e.len)
      BY <1>0, <2>3, <2>7, AccountedStep
    <3>2. Counts(e)
      BY <1>0, <1>8, <1>a, <2>3, <3>1, CountsOne
    <3> QED BY <1>0, <1>a, <1>b, <2>2, <2>7, <3>1, <3>2, ShallowerIs DEF BookInv
  <2> QED BY <2>1, <2>4, <2>5, <2>6, <2>7 DEF TraceCommand
<1>9. CASE e.act \in {"U", "UT"}
  <2>1. TraceUnplug(e)
    BY <1>9, TraceActs
  <2>2. "unplug" \in Counted
    BY DEF Counted
  <2>3. PICK f : f = [e EXCEPT !.w = IF e.act = "UT" THEN 1 ELSE 0, !.len = 0]
    OBVIOUS
  <2>4. f.w \in Directions /\ f.len = 0
    BY <2>3 DEF Events, Directions
  <2>5. Accounted(f, "unplug") /\ UNCHANGED <<tracks, cur_depth, max_depth>>
    BY <2>1, <2>3, Zenon DEF TraceUnplug
  <2>6. SumsOK(io_stats', ppi') /\ io_stats' = Account(io_stats, "unplug", f.w, 1, f.len)
    BY <2>2, <2>4, <2>5, AccountedStep
  <2>7. Counts(e)
    BY <1>0, <1>9, <1>a, <2>2, <2>4, <2>6, CountsOne
  <2> QED BY <1>a, <1>b, <2>5, <2>6, <2>7 DEF BookInv
<1>10. CASE e.act \in {"S", "P"}
  <2>1. UNCHANGED <<tracks, cur_depth, max_depth, io_stats, ppi>>
    BY <1>10, TraceActs DEF TraceOther
  <2>2. Counts(e)
    BY <1>10, <1>a, <2>1, CountsSame
  <2> QED BY <1>a, <1>b, <2>1, <2>2 DEF BookInv
<1> QED BY <1>0, <1>1, <1>2, <1>3, <1>4, <1>5, <1>6, <1>7, <1>8, <1>9, <1>10 DEF Acts

LEMMA IoStep ==
    ASSUME KnownInv, IoOK(iostat), NEW e \in Events, AddTrace(e)
    PROVE  IoOK(iostat')
<1>0. e.time \in Nat /\ e.len \in Nat
    BY DEF Events
<1>1. PICK io : io = Checked(iostat, e.time)
    OBVIOUS
<1>2. IoOK(io)
    BY <1>0, <1>1, CheckedOK
<1>3. CASE iostat' = io \/ iostat' = iostat
    BY <1>2, <1>3
<1>4. CASE BttGetrq(e)
  <2>1. iostat' = IostatGetrq(io, e)
    BY <1>1, <1>4 DEF BttGetrq
  <2> QED BY <1>0, <1>2, <2>1, GetrqOK
<1>5. CASE BttMerge(e)
  <2>1. iostat' = IostatMerge(io)
    BY <1>1, <1>5 DEF BttMerge
  <2> QED BY <1>2, <2>1, IoMergeOK
<1>6. CASE BttIssue(e)
  <2>1. iostat' = IostatIssue(io, e)
    BY <1>1, <1>6 DEF BttIssue
  <2> QED BY <1>0, <1>2, <2>1, IssueOK
<1>7. CASE BttComplete(e)
  <2>1. PICK found \in FoundWithin(e) :
           iostat' = IostatComplete(io, e, {q \in found : q.d # Never})
    BY <1>1, <1>7 DEF BttComplete
  <2>2. PICK issued : issued = {q \in found : q.d # Never}
    OBVIOUS
  <2>3. issued \subseteq qs
    BY <2>2, FoundIn
  <2> QED BY <1>0, <1>2, <2>1, <2>2, <2>3, IoCompleteOK
<1>8. CASE BttQueue(e) \/ BttSleep(e) \/ BttInsert(e) \/ BttRequeue(e) \/ BttPlug(e)
           \/ BttLetGo(e)
    BY <1>1, <1>3, <1>8 DEF BttQueue, BttSleep, BttInsert, BttRequeue, BttPlug, BttLetGo
<1> QED BY <1>4, <1>5, <1>6, <1>7, <1>8 DEF AddTrace

LEMMA IoInit == AnalysisInit => IoOK(iostat)
<1> SUFFICES ASSUME AnalysisInit PROVE IoOK(iostat)
    OBVIOUS
<1>1. NoLine \in Line
    BY NoLineIs
<1>2. iostat \in IoStat /\ iostat.stats = NoLine /\ iostat.all = NoLine
      /\ iostat.printed = NoLine
    BY <1>1 DEF AnalysisInit, BttInit, IoStat, Never
<1> QED BY <1>1, <1>2, PlusNothing DEF IoOK

LEMMA BookInit == AnalysisInit => BookInv
<1> SUFFICES ASSUME AnalysisInit PROVE BookInv
    OBVIOUS
<1>1. TracksOK
    BY FS_EmptySet DEF AnalysisInit, IoTrackInit, TracksOK
<1>2. /\ cur_depth \in [Directions -> Nat] /\ max_depth \in [Directions -> Nat]
      /\ io_stats = NoStats /\ DOMAIN ppi = {}
    BY DEF AnalysisInit, IoTrackInit
<1>3. ASSUME NEW of \in Counted, NEW w \in Directions
      PROVE  /\ io_stats[of][w].n = Total([p \in DOMAIN ppi |-> ppi[p].stats[of][w].n])
             /\ io_stats[of][w].len = Total([p \in DOMAIN ppi |-> ppi[p].stats[of][w].len])
  <2>1. io_stats[of][w].n = 0 /\ io_stats[of][w].len = 0
    BY <1>2, NewInfo
  <2> DEFINE f == [p \in DOMAIN ppi |-> ppi[p].stats[of][w].n]
             g == [p \in DOMAIN ppi |-> ppi[p].stats[of][w].len]
  <2>2. f \in [{} -> Int] /\ g \in [{} -> Int]
    BY <1>2
  <2> HIDE DEF f, g
  <2>3. Total(f) = 0 /\ Total(g) = 0
    BY <2>2, TotalEmpty
  <2> QED BY <2>1, <2>3 DEF f, g
<1>4. IsFiniteSet(DOMAIN ppi) /\ ppi \in [DOMAIN ppi -> Info]
  <2>1. ppi \in [{} -> Info]
    BY DEF AnalysisInit, IoTrackInit
  <2> QED BY <1>2, <2>1, FS_EmptySet
<1> QED BY <1>1, <1>2, <1>3, <1>4, NewInfo DEF BookInv, SumsOK
-----------------------------------------------------------------------------
(* The sectors on the device.                                              *)

OnDevice(w) == {r \in requests : r.kind = "fs" /\ r.state = "issued" /\ r.w = w}
Lens(set) == Total([r \in set |-> r.len])

LEMMA LensAdd ==
    ASSUME NEW S, IsFiniteSet(S), S \subseteq Request, NEW a \in Request, a \notin S
    PROVE  /\ Lens(S \cup {a}) = Lens(S) + a.len
           /\ Lens(S) \in Int /\ Lens(S \cup {a}) \in Int /\ a.len \in Nat
<1> DEFINE f == [r \in S |-> r.len]
           g == [r \in S \cup {a} |-> r.len]
<1>1. f \in [S -> Int] /\ g \in [S \cup {a} -> Int] /\ a.len \in Nat
    BY DEF Request
<1>2. (\A x \in S : g[x] = f[x]) /\ g[a] = a.len
    OBVIOUS
<1> HIDE DEF f, g
<1>3. Total(g) = Total(f) + g[a] /\ Total(f) \in Int
    BY <1>1, <1>2, TotalAdd, TotalType
<1> QED BY <1>1, <1>2, <1>3 DEF Lens, f, g

Less(e, w) ==
    IF e.w = w /\ e.kind = "fs" /\ e.act \in {"R", "C"} THEN e.len ELSE 0
More(e, w) ==
    IF e.w = w /\ e.kind = "fs" /\ e.act = "D" THEN e.len ELSE 0

LEMMA LensSame ==
    ASSUME BlockInv, NEW w, NEW S, S = OnDevice(w)
    PROVE  Lens(S) \in Int
<1>1. IsFiniteSet(S) /\ S \subseteq Request
    BY FS_Subset DEF OnDevice, BlockInv, BlockTypes
<1> DEFINE f == [r \in S |-> r.len]
<1>2. f \in [S -> Int]
    BY <1>1 DEF Request
<1> HIDE DEF f
<1>3. Total(f) \in Int
    BY <1>1, <1>2, TotalType
<1> QED BY <1>3 DEF Lens, f

LEMMA LensReplaced ==
    ASSUME BlockInv, NEW r \in requests, NEW s \in Request, Replace(r, s),
           s.id = r.id, s.kind = r.kind, s.w = r.w, NEW w
    PROVE  /\ r.kind # "fs" \/ r.w # w \/ (s.state = r.state /\ r.state # "issued")
              => OnDevice(w)' = OnDevice(w)
           /\ r.kind = "fs" /\ r.w = w /\ r.state # "issued" /\ s.state = "issued"
              => OnDevice(w)' = OnDevice(w) \cup {s} /\ s \notin OnDevice(w)
           /\ r.kind = "fs" /\ r.w = w /\ r.state = "issued" /\ s.state # "issued"
              => OnDevice(w) = OnDevice(w)' \cup {r} /\ r \notin OnDevice(w)'
<1>1. \A x \in requests : x.id = r.id => x = r
    BY DEF BlockInv, Separate
<1>2. \A x : x \in requests' <=> x = s \/ (x \in requests /\ x # r)
    BY DEF Replace
<1>3. s \in requests => s = r
    BY <1>1
<1> QED BY <1>2, <1>3 DEF OnDevice

\* The sectors on the device change as issue and complete are counted.
LEMMA LensStep ==
    ASSUME BlockInv, BlockNext, NEW w \in Directions
    PROVE  Lens(OnDevice(w)') = Lens(OnDevice(w)) + More(event', w) - Less(event', w)
<1>a. BlockInv' /\ event' \in Events
    BY BlockInvStep, EventTimes
<1>b. /\ IsFiniteSet(OnDevice(w)) /\ OnDevice(w) \subseteq Request
      /\ IsFiniteSet(OnDevice(w)') /\ OnDevice(w)' \subseteq Request
    BY <1>a, FS_Subset DEF OnDevice, BlockInv, BlockTypes
<1>c. PICK S : S = OnDevice(w)
    OBVIOUS
<1>d. PICK T : T = OnDevice(w)'
    OBVIOUS
<1>e. IsFiniteSet(S) /\ S \subseteq Request /\ IsFiniteSet(T) /\ T \subseteq Request
    BY <1>b, <1>c, <1>d
<1>f. Lens(S) \in Int
    BY <1>c, LensSame
<1>g. SUFFICES Lens(T) = Lens(S) + More(event', w) - Less(event', w)
    BY <1>c, <1>d
<1>h. ASSUME More(event', w) = 0, Less(event', w) = 0, T = S
      PROVE  Lens(T) = Lens(S) + More(event', w) - Less(event', w)
    BY <1>f, <1>h
<1>i. event'.act \notin {"D", "R", "C"} => More(event', w) = 0 /\ Less(event', w) = 0
    BY DEF More, Less
<1>1. CASE workload.bios # <<>> /\ Queue(Head(workload.bios))
  <2>1. requests' = requests /\ event'.act = "Q"
    BY <1>1, QueueIs
  <2>2. T = S
    BY <1>c, <1>d, <2>1 DEF OnDevice
  <2> QED BY <1>h, <1>i, <2>1, <2>2
<1>2. ASSUME NEW b \in waiting, Sleep(b)
      PROVE  Lens(T) = Lens(S) + More(event', w) - Less(event', w)
  <2>1. requests' = requests /\ event'.act = "S"
    BY <1>2, SleepIs
  <2>2. T = S
    BY <1>c, <1>d, <2>1 DEF OnDevice
  <2> QED BY <1>h, <1>i, <2>1, <2>2
<1>3. ASSUME NEW b \in waiting, GetRequest(b)
      PROVE  Lens(T) = Lens(S) + More(event', w) - Less(event', w)
  <2>1. event'.act = "G"
    BY <1>3 DEF GetRequest, RecordBio, Event
  <2>2. \E s : s.state = "got" /\ requests' = requests \cup {s}
    BY <1>3 DEF GetRequest
  <2>3. T = S
    BY <1>c, <1>d, <2>2 DEF OnDevice
  <2> QED BY <1>h, <1>i, <2>1, <2>3
<1>4. ASSUME NEW b \in waiting, NEW r \in requests, Merge(b, r)
      PROVE  Lens(T) = Lens(S) + More(event', w) - Less(event', w)
  <2>1. PICK s \in Request : /\ Replace(r, s) /\ Grown(b, r, s) /\ r.state # "issued"
                             /\ event'.act \in {"M", "F"}
    BY <1>4, MergeIs
  <2>2. T = S
    BY <1>c, <1>d, <2>1, LensReplaced DEF Grown
  <2> QED BY <1>h, <1>i, <2>1, <2>2
<1>5. ASSUME NEW p, GetCommand(p)
      PROVE  Lens(T) = Lens(S) + More(event', w) - Less(event', w)
  <2>1. event'.act = "G"
    BY <1>5 DEF GetCommand, Event
  <2>2. \E s : s.state = "got" /\ requests' = requests \cup {s}
    BY <1>5 DEF GetCommand
  <2>3. T = S
    BY <1>c, <1>d, <2>2 DEF OnDevice
  <2> QED BY <1>h, <1>i, <2>1, <2>3
<1>6. ASSUME NEW r \in requests, Insert(r) \/ Issue(r) \/ Requeue(r)
      PROVE  Lens(T) = Lens(S) + More(event', w) - Less(event', w)
  <2>1. PICK s \in Request :
              /\ Replace(r, s) /\ SameRequest(r, s)
              /\ Insert(r) => AfterInsert(r, s)
              /\ Issue(r) => AfterIssue(r, s)
              /\ Requeue(r) => AfterRequeue(r, s)
    BY <1>6, StateStepIs
  <2>2. event'.kind = r.kind /\ event'.len = r.len /\ event'.w = r.w
    BY <1>6, RequestEvents
  <2>3. s.id = r.id /\ s.kind = r.kind /\ s.w = r.w /\ s.len = r.len /\ r.len \in Nat
    BY <2>1 DEF SameRequest, BlockInv, BlockTypes, Request
  <2>4. CASE r.kind # "fs" \/ r.w # w
    <3>1. T = S
      BY <1>c, <1>d, <2>1, <2>3, <2>4, LensReplaced
    <3>2. More(event', w) = 0 /\ Less(event', w) = 0
      BY <2>2, <2>4 DEF More, Less
    <3> QED BY <1>h, <3>1, <3>2
  <2>5. CASE r.kind = "fs" /\ r.w = w /\ Insert(r)
    <3>1. event'.act = "I" /\ AfterInsert(r, s)
      BY <2>1, <2>5, RequestEvents
    <3>2. T = S
      BY <1>c, <1>d, <2>1, <2>3, <3>1, LensReplaced DEF AfterInsert, OnDevice, Replace,
         BlockInv, Separate
    <3> QED BY <1>h, <1>i, <3>1, <3>2
  <2>6. CASE r.kind = "fs" /\ r.w = w /\ Issue(r)
    <3>1. event'.act = "D" /\ AfterIssue(r, s)
      BY <2>1, <2>6, RequestEvents
    <3>2. T = S \cup {s} /\ s \notin S
      BY <1>c, <1>d, <2>1, <2>3, <2>6, <3>1, LensReplaced DEF AfterIssue
    <3>3. More(event', w) = r.len /\ Less(event', w) = 0
      BY <2>2, <2>6, <3>1 DEF More, Less
    <3>4. Lens(T) = Lens(S) + s.len
      BY <1>e, <3>2, LensAdd
    <3> QED BY <1>f, <2>3, <3>3, <3>4
  <2>7. CASE r.kind = "fs" /\ r.w = w /\ Requeue(r)
    <3>1. event'.act = "R" /\ AfterRequeue(r, s)
      BY <2>1, <2>7, RequestEvents
    <3>2. S = T \cup {r} /\ r \notin T
      BY <1>c, <1>d, <2>1, <2>3, <2>7, <3>1, LensReplaced DEF AfterRequeue
    <3>3. More(event', w) = 0 /\ Less(event', w) = r.len
      BY <2>2, <2>7, <3>1 DEF More, Less
    <3>4. Lens(S) = Lens(T) + r.len /\ Lens(T) \in Int
      BY <1>e, <3>2, LensAdd DEF BlockInv, BlockTypes
    <3> QED BY <1>f, <2>3, <3>3, <3>4
  <2> QED BY <1>6, <2>4, <2>5, <2>6, <2>7
<1>7. ASSUME NEW r \in requests, Complete(r)
      PROVE  Lens(T) = Lens(S) + More(event', w) - Less(event', w)
  <2>1. requests' = requests \ {r} /\ r.state = "issued"
    BY <1>7, CompleteIs
  <2>2. event'.kind = r.kind /\ event'.len = r.len /\ event'.w = r.w /\ event'.act = "C"
    BY <1>7, RequestEvents
  <2>3. r.len \in Nat /\ r \in Request
    BY DEF BlockInv, BlockTypes, Request
  <2>4. CASE r.kind # "fs" \/ r.w # w
    <3>1. T = S
      BY <1>c, <1>d, <2>1, <2>4 DEF OnDevice
    <3>2. More(event', w) = 0 /\ Less(event', w) = 0
      BY <2>2, <2>4 DEF More, Less
    <3> QED BY <1>h, <3>1, <3>2
  <2>5. CASE r.kind = "fs" /\ r.w = w
    <3>2. S = T \cup {r} /\ r \notin T
      BY <1>c, <1>d, <2>1, <2>5 DEF OnDevice
    <3>3. More(event', w) = 0 /\ Less(event', w) = r.len
      BY <2>2, <2>5 DEF More, Less
    <3>4. Lens(S) = Lens(T) + r.len /\ Lens(T) \in Int
      BY <1>e, <2>3, <3>2, LensAdd
    <3> QED BY <1>f, <2>3, <3>3, <3>4
  <2> QED BY <2>4, <2>5
<1>8. CASE PlugOrUnplug
  <2>1. requests' = requests /\ event'.act \in {"P", "U", "UT"}
    BY <1>8, PlugIs DEF PlugOrUnplug
  <2>2. T = S
    BY <1>c, <1>d, <2>1 DEF OnDevice
  <2> QED BY <1>h, <1>i, <2>1, <2>2
<1> QED BY <1>1, <1>2, <1>3, <1>4, <1>5, <1>6, <1>7, <1>8 DEF BlockNext, PlugOrUnplug

-----------------------------------------------------------------------------
(* The depths.                                                             *)

OnIt(w) == {r \in Request : r.state = "issued" /\ r.w = w}
FsOnIt == {r \in Request : r.kind = "fs" /\ r.state = "issued"}
FsNotOnIt == {r \in Request : r.kind = "fs" /\ r.state # "issued"}
Fs == {r \in Request : r.kind = "fs"}
Requeued(w) == io_stats["requeue"][w].n

\* The depths of blkparse, those of btt's queue and device, and iostat's.
DirDepths == \A w \in Directions : /\ cur_depth[w] = Count(OnIt(w))
                                   /\ cur_depth[w] <= max_depth[w]
                                   /\ Requeued(w) \in Nat
QueueDepths ==
    /\ n_act_q = Cardinality(waiting) + Count(FsNotOnIt)
    /\ na = Count(FsOnIt) + Requeued(0) + Requeued(1)
IoDepths ==
    /\ iostat.cur_qusz = Count(Fs) - Merged
    /\ iostat.cur_dev = na - Merged
DepthInv == DirDepths /\ QueueDepths /\ IoDepths

LEMMA DepthMoves ==
    ASSUME NEW e \in Events, DumpTrace(e), e.act # "none"
    PROVE  /\ e.act = "D" => Deeper(e.w)
           /\ e.act \in {"R", "C"} => Shallower(e.w)
           /\ e.act \notin {"D", "R", "C"} => UNCHANGED <<cur_depth, max_depth>>
<1>1. e.kind \in {"fs", "pc"} /\ e.act \in Acts
    BY DEF Events
<1>2. e.act = "D" => Deeper(e.w)
    BY <1>1, TraceActs DEF TraceIssue, TraceCommand
<1>3. e.act \in {"R", "C"} => Shallower(e.w)
    BY <1>1, TraceActs DEF TraceRequeue, TraceComplete, TraceCommand
<1>4. e.act \in {"Q", "G", "M", "F"} => UNCHANGED <<cur_depth, max_depth>>
    BY TraceActs DEF TraceQueue, TraceGetrq, TraceMerge
<1>5. e.act \in {"S", "P", "U", "UT"} => UNCHANGED <<cur_depth, max_depth>>
    BY TraceActs DEF TraceUnplug, TraceOther
<1>6. e.act = "I" => UNCHANGED <<cur_depth, max_depth>>
    BY <1>1, TraceActs DEF TraceInsert, TraceCommand
<1> QED BY <1>1, <1>2, <1>3, <1>4, <1>5, <1>6 DEF Acts

\* How each handler changes the depth of the queue and of the device.
LEMMA BttDepths ==
    ASSUME IoOK(iostat), NEW e \in Events
    PROVE  /\ BttQueue(e) /\ (\A q \in qs : q.sector # e.sector)
                 => n_act_q' = n_act_q + 1 /\ na' = na /\ SameDepths(iostat', iostat)
           /\ BttGetrq(e) => /\ n_act_q' = n_act_q /\ na' = na
                             /\ iostat'.cur_qusz = iostat.cur_qusz + 1
                             /\ iostat'.cur_dev = iostat.cur_dev
           /\ BttSleep(e) \/ BttInsert(e) \/ BttPlug(e) \/ BttLetGo(e)
                 => n_act_q' = n_act_q /\ na' = na /\ SameDepths(iostat', iostat)
           /\ BttMerge(e)
                 => n_act_q' = LessOne(n_act_q) /\ na' = na /\ SameDepths(iostat', iostat)
           /\ BttIssue(e) => /\ n_act_q' = LessOne(n_act_q) /\ na' = na + 1
                             /\ iostat'.cur_qusz = iostat.cur_qusz
                             /\ iostat'.cur_dev = iostat.cur_dev + 1
           /\ BttRequeue(e)
                 => n_act_q' = n_act_q + 1 /\ na' = na /\ SameDepths(iostat', iostat)
<1>0. e.time \in Nat /\ e.len \in Nat
    BY DEF Events
<1>1. PICK io : io = Checked(iostat, e.time)
    OBVIOUS
<1>2. IoOK(io) /\ SameDepths(io, iostat)
    BY <1>0, <1>1, CheckedOK
<1>3. SameDepths(iostat, iostat)
    BY DEF SameDepths
<1>4. BttGetrq(e) => /\ iostat'.cur_qusz = iostat.cur_qusz + 1
                     /\ iostat'.cur_dev = iostat.cur_dev
  <2>1. BttGetrq(e) => iostat' = IostatGetrq(io, e)
    BY <1>1 DEF BttGetrq
  <2> QED BY <1>0, <1>2, <2>1, GetrqOK DEF SameDepths
<1>5. BttMerge(e) => SameDepths(iostat', iostat)
  <2>1. BttMerge(e) => iostat' = IostatMerge(io)
    BY <1>1 DEF BttMerge
  <2> QED BY <1>2, <2>1, IoMergeOK DEF SameDepths
<1>6. BttIssue(e) => /\ iostat'.cur_qusz = iostat.cur_qusz
                     /\ iostat'.cur_dev = iostat.cur_dev + 1
  <2>1. BttIssue(e) => iostat' = IostatIssue(io, e)
    BY <1>1 DEF BttIssue
  <2> QED BY <1>0, <1>2, <2>1, IssueOK DEF SameDepths
<1>7. BttQueue(e) \/ BttSleep(e) \/ BttInsert(e) \/ BttRequeue(e) \/ BttPlug(e)
           \/ BttLetGo(e) => SameDepths(iostat', iostat)
  <2>1. BttQueue(e) \/ BttSleep(e) \/ BttInsert(e) \/ BttRequeue(e) \/ BttPlug(e)
           \/ BttLetGo(e) => iostat' = io \/ iostat' = iostat
    BY <1>1 DEF BttQueue, BttSleep, BttInsert, BttRequeue, BttPlug, BttLetGo
  <2> QED BY <1>2, <1>3, <2>1
<1>8. BttQueue(e) /\ (\A q \in qs : q.sector # e.sector)
         => n_act_q' = n_act_q + 1 /\ na' = na
    BY DEF BttQueue
<1>9. BttGetrq(e) => n_act_q' = n_act_q /\ na' = na
    BY DEF BttGetrq
<1>10. BttSleep(e) \/ BttInsert(e) \/ BttPlug(e) \/ BttLetGo(e)
         => n_act_q' = n_act_q /\ na' = na
    BY DEF BttSleep, BttInsert, BttPlug, BttLetGo
<1>11. BttMerge(e) => n_act_q' = LessOne(n_act_q) /\ na' = na
    BY DEF BttMerge
<1>12. BttIssue(e) => n_act_q' = LessOne(n_act_q) /\ na' = na + 1
    BY DEF BttIssue
<1>13. BttRequeue(e) => n_act_q' = n_act_q + 1 /\ na' = na
    BY DEF BttRequeue
<1> QED BY <1>4, <1>5, <1>6, <1>7, <1>8, <1>9, <1>10, <1>11, <1>12, <1>13

\* handle_complete: one less for aqd.c, each bio's for iostat.c.
LEMMA CompleteDepths ==
    ASSUME BlockInv, BlockNext, KnownInv, KnowsAll, IoOK(iostat), ~overlapped,
           AddTrace(event'), NEW r \in requests, r.kind = "fs", Complete(r)
    PROVE  /\ n_act_q' = n_act_q /\ na' = LessOne(na)
           /\ iostat'.cur_qusz = iostat.cur_qusz - Cardinality(r.bios)
           /\ iostat'.cur_dev = iostat.cur_dev - Cardinality(r.bios)
<1>1. PICK all : all = {q \in qs : \E b \in r.bios : q.q = b.q}
    OBVIOUS
<1>2. BttComplete(event') /\ FoundWithin(event') = {all} /\ \A q \in all : q.d # Never
    BY <1>1, CompleteFound
<1>3. PICK io : io = Checked(iostat, event'.time)
    OBVIOUS
<1>4. event' \in Events /\ event'.time \in Nat
    BY EventTimes DEF Events
<1>5. IoOK(io) /\ SameDepths(io, iostat)
    BY <1>3, <1>4, CheckedOK
<1>6. iostat' = IostatComplete(io, event', all)
  <2>1. PICK found \in FoundWithin(event') :
           iostat' = IostatComplete(io, event', {q \in found : q.d # Never})
    BY <1>2, <1>3 DEF BttComplete
  <2>2. found = all
    BY <1>2
  <2>3. {q \in found : q.d # Never} = all
    BY <1>2, <2>2
  <2> QED BY <2>1, <2>3, Zenon
<1>7. Cardinality(all) = Cardinality(r.bios)
  <2>1. \E m \in [r.bios -> all] :
           /\ \A x, y \in r.bios : m[x] = m[y] => x = y
           /\ \A q \in all : \E b \in r.bios : m[b] = q
    BY <1>1, FoundMap
  <2>2. IsFiniteSet(r.bios)
    BY NewlyDone
  <2> QED BY <2>1, <2>2, SameCard
<1>8. all \subseteq qs
    BY <1>1
<1>9. /\ iostat'.cur_qusz = io.cur_qusz - Cardinality(r.bios)
      /\ iostat'.cur_dev = io.cur_dev - Cardinality(r.bios)
    BY <1>4, <1>5, <1>6, <1>7, <1>8, IoCompleteOK
<1>10. n_act_q' = n_act_q /\ na' = LessOne(na)
    BY <1>2 DEF BttComplete
<1> QED BY <1>5, <1>9, <1>10 DEF SameDepths

\* How many more requests are not on the device, and are on it, after the step.
Moved(notOn, on) ==
    /\ \A w \in Directions :
          Cardinality(requests' \cap OnIt(w))
             = Count(OnIt(w))
                 + (IF event'.w = w /\ event'.act = "D" THEN 1 ELSE 0)
                 - (IF event'.w = w /\ event'.act \in {"R", "C"} THEN 1 ELSE 0)
    /\ Cardinality(requests' \cap FsNotOnIt) = Count(FsNotOnIt) + notOn
    /\ Cardinality(requests' \cap FsOnIt) = Count(FsOnIt) + on
    /\ Cardinality(requests' \cap Fs) = Count(Fs) + notOn + on

LEMMA CountInt ==
    ASSUME BlockInv
    PROVE  /\ \A w : Count(OnIt(w)) \in Nat
           /\ Count(FsNotOnIt) \in Nat /\ Count(FsOnIt) \in Nat /\ Count(Fs) \in Nat
BY CountType

LEMMA MovedSame ==
    ASSUME BlockInv, requests' = requests, event'.act \notin {"D", "R", "C"}
    PROVE  Moved(0, 0)
BY CountInt DEF Moved, Count

LEMMA MovedNew ==
    ASSUME BlockInv, NEW s \in Request, s \notin requests, requests' = requests \cup {s},
           s.state = "got", event'.act = "G"
    PROVE  /\ s.kind = "fs" => Moved(1, 0)
           /\ s.kind = "pc" => Moved(0, 0)
<1>1. \A class : Cardinality(requests' \cap class) = Count(class) + One(s, class)
    BY CountAdded
<1>2. \A w : One(s, OnIt(w)) = 0
    BY DEF One, OnIt
<1>3. /\ s.kind = "fs" => One(s, FsNotOnIt) = 1 /\ One(s, FsOnIt) = 0 /\ One(s, Fs) = 1
      /\ s.kind = "pc" => One(s, FsNotOnIt) = 0 /\ One(s, FsOnIt) = 0 /\ One(s, Fs) = 0
    BY DEF One, FsNotOnIt, FsOnIt, Fs
<1> QED BY <1>1, <1>2, <1>3, CountInt DEF Moved

LEMMA MovedReplaced ==
    ASSUME BlockInv, NEW r \in requests, NEW s \in Request, s.id = r.id, Replace(r, s),
           s.kind = r.kind, s.w = r.w,
           \/ event'.act \notin {"D", "R", "C"} /\ r.state # "issued" /\ s.state # "issued"
           \/ event'.act = "D" /\ r.state # "issued" /\ s.state = "issued" /\ event'.w = r.w
           \/ event'.act = "R" /\ r.state = "issued" /\ s.state # "issued" /\ event'.w = r.w
    PROVE  LET its == IF r.kind # "fs" \/ r.state = s.state THEN 0 ELSE 1
           IN  /\ event'.act \notin {"D", "R"} => Moved(0, 0)
               /\ event'.act = "D" /\ r.kind = "fs" => Moved(-1, 1) /\ Count(FsNotOnIt) >= 1
               /\ event'.act = "R" /\ r.kind = "fs" => Moved(1, -1) /\ Count(FsOnIt) >= 1
               /\ event'.act \in {"D", "R"} /\ r.kind = "pc" => Moved(0, 0)
               /\ event'.act = "R" => Count(OnIt(r.w)) >= 1
<1>0. r \in Request /\ r.kind \in {"fs", "pc"}
    BY DEF BlockInv, BlockTypes, Request
<1>1. \A class : /\ Cardinality(requests' \cap class)
                       = Count(class) - One(r, class) + One(s, class)
                 /\ Count(class) >= One(r, class)
    BY CountReplaced
<1>2. \A w : /\ One(r, OnIt(w)) = IF r.state = "issued" /\ r.w = w THEN 1 ELSE 0
             /\ One(s, OnIt(w)) = IF s.state = "issued" /\ r.w = w THEN 1 ELSE 0
    BY <1>0 DEF One, OnIt
<1>3. /\ One(r, FsNotOnIt) = IF r.kind = "fs" /\ r.state # "issued" THEN 1 ELSE 0
      /\ One(s, FsNotOnIt) = IF r.kind = "fs" /\ s.state # "issued" THEN 1 ELSE 0
      /\ One(r, FsOnIt) = IF r.kind = "fs" /\ r.state = "issued" THEN 1 ELSE 0
      /\ One(s, FsOnIt) = IF r.kind = "fs" /\ s.state = "issued" THEN 1 ELSE 0
      /\ One(r, Fs) = One(s, Fs) /\ One(r, Fs) \in {0, 1}
    BY <1>0 DEF One, FsNotOnIt, FsOnIt, Fs
<1>4. \A w \in Directions :
          Cardinality(requests' \cap OnIt(w))
             = Count(OnIt(w))
                 + (IF event'.w = w /\ event'.act = "D" THEN 1 ELSE 0)
                 - (IF event'.w = w /\ event'.act \in {"R", "C"} THEN 1 ELSE 0)
    BY <1>1, <1>2, CountInt
<1>5. Cardinality(requests' \cap Fs) = Count(Fs)
    BY <1>1, <1>3, CountInt
<1>6. /\ Cardinality(requests' \cap FsNotOnIt)
            = Count(FsNotOnIt) - One(r, FsNotOnIt) + One(s, FsNotOnIt)
      /\ Cardinality(requests' \cap FsOnIt)
            = Count(FsOnIt) - One(r, FsOnIt) + One(s, FsOnIt)
      /\ Count(FsNotOnIt) >= One(r, FsNotOnIt) /\ Count(FsOnIt) >= One(r, FsOnIt)
      /\ Count(OnIt(r.w)) >= One(r, OnIt(r.w))
    BY <1>1
<1> QED BY <1>0, <1>2, <1>3, <1>4, <1>5, <1>6, CountInt DEF Moved

LEMMA MovedDropped ==
    ASSUME BlockInv, NEW r \in requests, requests' = requests \ {r}, r.state = "issued",
           event'.act = "C", event'.w = r.w
    PROVE  /\ r.kind = "fs" => Moved(0, -1) /\ Count(FsOnIt) >= 1
           /\ r.kind = "pc" => Moved(0, 0)
           /\ Count(OnIt(r.w)) >= 1
<1>0. r \in Request /\ r.kind \in {"fs", "pc"}
    BY DEF BlockInv, BlockTypes, Request
<1>1. \A class : /\ Cardinality(requests' \cap class) = Count(class) - One(r, class)
                 /\ Count(class) >= One(r, class)
    BY CountDropped
<1>2. \A w : One(r, OnIt(w)) = IF r.w = w THEN 1 ELSE 0
    BY <1>0 DEF One, OnIt
<1>3. /\ One(r, FsNotOnIt) = 0
      /\ One(r, FsOnIt) = IF r.kind = "fs" THEN 1 ELSE 0
      /\ One(r, Fs) = IF r.kind = "fs" THEN 1 ELSE 0
    BY <1>0 DEF One, FsNotOnIt, FsOnIt, Fs
<1>4. \A w \in Directions :
          Cardinality(requests' \cap OnIt(w))
             = Count(OnIt(w))
                 + (IF event'.w = w /\ event'.act = "D" THEN 1 ELSE 0)
                 - (IF event'.w = w /\ event'.act \in {"R", "C"} THEN 1 ELSE 0)
    BY <1>1, <1>2, CountInt
<1>5. /\ Cardinality(requests' \cap Fs) = Count(Fs) - One(r, Fs)
      /\ Cardinality(requests' \cap FsNotOnIt) = Count(FsNotOnIt) - One(r, FsNotOnIt)
      /\ Cardinality(requests' \cap FsOnIt) = Count(FsOnIt) - One(r, FsOnIt)
      /\ Count(FsOnIt) >= One(r, FsOnIt) /\ Count(OnIt(r.w)) >= One(r, OnIt(r.w))
    BY <1>1
<1> QED BY <1>0, <1>2, <1>3, <1>4, <1>5, CountInt DEF Moved

LEMMA DirStep ==
    ASSUME BlockInv, BlockInv', BookInv, DirDepths, event' \in Events, event'.act # "none",
           DumpTrace(event'), NEW notOn, NEW on, Moved(notOn, on)
    PROVE  /\ DirDepths'
           /\ \A w \in Directions :
                 Requeued(w)' = Requeued(w) + (IF event'.w = w /\ event'.kind = "fs"
                                                  /\ event'.act = "R" THEN 1 ELSE 0)
<1>1. event'.w \in Directions /\ \A w \in Directions : Count(OnIt(w)) \in Nat
    BY CountInt DEF Events, Directions
<1>2. /\ event'.act = "D" => Deeper(event'.w)
      /\ event'.act \in {"R", "C"} => Shallower(event'.w)
      /\ event'.act \notin {"D", "R", "C"} => UNCHANGED <<cur_depth, max_depth>>
    BY DepthMoves
<1>3. Counts(event')
    BY BookStep
<1>4. \A w \in Directions :
         Requeued(w)' = Requeued(w) + (IF event'.w = w /\ event'.kind = "fs"
                                          /\ event'.act = "R" THEN 1 ELSE 0)
    BY <1>3 DEF Counts, Requeued
<1>5. \A w \in Directions :
         cur_depth'[w] = Cardinality(requests' \cap OnIt(w)) /\ cur_depth'[w] <= max_depth'[w]
  <2>0. SUFFICES ASSUME NEW w \in Directions
                 PROVE  /\ cur_depth'[w] = Cardinality(requests' \cap OnIt(w))
                        /\ cur_depth'[w] <= max_depth'[w]
    OBVIOUS
  <2>1. /\ cur_depth[w] = Count(OnIt(w)) /\ cur_depth[w] <= max_depth[w]
        /\ cur_depth[w] \in Nat /\ max_depth[w] \in Nat
    BY DEF DirDepths, BookInv
  <2>2. Cardinality(requests' \cap OnIt(w))
             = Count(OnIt(w))
                 + (IF event'.w = w /\ event'.act = "D" THEN 1 ELSE 0)
                 - (IF event'.w = w /\ event'.act \in {"R", "C"} THEN 1 ELSE 0)
    BY DEF Moved
  <2>4. Cardinality(requests' \cap OnIt(w)) \in Int
    BY <1>1, <2>2
  <2>5. CASE event'.act = "D"
    <3>1. /\ cur_depth'[event'.w] = cur_depth[event'.w] + 1
          /\ max_depth'[event'.w] >= cur_depth'[event'.w]
          /\ cur_depth' \in [Directions -> Nat] /\ max_depth' \in [Directions -> Nat]
          /\ \A x \in Directions : x # event'.w => cur_depth'[x] = cur_depth[x]
                                                   /\ max_depth'[x] = max_depth[x]
      BY <1>1, <1>2, <2>5, DeeperIs
    <3> QED BY <1>1, <2>1, <2>2, <2>5, <3>1
  <2>6. CASE event'.act \in {"R", "C"}
    <3>1. /\ max_depth' = max_depth
          /\ cur_depth'[event'.w] = (IF cur_depth[event'.w] > 0 THEN cur_depth[event'.w] - 1 ELSE 0)
          /\ \A x \in Directions : x # event'.w => cur_depth'[x] = cur_depth[x]
      BY <1>1, <1>2, <2>6, ShallowerIs
    <3>2. Cardinality(requests' \cap OnIt(w)) \in Nat
      <4>1. IsFiniteSet(requests' \cap OnIt(w))
        BY FS_Subset DEF OnIt, BlockInv, BlockTypes
      <4> QED BY <4>1, FS_CardinalityType
    <3> QED BY <1>1, <2>1, <2>2, <2>6, <3>1, <3>2
  <2>7. CASE event'.act \notin {"D", "R", "C"}
    BY <1>1, <1>2, <2>1, <2>2, <2>7
  <2> QED BY <2>5, <2>6, <2>7
<1>6. \A w \in Directions : Requeued(w)' \in Nat
    BY <1>4 DEF DirDepths
<1> QED BY <1>4, <1>5, <1>6 DEF DirDepths, Count

LEMMA MergedSame ==
    completed' = completed => Merged' = Merged
BY DEF Merged, DoneRequests

LEMMA MergedInt ==
    ASSUME BlockInv
    PROVE  Merged \in Int /\ Cardinality(waiting) \in Nat
<1>1. IsFiniteSet(completed) /\ IsFiniteSet(waiting)
    BY DEF BlockInv, BlockTypes
<1>2. IsFiniteSet(DoneRequests)
  <2> DEFINE f == [b \in completed |-> b.request]
  <2>1. f \in [completed -> Nat]
    BY DEF BlockInv, BlockTypes, Done
  <2>2. IsFiniteSet({f[b] : b \in completed})
    BY <1>1, <2>1, FiniteImage
  <2>3. {f[b] : b \in completed} = DoneRequests
    BY DEF DoneRequests
  <2> QED BY <2>2, <2>3
<1> QED BY <1>1, <1>2, FS_CardinalityType DEF Merged

\* What each side of a step does to the depths.
MovesTo(notOn, on, waits, joined) ==
    /\ notOn \in Int /\ on \in Int /\ waits \in Int /\ joined \in Int
    /\ Moved(notOn, on)
    /\ Cardinality(waiting') = Cardinality(waiting) + waits
    /\ Merged' = Merged + joined
    /\ n_act_q' = n_act_q + waits + notOn
    /\ na' = na + on + (IF event'.act = "R" /\ event'.kind = "fs" THEN 1 ELSE 0)
    /\ iostat'.cur_qusz = iostat.cur_qusz + notOn + on - joined
    /\ iostat'.cur_dev = iostat.cur_dev + (na' - na) - joined

\* The depths move as requests move between the classes counted.
LEMMA DepthsMove ==
    ASSUME BlockInv, BlockInv', BookInv, DepthInv, event' \in Events, event'.act # "none",
           DumpTrace(event'), IoOK(iostat), NEW notOn, NEW on, NEW waits, NEW joined,
           MovesTo(notOn, on, waits, joined)
    PROVE  DepthInv'
<1> USE DEF MovesTo
<1>1. /\ Count(FsNotOnIt) \in Nat /\ Count(FsOnIt) \in Nat /\ Count(Fs) \in Nat
      /\ Merged \in Int /\ Cardinality(waiting) \in Nat
    BY CountInt, MergedInt
<1>2. /\ DirDepths'
      /\ \A w \in Directions :
            Requeued(w)' = Requeued(w) + (IF event'.w = w /\ event'.kind = "fs"
                                             /\ event'.act = "R" THEN 1 ELSE 0)
    BY DirStep DEF DepthInv
<1>3. Requeued(0) \in Nat /\ Requeued(1) \in Nat /\ event'.w \in {0, 1}
    BY DEF DepthInv, DirDepths, Directions, Events
<1>4. (Requeued(0)' + Requeued(1)')
         = Requeued(0) + Requeued(1)
             + (IF event'.act = "R" /\ event'.kind = "fs" THEN 1 ELSE 0)
    BY <1>2, <1>3 DEF Directions
<1>5. /\ Cardinality(requests' \cap FsNotOnIt) = Count(FsNotOnIt) + notOn
      /\ Cardinality(requests' \cap FsOnIt) = Count(FsOnIt) + on
      /\ Cardinality(requests' \cap Fs) = Count(Fs) + notOn + on
    BY DEF Moved
<1>6. /\ n_act_q = Cardinality(waiting) + Count(FsNotOnIt)
      /\ na = Count(FsOnIt) + Requeued(0) + Requeued(1)
      /\ iostat.cur_qusz = Count(Fs) - Merged
      /\ iostat.cur_dev = na - Merged
    BY DEF DepthInv, QueueDepths, IoDepths
<1>a. na \in Int /\ n_act_q \in Int
    BY <1>1, <1>3, <1>6
<1>7. n_act_q' = Cardinality(waiting') + Cardinality(requests' \cap FsNotOnIt)
    BY <1>1, <1>5, <1>6
<1>b. Requeued(0)' \in Int /\ Requeued(1)' \in Int
    BY <1>2 DEF DirDepths, Directions
<1>8. na' = Cardinality(requests' \cap FsOnIt) + Requeued(0)' + Requeued(1)'
  <2>1. PICK i \in Int : i = IF event'.act = "R" /\ event'.kind = "fs" THEN 1 ELSE 0
    OBVIOUS
  <2>2. na' = na + on + i
    BY <2>1
  <2>3. (Requeued(0)' + Requeued(1)') = Requeued(0) + Requeued(1) + i
    BY <1>4, <2>1
  <2>4. PICK n \in Int : n = Cardinality(requests' \cap FsOnIt)
    BY <1>1, <1>5
  <2>5. n = Count(FsOnIt) + on
    BY <1>5, <2>4
  <2>6. PICK u \in Int, v \in Int : u = Requeued(0)' /\ v = Requeued(1)'
    BY <1>b
  <2>7. u + v = Requeued(0) + Requeued(1) + i
    BY <2>3, <2>6
  <2>8. na = Count(FsOnIt) + Requeued(0) + Requeued(1)
    BY <1>6
  <2>9. na' = n + u + v
    BY <1>1, <1>3, <2>2, <2>5, <2>7, <2>8
  <2> QED BY <2>4, <2>6, <2>9
<1>9. iostat'.cur_qusz = Cardinality(requests' \cap Fs) - Merged'
    BY <1>1, <1>5, <1>6
<1>10. iostat'.cur_dev = na' - Merged'
    BY <1>1, <1>3, <1>6, <1>a
<1> QED BY <1>2, <1>7, <1>8, <1>9, <1>10 DEF DepthInv, QueueDepths, IoDepths, Count

\* The depths are numbers, and those of the queue and the device are not below what
\* they count.
LEMMA DepthTypes ==
    ASSUME BlockInv, IoOK(iostat), DepthInv
    PROVE  /\ n_act_q \in Nat /\ na \in Nat /\ iostat.cur_qusz \in Int /\ iostat.cur_dev \in Int
           /\ n_act_q >= Cardinality(waiting) /\ n_act_q >= Count(FsNotOnIt)
           /\ na >= Count(FsOnIt)
<1>1. /\ Count(FsNotOnIt) \in Nat /\ Count(FsOnIt) \in Nat
      /\ Merged \in Int /\ Cardinality(waiting) \in Nat
    BY CountInt, MergedInt
<1>2. Requeued(0) \in Nat /\ Requeued(1) \in Nat
    BY DEF DepthInv, DirDepths, Directions
<1>3. iostat.cur_qusz \in Int /\ iostat.cur_dev \in Int
    BY DEF IoOK, IoStat
<1> QED BY <1>1, <1>2, <1>3 DEF DepthInv, QueueDepths

\* The depths are right after every event that is read.
LEMMA DepthStep ==
    ASSUME BlockInv, BlockNext, KnownInv, KnowsAll, BookInv, IoOK(iostat), ~overlapped',
           DumpTrace(event'), AddTrace(event'), DepthInv
    PROVE  DepthInv'
<1>a. /\ BlockInv' /\ event' \in Events /\ event'.act # "none" /\ ~overlapped
      /\ event'.time = now + 1
    BY BlockInvStep, EventTimes, OverlapKept
<1>b. /\ n_act_q \in Nat /\ na \in Nat /\ iostat.cur_qusz \in Int /\ iostat.cur_dev \in Int
      /\ n_act_q >= Cardinality(waiting) /\ n_act_q >= Count(FsNotOnIt)
      /\ na >= Count(FsOnIt)
    BY DepthTypes
<1>c. Merged \in Int /\ Cardinality(waiting) \in Nat /\ IsFiniteSet(waiting)
    BY MergedInt DEF BlockInv, BlockTypes
<1>d. \A r \in requests : r \in Request /\ r.kind \in {"fs", "pc"}
    BY DEF BlockInv, BlockTypes, Request
<1>e. ASSUME requests' = requests \/ Moved(0, 0), event'.act \notin {"D", "R", "C"}
             \/ Moved(0, 0), event'.act # "R" \/ event'.kind # "fs",
             Cardinality(waiting') = Cardinality(waiting), completed' = completed,
             n_act_q' = n_act_q, na' = na, SameDepths(iostat', iostat)
      PROVE  DepthInv'
  <2>1. Moved(0, 0)
    BY <1>e, MovedSame
  <2>2. Merged' = Merged + 0
    BY <1>c, <1>e, MergedSame
  <2>20. MovesTo(0, 0, 0, 0)
    BY <1>a, <1>b, <1>c, <1>e, <2>1, <2>2 DEF MovesTo, SameDepths
  <2> QED BY <1>a, <2>20, DepthsMove
<1>1. ASSUME workload.bios # <<>>, Queue(Head(workload.bios)), BttQueue(event'),
             \A q \in qs : q.sector # event'.sector
      PROVE  DepthInv'
  <2>1. PICK b \in Bio :
           /\ waiting' = waiting \cup {b} /\ b.q = now + 1 /\ event'.act = "Q"
           /\ requests' = requests /\ completed' = completed
    BY <1>1, QueueIs
  <2>2. b \notin waiting
    BY <2>1, AgesKept, InFlightIs
  <2>3. Cardinality(waiting') = Cardinality(waiting) + 1
    BY <1>c, <2>1, <2>2, CardMore
  <2>4. Moved(0, 0) /\ Merged' = Merged + 0
    BY <1>c, <2>1, MovedSame, MergedSame
  <2>5. n_act_q' = n_act_q + 1 /\ na' = na /\ SameDepths(iostat', iostat)
    BY <1>1, <1>a, BttDepths
  <2>20. MovesTo(0, 0, 1, 0)
    BY <1>a, <1>b, <1>c, <2>1, <2>3, <2>4, <2>5 DEF MovesTo, SameDepths
  <2> QED BY <1>a, <2>20, DepthsMove
<1>2. ASSUME NEW b \in waiting, Sleep(b), BttSleep(event')
      PROVE  DepthInv'
  <2>1. PICK c \in Bio :
           /\ waiting' = (waiting \ {b}) \cup {c} /\ requests' = requests
           /\ completed' = completed /\ event'.act = "S" /\ c.q = b.q
    BY <1>2, SleepIs
  <2>2. c \notin waiting \ {b}
    BY <2>1, InFlightIs DEF BlockInv, Separate
  <2>3. /\ IsFiniteSet(waiting \ {b})
        /\ Cardinality(waiting \ {b}) = Cardinality(waiting) - 1
    BY <1>c, FS_RemoveElement
  <2>4. Cardinality(waiting') = Cardinality(waiting)
    BY <1>c, <2>1, <2>2, <2>3, CardMore
  <2>5. n_act_q' = n_act_q /\ na' = na /\ SameDepths(iostat', iostat)
    BY <1>2, <1>a, BttDepths
  <2> QED BY <1>e, <2>1, <2>4, <2>5
<1>3. ASSUME NEW b \in waiting, GetRequest(b), BttGetrq(event')
      PROVE  DepthInv'
  <2>1. PICK s : s = [id |-> now + 1, kind |-> "fs", start |-> b.start, len |-> b.len,
            w |-> b.w, pid |-> b.pid, state |-> "got", bios |-> {b},
            g |-> now + 1, i |-> 0, d |-> 0]
    OBVIOUS
  <2>2. /\ requests' = requests \cup {s} /\ waiting' = waiting \ {b}
        /\ completed' = completed /\ event'.act = "G"
    BY <1>3, <2>1 DEF GetRequest, RecordBio, Event
  <2>3. s.id = now + 1 /\ s.kind = "fs" /\ s.state = "got"
    BY <2>1
  <2>4. s \notin requests
    BY <2>3, AgesKept
  <2>5. s \in Request
    BY <1>a, <2>2 DEF BlockInv, BlockTypes
  <2>6. Moved(1, 0) /\ Merged' = Merged + 0
    BY <1>c, <2>2, <2>3, <2>4, <2>5, MovedNew, MergedSame
  <2>7. Cardinality(waiting') = Cardinality(waiting) + (-1)
    BY <1>c, <2>2, CardLess
  <2>8. /\ n_act_q' = n_act_q /\ na' = na /\ iostat'.cur_qusz = iostat.cur_qusz + 1
        /\ iostat'.cur_dev = iostat.cur_dev
    BY <1>3, <1>a, BttDepths
  <2>20. MovesTo(1, 0, -1, 0)
    BY <1>a, <1>b, <1>c, <2>2, <2>6, <2>7, <2>8 DEF MovesTo
  <2> QED BY <1>a, <2>20, DepthsMove
<1>4. ASSUME NEW b \in waiting, NEW r \in requests, Merge(b, r), BttMerge(event')
      PROVE  DepthInv'
  <2>1. PICK s \in Request :
              /\ Replace(r, s) /\ waiting' = waiting \ {b} /\ Grown(b, r, s)
              /\ r.kind = "fs" /\ r.state # "issued"
              /\ event'.act \in {"M", "F"} /\ completed' = completed
    BY <1>4, MergeIs
  <2>2. s.id = r.id /\ s.kind = r.kind /\ s.w = r.w /\ s.state = r.state
    BY <2>1 DEF Grown
  <2>3. Moved(0, 0) /\ Merged' = Merged + 0
    BY <1>c, <2>1, <2>2, MovedReplaced, MergedSame
  <2>4. Cardinality(waiting') = Cardinality(waiting) + (-1) /\ Cardinality(waiting) >= 1
    BY <1>c, <2>1, CardLess
  <2>5. n_act_q' = LessOne(n_act_q) /\ na' = na /\ SameDepths(iostat', iostat)
    BY <1>4, <1>a, BttDepths
  <2>6. n_act_q' = n_act_q - 1
    BY <1>b, <1>c, <2>4, <2>5 DEF LessOne
  <2>20. MovesTo(0, 0, -1, 0)
    BY <1>a, <1>b, <1>c, <2>1, <2>3, <2>4, <2>5, <2>6 DEF MovesTo, SameDepths
  <2> QED BY <1>a, <2>20, DepthsMove
<1>5. ASSUME NEW p \in Nat \ {0}, GetCommand(p), BttLetGo(event')
      PROVE  DepthInv'
  <2>1. PICK s : s = [id |-> now + 1, kind |-> "pc", start |-> 0, len |-> 1, w |-> 0,
            pid |-> p, state |-> "got", bios |-> {}, g |-> now + 1, i |-> 0,
            d |-> 0]
    OBVIOUS
  <2>2. /\ requests' = requests \cup {s} /\ waiting' = waiting
        /\ completed' = completed /\ event'.act = "G"
    BY <1>5, <2>1 DEF GetCommand, Event
  <2>3. s.id = now + 1 /\ s.kind = "pc" /\ s.state = "got"
    BY <2>1
  <2>4. s \notin requests
    BY <2>3, AgesKept
  <2>5. s \in Request
    BY <1>a, <2>2 DEF BlockInv, BlockTypes
  <2>6. Moved(0, 0)
    BY <2>2, <2>3, <2>4, <2>5, MovedNew
  <2>8. n_act_q' = n_act_q /\ na' = na /\ SameDepths(iostat', iostat)
    BY <1>5, <1>a, BttDepths
  <2> QED BY <1>e, <2>2, <2>6, <2>8
<1>6. ASSUME NEW r \in requests, Insert(r) \/ Issue(r) \/ Requeue(r)
      PROVE  \E s \in Request :
                /\ Replace(r, s) /\ s.id = r.id /\ s.kind = r.kind /\ s.w = r.w
                /\ completed' = completed /\ waiting' = waiting
                /\ Insert(r) => /\ event'.act = "I" /\ r.state # "issued"
                                /\ s.state # "issued"
                /\ Issue(r) => /\ event'.act = "D" /\ r.state # "issued"
                               /\ s.state = "issued"
                /\ Requeue(r) => /\ event'.act = "R" /\ r.state = "issued"
                                 /\ s.state # "issued"
                /\ event'.kind = r.kind /\ event'.w = r.w
  <2>1. PICK s \in Request :
              /\ Replace(r, s) /\ SameRequest(r, s)
              /\ Insert(r) => AfterInsert(r, s)
              /\ Issue(r) => AfterIssue(r, s)
              /\ Requeue(r) => AfterRequeue(r, s)
              /\ UNCHANGED <<waiting, plugged, overlapped, completed, commands>>
    BY <1>6, StateStepIs
  <2> QED BY <1>6, <2>1, RequestEvents DEF SameRequest, AfterInsert, AfterIssue, AfterRequeue
<1>7. ASSUME NEW r \in requests, r.kind = "fs", Insert(r), BttInsert(event')
      PROVE  DepthInv'
  <2>1. Moved(0, 0) /\ completed' = completed /\ waiting' = waiting /\ event'.act = "I"
    BY <1>6, <1>7, MovedReplaced
  <2>2. n_act_q' = n_act_q /\ na' = na /\ SameDepths(iostat', iostat)
    BY <1>7, <1>a, BttDepths
  <2> QED BY <1>e, <2>1, <2>2
<1>8. ASSUME NEW r \in requests, r.kind = "fs", Issue(r), BttIssue(event')
      PROVE  DepthInv'
  <2>1. /\ Moved(-1, 1) /\ Count(FsNotOnIt) >= 1
        /\ completed' = completed /\ waiting' = waiting /\ event'.act = "D"
    BY <1>6, <1>8, MovedReplaced
  <2>2. /\ n_act_q' = LessOne(n_act_q) /\ na' = na + 1
        /\ iostat'.cur_qusz = iostat.cur_qusz /\ iostat'.cur_dev = iostat.cur_dev + 1
    BY <1>8, <1>a, BttDepths
  <2>3. n_act_q' = n_act_q - 1
    BY <1>b, <2>1, <2>2, CountInt DEF LessOne
  <2>4. Merged' = Merged + 0 /\ Cardinality(waiting') = Cardinality(waiting) + 0
    BY <1>c, <2>1, MergedSame
  <2>20. MovesTo(-1, 1, 0, 0)
    BY <1>a, <1>b, <1>c, <2>1, <2>2, <2>3, <2>4 DEF MovesTo
  <2> QED BY <1>a, <2>20, DepthsMove
<1>9. ASSUME NEW r \in requests, r.kind = "fs", Requeue(r), BttRequeue(event')
      PROVE  DepthInv'
  <2>1. /\ Moved(1, -1) /\ event'.kind = "fs"
        /\ completed' = completed /\ waiting' = waiting /\ event'.act = "R"
    BY <1>6, <1>9, MovedReplaced
  <2>2. n_act_q' = n_act_q + 1 /\ na' = na /\ SameDepths(iostat', iostat)
    BY <1>9, <1>a, BttDepths
  <2>4. Merged' = Merged + 0 /\ Cardinality(waiting') = Cardinality(waiting) + 0
    BY <1>c, <2>1, MergedSame
  <2>20. MovesTo(1, -1, 0, 0)
    BY <1>a, <1>b, <1>c, <2>1, <2>2, <2>4 DEF MovesTo, SameDepths
  <2> QED BY <1>a, <2>20, DepthsMove
<1>10. ASSUME NEW r \in requests, r.kind = "fs", Complete(r)
       PROVE  DepthInv'
  <2>1. /\ requests' = requests \ {r} /\ r.state = "issued" /\ waiting' = waiting
        /\ event'.act = "C" /\ event'.kind = "fs" /\ event'.w = r.w
    BY <1>10, CompleteIs
  <2>2. Moved(0, -1) /\ Count(FsOnIt) >= 1
    BY <1>10, <2>1, MovedDropped
  <2>3. r.bios # {}
    BY <1>10 DEF BlockInv, RequestOK
  <2>4. /\ Merged' = Merged + Cardinality(r.bios) - 1
        /\ Cardinality(r.bios) \in Nat \ {0}
    BY <1>a, <1>10, <2>3, MergedStep
  <2>5. /\ n_act_q' = n_act_q /\ na' = LessOne(na)
        /\ iostat'.cur_qusz = iostat.cur_qusz - Cardinality(r.bios)
        /\ iostat'.cur_dev = iostat.cur_dev - Cardinality(r.bios)
    BY <1>10, <1>a, CompleteDepths
  <2>6. na' = na - 1
    BY <1>b, <2>2, <2>5, CountInt DEF LessOne
  <2>7. PICK joined \in Int : joined = Cardinality(r.bios) - 1
    BY <2>4
  <2>8. /\ Merged' = Merged + joined /\ Cardinality(waiting') = Cardinality(waiting) + 0
        /\ iostat'.cur_qusz = iostat.cur_qusz + 0 + (-1) - joined
        /\ iostat'.cur_dev = iostat.cur_dev + (na' - na) - joined
        /\ n_act_q' = n_act_q + 0 + 0
    BY <1>b, <1>c, <2>1, <2>4, <2>5, <2>6, <2>7
  <2>20. MovesTo(0, -1, 0, joined)
    BY <1>a, <1>b, <1>c, <2>1, <2>2, <2>6, <2>8 DEF MovesTo
  <2> QED BY <1>a, <2>20, DepthsMove
<1>11. ASSUME NEW r \in requests, r.kind = "pc", Serve(r), BttLetGo(event')
       PROVE  DepthInv'
  <2>1. n_act_q' = n_act_q /\ na' = na /\ SameDepths(iostat', iostat)
    BY <1>11, <1>a, BttDepths
  <2>2. CASE Insert(r) \/ Issue(r) \/ Requeue(r)
    <3>1. /\ Moved(0, 0) /\ completed' = completed /\ waiting' = waiting
          /\ event'.kind # "fs"
      BY <1>6, <1>11, <2>2, MovedReplaced
    <3> QED BY <1>e, <2>1, <3>1
  <2>3. CASE Complete(r)
    <3>1. /\ requests' = requests \ {r} /\ r.state = "issued" /\ waiting' = waiting
          /\ event'.act = "C" /\ event'.kind = "pc" /\ event'.w = r.w
          /\ completed' = completed \cup {DoneOf(r, b, now + 1) : b \in r.bios}
      BY <1>11, <2>3, CompleteIs
    <3>2. r.bios = {}
      BY <1>11 DEF BlockInv, RequestOK
    <3>3. completed' = completed
      BY <3>1, <3>2
    <3>4. Moved(0, 0)
      BY <1>11, <3>1, MovedDropped
    <3> QED BY <1>e, <2>1, <3>1, <3>3, <3>4
  <2> QED BY <1>11, <2>2, <2>3 DEF Serve
<1>12. ASSUME PlugOrUnplug, BttPlug(event')
       PROVE  DepthInv'
  <2>1. n_act_q' = n_act_q /\ na' = na /\ SameDepths(iostat', iostat)
    BY <1>12, <1>a, BttDepths
  <2>2. /\ requests' = requests /\ waiting' = waiting /\ completed' = completed
        /\ event'.act \in {"P", "U", "UT"}
    BY <1>12, PlugIs DEF PlugOrUnplug
  <2> QED BY <1>e, <2>1, <2>2
<1> QED BY <1>1, <1>2, <1>3, <1>4, <1>5, <1>7, <1>8, <1>9, <1>10, <1>11, <1>12, PlainCases

-----------------------------------------------------------------------------
(* The tracks.                                                             *)

\* A track for each request of bios, but for sector 0.
TracksFor ==
    /\ \A t \in tracks : t.sector # 0 =>
          \E r \in requests : r.kind = "fs" /\ r.start = t.sector
    /\ \A r \in requests : r.kind = "fs" /\ r.start # 0 =>
          \E t \in tracks : t.sector = r.start

\* Without commands, also for sector 0, and with the owner and the times.
Its(t, r) ==
    /\ t.sector = r.start /\ t.pid = r.pid /\ t.allocation = r.g
    /\ r.state # "got" => t.queue = r.i
    /\ r.state = "issued" => t.dispatch = r.d
TracksTrue ==
    commands = 0 =>
        /\ \A t \in tracks : \E r \in requests : r.kind = "fs" /\ Its(t, r)
        /\ \A r \in requests : r.kind = "fs" => \E t \in tracks : Its(t, r)
TracksAre == TracksFor /\ TracksTrue

\* No request begins within another, nor where a bio that waits does.
LEMMA StartsApart ==
    ASSUME BlockInv, ~overlapped
    PROVE  /\ \A r, s \in requests : r.kind = "fs" /\ s.kind = "fs" /\ r.start = s.start => r = s
           /\ \A r \in requests : \A b \in waiting : r.kind = "fs" => r.start # b.start
<1>0. \A a, b \in InFlight : a # b => ~Overlap(a, b)
    BY DEF BlockInv, BusyOK
<1>1. \A r \in requests : r.start \in Nat /\ r.len \in Nat \ {0} /\ r.bios \subseteq Bio
    BY DEF BlockInv, BlockTypes, Request
<1>2. \A r \in requests : r.kind = "fs" =>
         \E b \in r.bios : b.start <= r.start /\ r.start < b.start + b.len
  <2> TAKE r \in requests
  <2> HAVE r.kind = "fs"
  <2>1. Covers(r)
    BY DEF BlockInv, RequestOK
  <2>2. r.start \in r.start..(r.start + r.len - 1)
    BY <1>1
  <2> QED BY <2>1, <2>2 DEF Covers
<1>3. ASSUME NEW r \in requests, NEW s \in requests, r.kind = "fs", s.kind = "fs",
             r.start = s.start
      PROVE  r = s
  <2>1. PICK a \in r.bios : a.start <= r.start /\ r.start < a.start + a.len
    BY <1>2, <1>3
  <2>2. PICK b \in s.bios : b.start <= s.start /\ s.start < b.start + b.len
    BY <1>2, <1>3
  <2>3. a \in InFlight /\ b \in InFlight /\ a \in Bio /\ b \in Bio
    BY <1>1, InFlightIs
  <2>4. Overlap(a, b)
    BY <1>1, <1>3, <2>1, <2>2, <2>3 DEF Overlap, Bio
  <2>5. a = b
    BY <1>0, <2>3, <2>4
  <2> QED BY <2>5 DEF BlockInv, Separate
<1>4. ASSUME NEW r \in requests, NEW b \in waiting, r.kind = "fs", r.start = b.start
      PROVE  FALSE
  <2>1. PICK a \in r.bios : a.start <= r.start /\ r.start < a.start + a.len
    BY <1>2, <1>4
  <2>3. a \in InFlight /\ b \in InFlight /\ a \in Bio /\ b \in Bio
    BY <1>1, InFlightIs DEF BlockInv, BlockTypes
  <2>4. Overlap(a, b)
    BY <1>4, <2>1, <2>3 DEF Overlap, Bio
  <2>5. a = b
    BY <1>0, <2>3, <2>4
  <2> QED BY <2>5 DEF BlockInv, Separate
<1> QED BY <1>3, <1>4

\* A request goes on as another that begins at the same sector, and its track is
\* put down anew or stays.
LEMMA TrackSet ==
    ASSUME BlockInv, ~overlapped, TracksOK, TracksAre, NEW r \in requests, NEW s,
           r.kind = "fs", s.kind = "fs", s.start = r.start, Replace(r, s),
           NEW t \in Track, Set(t), t.sector = r.start, commands' = commands,
           commands = 0 => Its(t, s)
    PROVE  TracksAre'
<1>1. \A u : u \in tracks' <=> u = t \/ (u \in tracks /\ u.sector # t.sector)
    BY SetIs
<1>2. \A x : x \in requests' <=> x = s \/ (x \in requests /\ x # r)
    BY DEF Replace
<1>3. \A x \in requests : x.kind = "fs" /\ x # r => x.start # r.start
    BY StartsApart
<1>4. TracksFor'
    BY <1>1, <1>2, <1>3 DEF TracksAre, TracksFor
<1>5. TracksTrue'
  <2> SUFFICES ASSUME commands = 0
               PROVE  /\ \A u \in tracks' : \E x \in requests' : x.kind = "fs" /\ Its(u, x)
                      /\ \A x \in requests' : x.kind = "fs" => \E u \in tracks' : Its(u, x)
    BY DEF TracksTrue, Its
  <2>1. /\ \A u \in tracks : \E x \in requests : x.kind = "fs" /\ Its(u, x)
        /\ \A x \in requests : x.kind = "fs" => \E u \in tracks : Its(u, x)
    BY DEF TracksAre, TracksTrue
  <2>2. \A u, x : Its(u, x) => u.sector = x.start
    BY DEF Its
  <2> QED BY <1>1, <1>2, <1>3, <2>1, <2>2
<1> QED BY <1>4, <1>5 DEF TracksAre

LEMMA TrackStays ==
    ASSUME TracksAre, NEW r \in requests, NEW s, s.kind = r.kind, s.start = r.start,
           Replace(r, s), tracks' = tracks, commands' = commands,
           \A t : Its(t, r) => Its(t, s)
    PROVE  TracksAre'
<1>2. \A x : x \in requests' <=> x = s \/ (x \in requests /\ x # r)
    BY DEF Replace
<1>4. TracksFor'
    BY <1>2 DEF TracksAre, TracksFor
<1>5. TracksTrue'
  <2> SUFFICES ASSUME commands = 0
               PROVE  /\ \A u \in tracks : \E x \in requests' : x.kind = "fs" /\ Its(u, x)
                      /\ \A x \in requests' : x.kind = "fs" => \E u \in tracks : Its(u, x)
    BY DEF TracksTrue, Its
  <2>1. /\ \A u \in tracks : \E x \in requests : x.kind = "fs" /\ Its(u, x)
        /\ \A x \in requests : x.kind = "fs" => \E u \in tracks : Its(u, x)
    BY DEF TracksAre, TracksTrue
  <2> QED BY <1>2, <2>1
<1> QED BY <1>4, <1>5 DEF TracksAre

LEMMA TracksSame ==
    ASSUME TracksAre, tracks' = tracks, commands' = commands, requests' = requests
    PROVE  TracksAre'
BY DEF TracksAre, TracksFor, TracksTrue, Its

\* What is no request of bios has no track to be told of.
LEMMA TracksOther ==
    ASSUME TracksAre, tracks' = tracks, commands' = commands,
           \A x : x.kind = "fs" => (x \in requests' <=> x \in requests)
    PROVE  TracksAre'
<1>1. TracksFor'
    BY DEF TracksAre, TracksFor
<1>2. TracksTrue'
    BY DEF TracksAre, TracksTrue, Its
<1> QED BY <1>1, <1>2 DEF TracksAre

LEMMA TrackNew ==
    ASSUME BlockInv, ~overlapped, TracksOK, TracksAre, NEW b \in waiting, NEW s,
           requests' = requests \cup {s}, commands' = commands, s.kind = "fs",
           s.start = b.start, s.pid = b.pid, s.state = "got", s.g = now + 1, now \in Nat,
           NEW t, t = [FindTrack(b.start, b.pid) EXCEPT !.allocation = now + 1], Set(t)
    PROVE  TracksAre'
<1>a. b \in Bio /\ b.start \in Nat /\ b.pid \in Nat
    BY DEF BlockInv, BlockTypes, Bio
<1>0. t \in Track /\ t.sector = b.start /\ t.allocation = now + 1
    BY <1>a, FindTrackIs DEF Track
<1>1. \A u : u \in tracks' <=> u = t \/ (u \in tracks /\ u.sector # t.sector)
    BY <1>0, SetIs
<1>3. \A x \in requests : x.kind = "fs" => x.start # b.start
    BY StartsApart
<1>4. TracksFor'
    BY <1>0, <1>1 DEF TracksAre, TracksFor
<1>5. TracksTrue'
  <2> SUFFICES ASSUME commands = 0
               PROVE  /\ \A u \in tracks' : \E x \in requests' : x.kind = "fs" /\ Its(u, x)
                      /\ \A x \in requests' : x.kind = "fs" => \E u \in tracks' : Its(u, x)
    BY DEF TracksTrue, Its
  <2>1. /\ \A u \in tracks : \E x \in requests : x.kind = "fs" /\ Its(u, x)
        /\ \A x \in requests : x.kind = "fs" => \E u \in tracks : Its(u, x)
    BY DEF TracksAre, TracksTrue
  <2>2. \A u, x : Its(u, x) => u.sector = x.start
    BY DEF Its
  <2>3. At(b.start) = {}
    BY <1>3, <2>1, <2>2 DEF At
  <2>4. t.pid = b.pid
    BY <2>3, <1>a DEF FindTrack
  <2>5. Its(t, s)
    BY <1>0, <2>4 DEF Its
  <2> QED BY <1>0, <1>1, <1>3, <2>1, <2>2, <2>5
<1> QED BY <1>4, <1>5 DEF TracksAre

LEMMA TrackFront ==
    ASSUME BlockInv, ~overlapped, TracksOK, TracksAre, NEW b \in waiting,
           NEW r \in requests, NEW s \in Request, r.kind = "fs", Replace(r, s), Grown(b, r, s),
           s.start = b.start, b.start + b.len = r.start, commands' = commands,
           NEW e, e.sector = b.start, e.len = b.len, FrontmergeTrack(e)
    PROVE  TracksAre'
<1>a. b \in Bio /\ b.start \in Nat /\ b.len \in Nat \ {0} /\ s.kind = "fs"
    BY DEF BlockInv, BlockTypes, Bio, Grown
<1>b. r.start # 0 /\ r.start # b.start
    BY <1>a
<1>1. PICK t \in tracks : t.sector = r.start
    BY <1>b DEF TracksAre, TracksFor
<1>2. TheTrack(r.start) = t /\ At(r.start) # {}
    BY <1>1, TheTrackIs
<1>3. \A x : x \in requests' <=> x = s \/ (x \in requests /\ x # r)
    BY DEF Replace
<1>4. \A x \in requests : x.kind = "fs" => x.start # b.start /\ (x # r => x.start # r.start)
    BY StartsApart
<1>5. \A u \in tracks : u.sector = r.start => u = t
    BY <1>1 DEF TracksOK
<1>6. PICK n : n = [t EXCEPT !.sector = b.start]
    OBVIOUS
<1>7. /\ n.sector = b.start /\ n.pid = t.pid /\ n.allocation = t.allocation
      /\ n.queue = t.queue /\ n.dispatch = t.dispatch
    BY <1>1, <1>6 DEF TracksOK, Track
<1>8. tracks' = (tracks \ {t}) \cup (IF At(b.start) = {} THEN {n} ELSE {})
    BY <1>2, <1>6 DEF FrontmergeTrack
<1>9. At(b.start) # {} => b.start = 0
    BY <1>4 DEF At, TracksAre, TracksFor
<1>10. TracksFor'
  <2>1. ASSUME NEW u \in tracks', u.sector # 0
        PROVE  \E x \in requests' : x.kind = "fs" /\ x.start = u.sector
    <3>1. CASE u = n
      BY <1>a, <1>3, <1>7, <3>1
    <3>2. CASE u \in tracks /\ u # t
      <4>1. PICK x \in requests : x.kind = "fs" /\ x.start = u.sector
        BY <2>1, <3>2 DEF TracksAre, TracksFor
      <4> QED BY <1>3, <1>5, <3>2, <4>1
    <3> QED BY <1>8, <2>1, <3>1, <3>2
  <2>2. ASSUME NEW x \in requests', x.kind = "fs", x.start # 0
        PROVE  \E u \in tracks' : u.sector = x.start
    <3>1. CASE x = s
      BY <1>7, <1>8, <1>9, <2>2, <3>1
    <3>2. CASE x \in requests /\ x # r
      BY <1>1, <1>4, <1>8, <2>2, <3>2 DEF TracksAre, TracksFor
    <3> QED BY <1>3, <2>2, <3>1, <3>2
  <2> QED BY <2>1, <2>2 DEF TracksFor
<1>11. TracksTrue'
  <2> SUFFICES ASSUME commands = 0
               PROVE  /\ \A u \in tracks' : \E x \in requests' : x.kind = "fs" /\ Its(u, x)
                      /\ \A x \in requests' : x.kind = "fs" => \E u \in tracks' : Its(u, x)
    BY DEF TracksTrue, Its
  <2>1. /\ \A u \in tracks : \E x \in requests : x.kind = "fs" /\ Its(u, x)
        /\ \A x \in requests : x.kind = "fs" => \E u \in tracks : Its(u, x)
    BY DEF TracksAre, TracksTrue
  <2>2. \A u, x : Its(u, x) => u.sector = x.start
    BY DEF Its
  <2>3. At(b.start) = {}
    BY <1>4, <2>1, <2>2 DEF At
  <2>4. Its(t, r)
    BY <1>1, <1>5, <2>1, <2>2
  <2>5. Its(n, s)
    BY <1>7, <2>4 DEF Its, Grown
  <2>6. \A u : u \in tracks' <=> u = n \/ (u \in tracks /\ u # t)
    BY <1>8, <2>3
  <2>7. ASSUME NEW u \in tracks' PROVE \E x \in requests' : x.kind = "fs" /\ Its(u, x)
    <3>1. CASE u = n
      BY <1>a, <1>3, <2>5, <3>1
    <3>2. CASE u \in tracks /\ u # t
      <4>1. PICK x \in requests : x.kind = "fs" /\ Its(u, x)
        BY <2>1, <3>2
      <4> QED BY <1>3, <1>5, <2>2, <3>2, <4>1
    <3> QED BY <2>6, <3>1, <3>2
  <2>8. ASSUME NEW x \in requests', x.kind = "fs" PROVE \E u \in tracks' : Its(u, x)
    <3>1. CASE x = s
      BY <2>5, <2>6, <3>1
    <3>2. CASE x \in requests /\ x # r
      <4>1. PICK u \in tracks : Its(u, x)
        BY <2>1, <2>8, <3>2
      <4> QED BY <1>1, <1>4, <2>2, <2>6, <2>8, <3>2, <4>1
    <3> QED BY <1>3, <2>8, <3>1, <3>2
  <2> QED BY <2>7, <2>8
<1> QED BY <1>10, <1>11 DEF TracksAre

LEMMA TrackDropped ==
    ASSUME BlockInv, ~overlapped, TracksOK, TracksAre, NEW r \in requests, r.kind = "fs",
           requests' = requests \ {r}, commands' = commands,
           tracks' = tracks \ At(r.start)
    PROVE  TracksAre'
<1>1. \A u : u \in tracks' <=> u \in tracks /\ u.sector # r.start
    BY DEF At
<1>3. \A x \in requests : x.kind = "fs" /\ x # r => x.start # r.start
    BY StartsApart
<1>4. TracksFor'
    BY <1>1, <1>3 DEF TracksAre, TracksFor
<1>5. TracksTrue'
  <2> SUFFICES ASSUME commands = 0
               PROVE  /\ \A u \in tracks' : \E x \in requests' : x.kind = "fs" /\ Its(u, x)
                      /\ \A x \in requests' : x.kind = "fs" => \E u \in tracks' : Its(u, x)
    BY DEF TracksTrue, Its
  <2>1. /\ \A u \in tracks : \E x \in requests : x.kind = "fs" /\ Its(u, x)
        /\ \A x \in requests : x.kind = "fs" => \E u \in tracks : Its(u, x)
    BY DEF TracksAre, TracksTrue
  <2>2. \A u, x : Its(u, x) => u.sector = x.start
    BY DEF Its
  <2> QED BY <1>1, <1>3, <2>1, <2>2
<1> QED BY <1>4, <1>5 DEF TracksAre

\* The track of a request is the one found where it begins.
LEMMA ItsTrack ==
    ASSUME TracksOK, TracksAre, commands = 0, NEW r \in requests, r.kind = "fs"
    PROVE  /\ At(r.start) # {} /\ Its(TheTrack(r.start), r)
           /\ \A pid : FindTrack(r.start, pid) = TheTrack(r.start)
           /\ TheTrack(r.start) \in tracks
<1>1. PICK t \in tracks : Its(t, r)
    BY DEF TracksAre, TracksTrue
<1>2. t.sector = r.start
    BY <1>1 DEF Its
<1>3. At(r.start) = {t} /\ TheTrack(r.start) = t
    BY <1>2, TheTrackIs
<1> QED BY <1>1, <1>3 DEF FindTrack

\* What is printed with an event.
ElapsedTrue ==
    commands = 0 /\ event.kind = "fs" =>
        /\ event.act = "C" =>
              \E b \in completed : b.c = now /\ elapsed = b.c - b.d
        /\ event.act \in {"I", "D"} =>
              \E r \in requests :
                  /\ r.kind = "fs" /\ r.start = event.sector
                  /\ elapsed = IF event.act = "I" THEN r.i - r.g ELSE r.d - r.i

\* log_track_insert finds the track, whose times and owner are the request's.
LEMMA TracksInsert ==
    ASSUME BlockInv, BlockNext, ~overlapped, TracksOK, TracksAre, DumpTrace(event'),
           NEW r \in requests, r.kind = "fs", Insert(r)
    PROVE  TracksAre' /\ ElapsedTrue'
<1>a. /\ event' \in Events /\ event'.time = now + 1 /\ now \in Nat /\ now' = now + 1
      /\ event'.act = "I" /\ event'.kind = "fs" /\ event'.sector = r.start
      /\ event'.pid = r.pid
    BY EventTimes, AgesKept, RequestEvents
<1>b. r \in Request /\ r.start \in Nat /\ r.pid \in Nat /\ r.g \in Nat
    BY DEF BlockInv, BlockTypes, Request
<1>1. PICK s \in Request : /\ Replace(r, s) /\ SameRequest(r, s) /\ AfterInsert(r, s)
                           /\ commands' = commands
    BY StateStepIs
<1>2. TraceInsert(event')
    BY <1>a, TraceActs
<1>3. PICK t \in Track : t = FindTrack(r.start, r.pid) /\ t.sector = r.start
    BY <1>b, FindTrackIs
<1>4. PICK u : u = [t EXCEPT !.queue = now + 1]
    OBVIOUS
<1>5. /\ u \in Track /\ u.sector = t.sector /\ u.pid = t.pid /\ u.queue = now + 1
      /\ u.allocation = t.allocation
    BY <1>a, <1>4 DEF Track
<1>6. Set(u) /\ elapsed' = Since(t.allocation, now + 1)
    BY <1>a, <1>2, <1>3, <1>4, Zenon DEF TraceInsert
<1>7. commands = 0 => Its(t, r)
    BY <1>3, ItsTrack
<1>8. commands = 0 => Its(u, s)
    BY <1>1, <1>5, <1>7 DEF Its, SameRequest, AfterInsert
<1>9. s.kind = "fs" /\ s.start = r.start
    BY <1>1 DEF SameRequest
<1>10. TracksAre'
    BY <1>1, <1>3, <1>5, <1>6, <1>8, <1>9, TrackSet
<1>11. ASSUME commands' = 0
       PROVE  \E x \in requests' : /\ x.kind = "fs" /\ x.start = r.start
                                   /\ elapsed' = x.i - x.g
  <2>1. s \in requests' /\ s.i = now + 1 /\ s.g = r.g
    BY <1>1 DEF Replace, AfterInsert, SameRequest
  <2>2. t.allocation = r.g
    BY <1>1, <1>7, <1>11 DEF Its
  <2>3. elapsed' = (now + 1) - r.g
    BY <1>6, <1>b, <2>2 DEF Since, Garbage
  <2> QED BY <1>9, <2>1, <2>3
<1> QED BY <1>a, <1>10, <1>11 DEF ElapsedTrue

\* log_track_issue finds the track, which then has the time of the issue.
LEMMA TracksIssue ==
    ASSUME BlockInv, BlockNext, ~overlapped, TracksOK, TracksAre, DumpTrace(event'),
           NEW r \in requests, r.kind = "fs", Issue(r)
    PROVE  TracksAre' /\ ElapsedTrue'
<1>a. /\ event' \in Events /\ event'.time = now + 1 /\ now \in Nat /\ now' = now + 1
      /\ event'.act = "D" /\ event'.kind = "fs" /\ event'.sector = r.start
    BY EventTimes, AgesKept, RequestEvents
<1>b. r \in Request /\ r.start \in Nat /\ r.i \in Nat
    BY DEF BlockInv, BlockTypes, Request
<1>1. PICK s \in Request : /\ Replace(r, s) /\ SameRequest(r, s) /\ AfterIssue(r, s)
                           /\ commands' = commands
    BY StateStepIs
<1>2. TraceIssue(event')
    BY <1>a, TraceActs
<1>9. s.kind = "fs" /\ s.start = r.start
    BY <1>1 DEF SameRequest
<1>3. CASE At(r.start) = {}
  <2>1. commands # 0
    BY <1>3, ItsTrack
  <2>2. tracks' = tracks
    BY <1>a, <1>2, <1>3 DEF TraceIssue
  <2>3. TracksFor'
    BY <1>1, <1>9, <2>2 DEF TracksAre, TracksFor, Replace
  <2>4. TracksTrue'
    BY <1>1, <2>1 DEF TracksTrue
  <2> QED BY <1>1, <2>1, <2>3, <2>4 DEF TracksAre, ElapsedTrue
<1>4. CASE At(r.start) # {}
  <2>1. PICK t \in Track : t = TheTrack(r.start) /\ t.sector = r.start
    BY <1>4, TheTrackIs DEF TracksOK
  <2>2. PICK u : u = [t EXCEPT !.dispatch = now + 1]
    OBVIOUS
  <2>3. /\ u \in Track /\ u.sector = t.sector /\ u.pid = t.pid /\ u.dispatch = now + 1
        /\ u.allocation = t.allocation /\ u.queue = t.queue
    BY <1>a, <2>2 DEF Track
  <2>4. Set(u) /\ elapsed' = Since(t.queue, now + 1)
    BY <1>a, <1>2, <1>4, <2>1, <2>2, Zenon DEF TraceIssue
  <2>5. commands = 0 => Its(t, r)
    BY <2>1, ItsTrack
  <2>6. commands = 0 => Its(u, s)
    BY <1>1, <2>3, <2>5 DEF Its, SameRequest, AfterIssue
  <2>7. TracksAre'
    BY <1>1, <1>9, <2>1, <2>3, <2>4, <2>6, TrackSet
  <2>8. ASSUME commands' = 0
        PROVE  \E x \in requests' : /\ x.kind = "fs" /\ x.start = r.start
                                    /\ elapsed' = x.d - x.i
    <3>1. s \in requests' /\ s.d = now + 1 /\ s.i = r.i /\ r.state = "queued"
      BY <1>1 DEF Replace, AfterIssue, SameRequest
    <3>2. t.queue = r.i
      BY <1>1, <2>5, <2>8, <3>1 DEF Its
    <3>3. elapsed' = (now + 1) - r.i
      BY <1>b, <2>4, <3>2 DEF Since, Garbage
    <3> QED BY <1>9, <3>1, <3>3
  <2> QED BY <1>a, <2>7, <2>8 DEF ElapsedTrue
<1> QED BY <1>3, <1>4

\* log_track_complete finds the track and takes it out.
LEMMA TracksComplete ==
    ASSUME BlockInv, BlockNext, ~overlapped, TracksOK, TracksAre, DumpTrace(event'),
           NEW r \in requests, r.kind = "fs", Complete(r)
    PROVE  TracksAre' /\ ElapsedTrue'
<1>a. /\ event' \in Events /\ event'.time = now + 1 /\ now \in Nat /\ now' = now + 1
      /\ event'.act = "C" /\ event'.kind = "fs" /\ event'.sector = r.start
    BY EventTimes, AgesKept, RequestEvents
<1>b. r \in Request /\ r.start \in Nat /\ r.d \in Nat
    BY DEF BlockInv, BlockTypes, Request
<1>1. /\ requests' = requests \ {r} /\ r.state = "issued" /\ commands' = commands
      /\ completed' = completed \cup {DoneOf(r, b, now + 1) : b \in r.bios}
    BY CompleteIs
<1>2. TraceComplete(event')
    BY <1>a, TraceActs
<1>3. tracks' = tracks \ At(r.start)
  <2>1. CASE At(r.start) = {}
    BY <1>a, <1>2, <2>1 DEF TraceComplete
  <2>2. CASE At(r.start) # {}
    <3>1. At(r.start) = {TheTrack(r.start)}
      BY <2>2, TheTrackIs
    <3>2. tracks' = tracks \ {TheTrack(r.start)}
      BY <1>a, <1>2, <2>2, Zenon DEF TraceComplete
    <3> QED BY <3>1, <3>2
  <2> QED BY <2>1, <2>2
<1>4. TracksAre'
    BY <1>1, <1>3, TrackDropped
<1>5. ASSUME commands' = 0
      PROVE  \E f \in completed' : f.c = now + 1 /\ elapsed' = f.c - f.d
  <2>1. At(r.start) # {} /\ Its(TheTrack(r.start), r)
    BY <1>1, <1>5, ItsTrack
  <2>2. elapsed' = Since(TheTrack(r.start).dispatch, now + 1)
    BY <1>a, <1>2, <2>1, Zenon DEF TraceComplete
  <2>3. TheTrack(r.start).dispatch = r.d
    BY <1>1, <2>1 DEF Its
  <2>4. elapsed' = (now + 1) - r.d
    BY <1>b, <2>2, <2>3 DEF Since, Garbage
  <2>5. PICK b \in r.bios : TRUE
    BY DEF BlockInv, RequestOK
  <2>6. DoneOf(r, b, now + 1) \in completed'
    BY <1>1
  <2> QED BY <2>4, <2>6 DEF DoneOf
<1> QED BY <1>a, <1>4, <1>5 DEF ElapsedTrue

LEMMA TracksCommand ==
    ASSUME BlockInv, TracksOK, TracksAre, NEW s, s.kind = "pc", requests' = requests \cup {s},
           commands' = commands + 1, NEW t \in Track, t.sector = 0, Set(t)
    PROVE  TracksAre'
<1>1. \A u : u \in tracks' <=> u = t \/ (u \in tracks /\ u.sector # 0)
    BY SetIs
<1>2. commands' # 0
    BY DEF BlockInv, BlockTypes
<1>3. TracksFor'
    BY <1>1 DEF TracksAre, TracksFor
<1>4. TracksTrue'
    BY <1>2 DEF TracksTrue
<1> QED BY <1>3, <1>4 DEF TracksAre

\* There is a track for each request, with its times, after every event.
LEMMA TracksStep ==
    ASSUME BlockInv, BlockNext, ~overlapped', TracksOK, TracksAre, DumpTrace(event')
    PROVE  TracksAre' /\ ElapsedTrue'
<1>a. /\ ~overlapped /\ event' \in Events /\ event'.time = now + 1 /\ now \in Nat
    BY OverlapKept, EventTimes, AgesKept
<1>b. event'.act \notin {"C", "I", "D"} \/ event'.kind # "fs" => ElapsedTrue'
    BY DEF ElapsedTrue
<1>c. TracksFor /\ TracksTrue
    BY DEF TracksAre
<1>d. \A r \in requests : r.kind = "fs" \/ r.kind = "pc"
    BY DEF BlockInv, BlockTypes, Request
<1>1. CASE workload.bios # <<>> /\ Queue(Head(workload.bios))
  <2>1. requests' = requests /\ event'.act = "Q" /\ commands' = commands
    BY <1>1, QueueIs
  <2>2. tracks' = tracks
    BY <2>1, TraceActs DEF TraceQueue
  <2> QED BY <1>b, <2>1, <2>2, TracksSame
<1>2. ASSUME NEW b \in waiting, Sleep(b)
      PROVE  TracksAre' /\ ElapsedTrue'
  <2>1. requests' = requests /\ event'.act = "S" /\ commands' = commands
    BY <1>2, SleepIs
  <2>2. tracks' = tracks
    BY <2>1, TraceActs DEF TraceOther
  <2> QED BY <1>b, <2>1, <2>2, TracksSame
<1>3. ASSUME NEW b \in waiting, GetRequest(b)
      PROVE  TracksAre' /\ ElapsedTrue'
  <2>1. PICK s : s = [id |-> now + 1, kind |-> "fs", start |-> b.start, len |-> b.len,
            w |-> b.w, pid |-> b.pid, state |-> "got", bios |-> {b},
            g |-> now + 1, i |-> 0, d |-> 0]
    OBVIOUS
  <2>2. /\ requests' = requests \cup {s} /\ commands' = commands
        /\ event' = Event("G", b.start, b.len, b.pid, b.w, "fs")
    BY <1>3, <2>1 DEF GetRequest, RecordBio
  <2>3. /\ event'.act = "G" /\ event'.sector = b.start /\ event'.pid = b.pid
    BY <2>2 DEF Event
  <2>4. /\ s.kind = "fs" /\ s.start = b.start /\ s.pid = b.pid /\ s.state = "got"
        /\ s.g = now + 1
    BY <2>1
  <2>5. PICK t : t = [FindTrack(b.start, b.pid) EXCEPT !.allocation = now + 1]
    OBVIOUS
  <2>6. Set(t)
    BY <1>a, <2>3, <2>5, TraceActs, Zenon DEF TraceGetrq
  <2>7. TracksAre'
    BY <1>a, <2>2, <2>4, <2>5, <2>6, TrackNew
  <2> QED BY <1>b, <2>3, <2>7
<1>4. ASSUME NEW b \in waiting, NEW r \in requests, Merge(b, r)
      PROVE  TracksAre' /\ ElapsedTrue'
  <2>1. PICK s \in Request :
              /\ Replace(r, s) /\ Grown(b, r, s) /\ r.kind = "fs" /\ commands' = commands
              /\ event'.act = (IF r.start + r.len = b.start THEN "M" ELSE "F")
              /\ event'.sector = b.start /\ event'.len = b.len
    BY <1>4, MergeIs
  <2>2. CASE r.start + r.len = b.start
    <3>1. event'.act = "M"
      BY <2>1, <2>2
    <3>2. tracks' = tracks
      BY <3>1, TraceActs DEF TraceMerge
    <3>3. s.kind = r.kind /\ s.start = r.start /\ \A t : Its(t, r) => Its(t, s)
      BY <2>1, <2>2 DEF Grown, Its
    <3> QED BY <1>b, <2>1, <3>1, <3>2, <3>3, TrackStays
  <2>3. CASE r.start + r.len # b.start
    <3>1. event'.act = "F"
      BY <2>1, <2>3
    <3>2. FrontmergeTrack(event')
      BY <3>1, TraceActs DEF TraceMerge
    <3>3. s.start = b.start /\ b.start + b.len = r.start
      BY <2>1, <2>3 DEF Grown
    <3>4. TracksAre'
      BY <1>a, <2>1, <3>2, <3>3, TrackFront
    <3> QED BY <1>b, <3>1, <3>4
  <2> QED BY <2>2, <2>3
<1>5. ASSUME NEW p \in Nat, GetCommand(p)
      PROVE  TracksAre' /\ ElapsedTrue'
  <2>1. PICK s : s = [id |-> now + 1, kind |-> "pc", start |-> 0, len |-> 1, w |-> 0,
            pid |-> p, state |-> "got", bios |-> {}, g |-> now + 1, i |-> 0,
            d |-> 0]
    OBVIOUS
  <2>2. /\ requests' = requests \cup {s} /\ commands' = commands + 1
        /\ event' = Event("G", 0, 0, p, 0, "fs")
    BY <1>5, <2>1 DEF GetCommand
  <2>3. event'.act = "G" /\ event'.sector = 0 /\ event'.pid = p /\ s.kind = "pc"
    BY <2>1, <2>2 DEF Event
  <2>4. FindTrack(0, p) \in Track /\ FindTrack(0, p).sector = 0
    BY FindTrackIs
  <2>5. PICK t : t = [FindTrack(0, p) EXCEPT !.allocation = now + 1]
    OBVIOUS
  <2>6. Set(t)
    BY <1>a, <2>3, <2>5, TraceActs, Zenon DEF TraceGetrq
  <2>7. t \in Track /\ t.sector = 0
    BY <1>a, <2>4, <2>5 DEF Track
  <2>8. TracksAre'
    BY <2>2, <2>3, <2>6, <2>7, TracksCommand
  <2> QED BY <1>b, <2>3, <2>8
<1>6. ASSUME NEW r \in requests, r.kind = "fs", Requeue(r)
      PROVE  TracksAre' /\ ElapsedTrue'
  <2>1. PICK s \in Request : /\ Replace(r, s) /\ SameRequest(r, s) /\ AfterRequeue(r, s)
                             /\ commands' = commands
    BY <1>6, StateStepIs
  <2>2. event'.act = "R" /\ event'.kind = "fs"
    BY <1>6, RequestEvents
  <2>3. tracks' = tracks
    BY <2>2, TraceActs DEF TraceRequeue
  <2>4. s.kind = r.kind /\ s.start = r.start /\ \A t : Its(t, r) => Its(t, s)
    BY <2>1 DEF SameRequest, AfterRequeue, Its
  <2> QED BY <1>b, <2>1, <2>2, <2>3, <2>4, TrackStays
<1>7. ASSUME NEW r \in requests, r.kind = "pc", Insert(r) \/ Issue(r) \/ Requeue(r) \/ Complete(r)
      PROVE  TracksAre' /\ ElapsedTrue'
  <2>1. event'.kind = "pc" /\ event'.act \in {"I", "D", "R", "C"}
    BY <1>7, RequestEvents
  <2>2. tracks' = tracks
    BY <2>1, TraceActs DEF TraceCommand
  <2>3. CASE Insert(r) \/ Issue(r) \/ Requeue(r)
    <3>1. PICK s \in Request : Replace(r, s) /\ SameRequest(r, s) /\ commands' = commands
      BY <2>3, StateStepIs
    <3>2. \A x : x.kind = "fs" => (x \in requests' <=> x \in requests)
      BY <1>7, <3>1 DEF Replace, SameRequest
    <3> QED BY <1>b, <2>1, <2>2, <3>1, <3>2, TracksOther
  <2>4. CASE Complete(r)
    <3>1. requests' = requests \ {r} /\ commands' = commands
      BY <2>4, CompleteIs
    <3>2. \A x : x.kind = "fs" => (x \in requests' <=> x \in requests)
      BY <1>7, <3>1
    <3> QED BY <1>b, <2>1, <2>2, <3>1, <3>2, TracksOther
  <2> QED BY <1>7, <2>3, <2>4
<1>8. CASE PlugOrUnplug
  <2>1. requests' = requests /\ event'.act \in {"P", "U", "UT"} /\ commands' = commands
    BY <1>8, PlugIs DEF PlugOrUnplug
  <2>2. tracks' = tracks
    BY <2>1, TraceActs DEF TraceOther, TraceUnplug
  <2> QED BY <1>b, <2>1, <2>2, TracksSame
<1>9. \A r \in requests : r.kind = "fs" /\ (Insert(r) \/ Issue(r) \/ Complete(r)) =>
         TracksAre' /\ ElapsedTrue'
    BY <1>a, TracksInsert, TracksIssue, TracksComplete
<1>10. \A b \in InFlight : b.pid \in Nat
    BY InFlightIs DEF BlockInv, BlockTypes, Bio, Request
<1> QED BY <1>d, <1>1, <1>2, <1>3, <1>4, <1>5, <1>6, <1>7, <1>8, <1>9, <1>10
        DEF BlockNext, PlugOrUnplug
-----------------------------------------------------------------------------
(* The longest waits.                                                      *)

Longest(infos, p, w) == infos[p].waits["completion"][w]
OldLongest(p, w) == PpiOf(p).waits["completion"][w]

\* What an event does to the entries of processes and to their longest waits for
\* completion.
WaitsMove(e) ==
    /\ DOMAIN ppi \subseteq DOMAIN ppi'
    /\ e.act = "Q" => e.pid \in DOMAIN ppi'
    /\ \A p \in DOMAIN ppi' : \A w \in Directions :
          Longest(ppi', p, w) =
              IF /\ e.act = "C" /\ e.kind = "fs" /\ At(e.sector) # {}
                 /\ p = TheTrack(e.sector).pid /\ w = e.w
                 /\ Since(TheTrack(e.sector).dispatch, e.time) # Garbage
                 /\ Since(TheTrack(e.sector).dispatch, e.time) > OldLongest(p, w)
              THEN Since(TheTrack(e.sector).dispatch, e.time) ELSE OldLongest(p, w)

LEMMA EnteredLongest ==
    ASSUME NEW infos, NEW q, Entered(infos, q)
    PROVE  \A p \in DOMAIN infos : \A w : Longest(infos, p, w) = OldLongest(p, w)
BY DEF Entered, Longest, OldLongest, PpiOf

\* What is entered for a process is the longer of the two.
LEMMA PutLongest ==
    ASSUME NEW new, NEW infos, NEW t, NEW of, NEW x, NEW time,
           LongerPut(new, infos, t, of, x, time)
    PROVE  /\ DOMAIN new = DOMAIN infos
           /\ \A p \in DOMAIN new : \A w \in Directions :
                 Longest(new, p, w) =
                    IF /\ of = "completion" /\ p = t.pid /\ w = x /\ time # Garbage
                       /\ time > Longest(infos, p, w)
                    THEN time ELSE Longest(infos, p, w)
<1>1. "completion" \in Waiting
    BY DEF Waiting
<1> QED BY <1>1 DEF LongerPut, Longest

LEMMA WaitsStep ==
    ASSUME BookInv, NEW e \in Events, DumpTrace(e), e.act # "none"
    PROVE  WaitsMove(e)
<1>0. /\ e.w \in Directions /\ e.len \in Nat /\ e.len \in Int /\ e.time \in Nat
      /\ e.sector \in Nat /\ e.pid \in Nat /\ e.kind \in {"fs", "pc"} /\ e.act \in Acts
    BY DEF Events, Directions
<1>a. TracksOK /\ SumsOK(io_stats, ppi) /\ ppi \in [DOMAIN ppi -> Info]
    BY DEF BookInv, SumsOK
<1>c. \A t \in tracks : t.allocation \in Int /\ t.queue \in Int /\ t.dispatch \in Int
                        /\ t \in Track
    BY <1>a DEF TracksOK, Track
<1>d. \A from \in Int : Since(from, e.time) \in Int
    BY <1>0 DEF Since, Garbage
<1>e. ASSUME e.act # "C" \/ e.kind # "fs" \/ At(e.sector) = {},
             NEW q, Entered(ppi', q), e.act = "Q" => q = e.pid
      PROVE  WaitsMove(e)
  <2>1. DOMAIN ppi' = DOMAIN ppi \cup {q}
    BY <1>e DEF Entered
  <2>2. \A p \in DOMAIN ppi' : \A w : Longest(ppi', p, w) = OldLongest(p, w)
    BY <1>e, EnteredLongest
  <2> QED BY <1>e, <2>1, <2>2 DEF WaitsMove
<1>f. ASSUME e.act # "C" \/ e.kind # "fs", e.act # "Q", ppi' = ppi
      PROVE  WaitsMove(e)
  <2>1. \A p \in DOMAIN ppi' : \A w : Longest(ppi', p, w) = OldLongest(p, w)
    BY <1>f DEF Longest, OldLongest, PpiOf
  <2> QED BY <1>f, <2>1 DEF WaitsMove
<1>1. CASE e.act = "Q"
  <2>1. Accounted(e, "queue") /\ "queue" \in Counted
    BY <1>1, TraceActs DEF TraceQueue, Counted
  <2> QED BY <1>0, <1>1, <1>e, <2>1, AccountedStep
<1>2. CASE e.act = "G"
  <2>1. ppi' = ppi
    BY <1>2, TraceActs DEF TraceGetrq
  <2> QED BY <1>2, <1>f, <2>1
<1>3. CASE e.act = "I" /\ e.kind = "fs"
  <2>1. TraceInsert(e)
    BY <1>3, TraceActs
  <2>2. PICK t \in Track : t = FindTrack(e.sector, e.pid)
    BY <1>0, <1>a, FindTrackIs
  <2>3. PICK time \in Int : time = Since(t.allocation, e.time)
    BY <1>d, <2>2 DEF Track
  <2>4. ppi' = Waited(ppi, t, "allocation", e.w, time)
    BY <2>1, <2>2, <2>3, Zenon DEF TraceInsert
  <2>5. /\ DOMAIN ppi' = DOMAIN ppi
        /\ \A p \in DOMAIN ppi' : \A w \in Directions :
              Longest(ppi', p, w) = Longest(ppi, p, w)
    <3>1. "allocation" \in Waiting
      BY DEF Waiting
    <3>2. LongerPut(ppi', ppi, t, "allocation", e.w, time)
      BY <1>0, <1>a, <2>4, <3>1, WaitedIs
    <3> QED BY <3>2, PutLongest
  <2>6. \A p \in DOMAIN ppi' : \A w \in Directions : Longest(ppi', p, w) = OldLongest(p, w)
    BY <2>5 DEF Longest, OldLongest, PpiOf
  <2> QED BY <1>3, <2>5, <2>6 DEF WaitsMove
<1>4. CASE e.act \in {"M", "F"}
  <2>1. Accounted(e, "merge") /\ "merge" \in Counted
    BY <1>4, TraceActs DEF TraceMerge, Counted
  <2> QED BY <1>0, <1>4, <1>e, <2>1, AccountedStep
<1>5. CASE e.act = "D" /\ e.kind = "fs"
  <2>1. TraceIssue(e)
    BY <1>5, TraceActs
  <2>2. "issue" \in Counted
    BY DEF Counted
  <2>3. PICK counted : counted = WithPpi(e.pid, [PpiOf(e.pid) EXCEPT !.stats =
                                     Account(@, "issue", e.w, 1, e.len)])
    OBVIOUS
  <2>4. Entered(counted, e.pid)
    BY <1>0, <1>a, <2>2, <2>3, AccountOK
  <2>5. CASE At(e.sector) = {}
    <3>1. ppi' = counted
      BY <2>1, <2>3, <2>5, Zenon DEF TraceIssue
    <3> QED BY <1>5, <1>e, <2>4, <3>1
  <2>6. CASE At(e.sector) # {}
    <3>1. PICK t \in tracks : t = TheTrack(e.sector)
      BY <1>a, <2>6, TheTrackIs
    <3>2. PICK time \in Int : time = Since(t.queue, e.time)
      BY <1>c, <1>d, <3>1
    <3>3. ppi' = Waited(counted, t, "dispatch", e.w, time)
      BY <2>1, <2>3, <2>6, <3>1, <3>2, Zenon DEF TraceIssue
    <3>4. counted \in [DOMAIN counted -> Info] /\ DOMAIN counted = DOMAIN ppi \cup {e.pid}
      BY <2>4 DEF Entered
    <3>a. "dispatch" \in Waiting
      BY DEF Waiting
    <3>5. LongerPut(ppi', counted, t, "dispatch", e.w, time)
      BY <1>0, <3>3, <3>4, <3>a, WaitedIs
    <3>6. /\ DOMAIN ppi' = DOMAIN counted
          /\ \A p \in DOMAIN ppi' : \A w \in Directions :
                Longest(ppi', p, w) = Longest(counted, p, w)
      BY <3>5, PutLongest
    <3>7. \A p \in DOMAIN counted : \A w : Longest(counted, p, w) = OldLongest(p, w)
      BY <2>4, EnteredLongest
    <3> QED BY <1>5, <3>4, <3>6, <3>7 DEF WaitsMove
  <2> QED BY <2>5, <2>6
<1>6. CASE e.act = "R" /\ e.kind = "fs"
  <2>1. AccountedRequeue(e, "requeue", "issue") /\ "requeue" \in Counted /\ "issue" \in Counted
    BY <1>6, TraceActs DEF TraceRequeue, Counted
  <2>2. Entered(ppi', e.pid)
    BY <1>0, <1>a, <2>1, RequeueOK
  <2> QED BY <1>6, <1>e, <2>2
<1>7. CASE e.act = "C" /\ e.kind = "fs"
  <2>1. TraceComplete(e)
    BY <1>7, TraceActs
  <2>2. "complete" \in Counted
    BY DEF Counted
  <2>3. PICK counted : counted = WithPpi(e.pid, [PpiOf(e.pid) EXCEPT !.stats =
                                     Account(@, "complete", e.w, 1, e.len)])
    OBVIOUS
  <2>4. Entered(counted, e.pid)
    BY <1>0, <1>a, <2>2, <2>3, AccountOK
  <2>5. CASE At(e.sector) = {}
    <3>1. ppi' = counted
      BY <2>1, <2>3, <2>5, Zenon DEF TraceComplete
    <3> QED BY <1>7, <1>e, <2>4, <2>5, <3>1
  <2>6. CASE At(e.sector) # {}
    <3>1. PICK t \in tracks : t = TheTrack(e.sector)
      BY <1>a, <2>6, TheTrackIs
    <3>2. PICK time \in Int : time = Since(t.dispatch, e.time)
      BY <1>c, <1>d, <3>1
    <3>3. ppi' = Waited(counted, t, "completion", e.w, time)
      BY <2>1, <2>3, <2>6, <3>1, <3>2, Zenon DEF TraceComplete
    <3>4. counted \in [DOMAIN counted -> Info] /\ DOMAIN counted = DOMAIN ppi \cup {e.pid}
      BY <2>4 DEF Entered
    <3>a. "completion" \in Waiting
      BY DEF Waiting
    <3>5. LongerPut(ppi', counted, t, "completion", e.w, time)
      BY <1>0, <3>3, <3>4, <3>a, WaitedIs
    <3>6. /\ DOMAIN ppi' = DOMAIN counted
          /\ \A p \in DOMAIN ppi' : \A w \in Directions :
                Longest(ppi', p, w) =
                    IF p = t.pid /\ w = e.w /\ time # Garbage /\ time > Longest(counted, p, w)
                    THEN time ELSE Longest(counted, p, w)
      BY <3>5, PutLongest
    <3>7. \A p \in DOMAIN counted : \A w : Longest(counted, p, w) = OldLongest(p, w)
      BY <2>4, EnteredLongest
    <3> QED BY <1>7, <2>6, <3>1, <3>2, <3>4, <3>6, <3>7 DEF WaitsMove
  <2> QED BY <2>5, <2>6
<1>8. CASE e.act \in {"I", "D", "R", "C"} /\ e.kind = "pc"
  <2>1. TraceCommand(e)
    BY <1>8, TraceActs
  <2>3. \A x \in {"pc_issue", "pc_complete", "pc_requeue"} : x \in Counted
    BY DEF Counted
  <2>4. CASE ppi' = ppi
    BY <1>8, <1>f, <2>4
  <2>5. CASE Accounted(e, "pc_issue") \/ Accounted(e, "pc_complete")
    BY <1>0, <1>8, <1>e, <2>3, <2>5, AccountedStep
  <2>6. CASE AccountedRequeue(e, "pc_requeue", "pc_issue")
    <3>1. Entered(ppi', e.pid)
      BY <1>0, <1>a, <2>3, <2>6, RequeueOK
    <3> QED BY <1>8, <1>e, <3>1
  <2> QED BY <2>1, <2>4, <2>5, <2>6 DEF TraceCommand
<1>9. CASE e.act \in {"U", "UT"}
  <2>1. TraceUnplug(e) /\ "unplug" \in Counted
    BY <1>9, TraceActs DEF Counted
  <2>3. PICK f : f = [e EXCEPT !.w = IF e.act = "UT" THEN 1 ELSE 0, !.len = 0]
    OBVIOUS
  <2>4. f.w \in Directions /\ f.len \in Int
    BY <2>3 DEF Events, Directions
  <2>5. Accounted(f, "unplug")
    BY <2>1, <2>3, Zenon DEF TraceUnplug
  <2>6. Entered(ppi', f.pid)
    BY <2>1, <2>4, <2>5, AccountedStep
  <2> QED BY <1>9, <1>e, <2>6
<1>10. CASE e.act \in {"S", "P"}
  <2>1. ppi' = ppi
    BY <1>10, TraceActs DEF TraceOther
  <2> QED BY <1>10, <1>f, <2>1
<1> QED BY <1>0, <1>1, <1>2, <1>3, <1>4, <1>5, <1>6, <1>7, <1>8, <1>9, <1>10 DEF Acts

\* The processes of what is on its way, and of what is done, have entries.
PidsKnown ==
    /\ \A b \in waiting : b.pid \in DOMAIN ppi
    /\ \A r \in requests : r.kind = "fs" =>
          r.pid \in DOMAIN ppi /\ \A b \in r.bios : b.pid \in DOMAIN ppi
    /\ \A f \in completed : f.owner \in DOMAIN ppi

\* The longest of the times of some bios on the device, nothing if there are none.
IsLongest(mine, longest) ==
    IF mine = {} THEN longest = 0
    ELSE /\ \A b \in mine : b.c - b.d <= longest
         /\ \E b \in mine : b.c - b.d = longest
Owned(done, p, w) == {b \in done : b.owner = p /\ b.w = w}
LongestTrue ==
    commands = 0 =>
        \A p \in DOMAIN ppi : \A w \in Directions :
            IsLongest(Owned(completed, p, w), Longest(ppi, p, w))

\* The first event of a bio is its queueing, which gives its process an entry.
LEMMA PidsStep ==
    ASSUME BlockInv, BlockNext, PidsKnown, DOMAIN ppi \subseteq DOMAIN ppi',
           event'.act = "Q" => event'.pid \in DOMAIN ppi'
    PROVE  PidsKnown'
<1>a. \A d : d \in DOMAIN ppi => d \in DOMAIN ppi'
    OBVIOUS
<1>0. /\ \A b \in waiting : b.pid \in DOMAIN ppi'
      /\ \A r \in requests : r.kind = "fs" =>
            r.pid \in DOMAIN ppi' /\ \A b \in r.bios : b.pid \in DOMAIN ppi'
      /\ \A f \in completed : f.owner \in DOMAIN ppi'
    BY <1>a DEF PidsKnown
<1>k. \A r \in requests : r.kind \in {"fs", "pc"} /\ (r.kind = "pc" => r.bios = {})
    BY DEF BlockInv, BlockTypes, Request, RequestOK
<1>1. CASE workload.bios # <<>> /\ Queue(Head(workload.bios))
  <2>1. PICK b \in Bio : /\ waiting' = waiting \cup {b} /\ event'.act = "Q"
                         /\ event'.pid = b.pid
                         /\ requests' = requests /\ completed' = completed
    BY <1>1, QueueIs
  <2> QED BY <1>0, <2>1 DEF PidsKnown
<1>2. ASSUME NEW b \in waiting, Sleep(b)
      PROVE  PidsKnown'
  <2>1. PICK c \in Bio : /\ c.pid = b.pid /\ waiting' = (waiting \ {b}) \cup {c}
                         /\ requests' = requests /\ completed' = completed
    BY <1>2, SleepIs
  <2> QED BY <1>0, <2>1 DEF PidsKnown
<1>3. ASSUME NEW b \in waiting, GetRequest(b)
      PROVE  PidsKnown'
  <2>1. PICK s \in Request : /\ requests' = requests \cup {s} /\ waiting' = waiting \ {b}
                             /\ s.bios = {b} /\ s.pid = b.pid /\ completed' = completed
    BY <1>3, GetRequestIs
  <2> QED BY <1>0, <2>1 DEF PidsKnown
<1>4. ASSUME NEW b \in waiting, NEW r \in requests, Merge(b, r)
      PROVE  PidsKnown'
  <2>1. PICK s \in Request : /\ Replace(r, s) /\ waiting' = waiting \ {b} /\ Grown(b, r, s)
                             /\ r.kind = "fs" /\ completed' = completed
    BY <1>4, MergeIs
  <2>2. s.pid = r.pid /\ s.bios = r.bios \cup {b}
    BY <2>1 DEF Grown
  <2> QED BY <1>0, <2>1, <2>2 DEF PidsKnown, Replace
<1>5. ASSUME NEW p \in Nat \ {0}, GetCommand(p)
      PROVE  PidsKnown'
  <2>1. PICK s \in Request : /\ requests' = requests \cup {s} /\ waiting' = waiting
                             /\ s.kind = "pc" /\ completed' = completed
    BY <1>5, GetCommandIs
  <2> QED BY <1>0, <2>1 DEF PidsKnown
<1>6. ASSUME NEW r \in requests, Insert(r) \/ Issue(r) \/ Requeue(r)
      PROVE  PidsKnown'
  <2>1. PICK s \in Request : /\ Replace(r, s) /\ SameRequest(r, s)
                             /\ UNCHANGED <<waiting, completed>>
    BY <1>6, StateStepIs
  <2> QED BY <1>0, <2>1 DEF PidsKnown, Replace, SameRequest
<1>7. ASSUME NEW r \in requests, Complete(r)
      PROVE  PidsKnown'
  <2>1. /\ requests' = requests \ {r} /\ waiting' = waiting
        /\ completed' = completed \cup {DoneOf(r, b, now + 1) : b \in r.bios}
    BY <1>7, CompleteIs
  <2>2. \A b \in r.bios : DoneOf(r, b, now + 1).owner = r.pid /\ r.kind = "fs"
    BY <1>k DEF DoneOf
  <2> QED BY <1>0, <2>1, <2>2 DEF PidsKnown
<1>8. CASE PlugOrUnplug
  <2>1. UNCHANGED <<waiting, requests, completed>>
    BY <1>8, PlugIs DEF PlugOrUnplug
  <2> QED BY <1>0, <2>1 DEF PidsKnown
<1>9. \A b \in InFlight : b.pid \in Nat \ {0}
    BY InFlightIs DEF BlockInv, BlockTypes, Bio, Request
<1> QED BY <1>1, <1>2, <1>3, <1>4, <1>5, <1>6, <1>7, <1>8, <1>9
        DEF BlockNext, PlugOrUnplug

\* Only the request of bios that is done adds to what is done.
LEMMA DoneCases ==
    ASSUME BlockInv, BlockNext
    PROVE  /\ commands \in Nat /\ commands' \in {commands, commands + 1}
           /\ \/ /\ completed' = completed
                 /\ event'.act # "C" \/ event'.kind # "fs"
              \/ \E r \in requests : r.kind = "fs" /\ Complete(r) /\ commands' = commands
<1>a. commands \in Nat /\ \A r \in requests : /\ r.kind \in {"fs", "pc"}
                                              /\ r.kind = "pc" => r.bios = {}
    BY DEF BlockInv, BlockTypes, Request, RequestOK
<1>1. CASE workload.bios # <<>> /\ Queue(Head(workload.bios))
    BY <1>a, <1>1, QueueIs
<1>2. ASSUME NEW b \in waiting, Sleep(b)
      PROVE  completed' = completed /\ event'.act # "C" /\ commands' = commands
    BY <1>2, SleepIs
<1>3. ASSUME NEW b \in waiting, GetRequest(b)
      PROVE  completed' = completed /\ event'.act # "C" /\ commands' = commands
    BY <1>3, GetRequestIs
<1>4. ASSUME NEW b \in waiting, NEW r \in requests, Merge(b, r)
      PROVE  completed' = completed /\ event'.act # "C" /\ commands' = commands
  <2>1. completed' = completed /\ commands' = commands
        /\ event'.act = (IF r.start + r.len = b.start THEN "M" ELSE "F")
    BY <1>4, MergeIs
  <2> QED BY <2>1
<1>5. ASSUME NEW p \in Nat \ {0}, GetCommand(p)
      PROVE  completed' = completed /\ event'.act # "C" /\ commands' = commands + 1
    BY <1>5, GetCommandIs
<1>6. ASSUME NEW r \in requests, Insert(r) \/ Issue(r) \/ Requeue(r)
      PROVE  completed' = completed /\ event'.act # "C" /\ commands' = commands
  <2>1. completed' = completed /\ commands' = commands
    BY <1>6, StateStepIs
  <2> QED BY <1>6, <2>1, RequestEvents
<1>7. ASSUME NEW r \in requests, r.kind = "pc", Complete(r)
      PROVE  completed' = completed /\ event'.kind # "fs" /\ commands' = commands
  <2>1. /\ event'.kind = "pc" /\ commands' = commands
        /\ completed' = completed \cup {DoneOf(r, b, now + 1) : b \in r.bios}
    BY <1>7, CompleteIs
  <2> QED BY <1>7, <1>a, <2>1
<1>8. CASE PlugOrUnplug
  <2>1. completed' = completed /\ event'.act \in {"P", "U", "UT"} /\ commands' = commands
    BY <1>8, PlugIs DEF PlugOrUnplug
  <2> QED BY <1>a, <2>1
<1>9. \A b \in InFlight : b.pid \in Nat \ {0}
    BY InFlightIs DEF BlockInv, BlockTypes, Bio, Request
<1>10. ASSUME NEW r \in requests, r.kind = "fs", Complete(r)
       PROVE  commands' = commands
    BY <1>10, CompleteIs
<1> QED BY <1>1, <1>2, <1>3, <1>4, <1>5, <1>6, <1>7, <1>8, <1>9, <1>10, <1>a
        DEF BlockNext, PlugOrUnplug

\* Of a process without an entry nothing is done.
LEMMA NotOwned ==
    ASSUME PidsKnown, NEW p, p \notin DOMAIN ppi, NEW w \in Directions
    PROVE  Owned(completed, p, w) = {} /\ OldLongest(p, w) = 0
<1>1. OldLongest(p, w) = 0
    BY NewInfo DEF OldLongest, PpiOf, Waiting
<1>2. Owned(completed, p, w) = {}
    BY DEF PidsKnown, Owned
<1> QED BY <1>1, <1>2

LEMMA OldIsLongest ==
    ASSUME PidsKnown, LongestTrue, commands = 0, NEW p, NEW w \in Directions
    PROVE  IsLongest(Owned(completed, p, w), OldLongest(p, w))
<1>1. CASE p \in DOMAIN ppi
    BY <1>1 DEF LongestTrue, OldLongest, Longest, PpiOf
<1>2. CASE p \notin DOMAIN ppi
    BY <1>2, NotOwned DEF IsLongest
<1> QED BY <1>1, <1>2

\* A request is done: its bios were all on the device for that long.
LEMMA LongerIsLongest ==
    ASSUME NEW mine, NEW was \in Int, IsLongest(mine, was), NEW new, new # {},
           NEW time \in Nat, NEW longest, longest = (IF time > was THEN time ELSE was),
           \A b \in new : b.c - b.d = time,
           \A b \in mine \cup new : b.c \in Int /\ b.d \in Int
    PROVE  IsLongest(mine \cup new, longest)
<1>1. \E b \in mine \cup new : b.c - b.d = longest
    BY DEF IsLongest
<1>2. \A b \in mine \cup new : b.c - b.d <= longest
    BY DEF IsLongest
<1> QED BY <1>1, <1>2 DEF IsLongest

LEMMA WaitsDone ==
    ASSUME BlockInv, BlockNext, PidsKnown, TracksOK, TracksAre, LongestTrue, BookInv,
           DOMAIN ppi \subseteq DOMAIN ppi',
           WaitsMove(event'), commands = 0,
           NEW r \in requests, r.kind = "fs", Complete(r),
           NEW p \in DOMAIN ppi', NEW w \in Directions
    PROVE  IsLongest(Owned(completed', p, w), Longest(ppi', p, w))
<1>a. r.d \in Nat /\ now \in Nat /\ r.d <= now /\ r.pid \in DOMAIN ppi /\ r.w \in Directions
  <2>1. now \in Nat
    BY AgesKept
  <2>2. r \in Request /\ r.d \in 0..now
    BY DEF BlockInv, BlockTypes, Ages
  <2> QED BY <2>1, <2>2 DEF Request, PidsKnown, Directions
<1>b. /\ r.state = "issued" /\ event'.act = "C" /\ event'.kind = "fs"
      /\ event'.sector = r.start /\ event'.w = r.w /\ event'.time = now + 1
      /\ completed' = completed \cup {DoneOf(r, b, now + 1) : b \in r.bios}
    BY CompleteIs, EventTimes
<1>c. At(r.start) # {} /\ TheTrack(r.start).pid = r.pid /\ TheTrack(r.start).dispatch = r.d
    BY <1>b, ItsTrack DEF Its
<1>d. PICK time \in Nat : time = (now + 1) - r.d /\ time > 0
    BY <1>a
<1>e. Since(r.d, now + 1) = time /\ time # Garbage
    BY <1>a, <1>d DEF Since, Garbage
<1>f. PICK was : was = OldLongest(p, w)
    OBVIOUS
<1>g. was \in Int /\ IsLongest(Owned(completed, p, w), was)
  <2>1. NewProcess \in Info /\ \A q \in DOMAIN ppi : ppi[q] \in Info
    BY NewInfo DEF BookInv, SumsOK
  <2>2. PpiOf(p) \in Info
    BY <2>1 DEF PpiOf
  <2>3. OldLongest(p, w) \in Int
    BY <2>2 DEF OldLongest, Info, Waits, Waiting
  <2> QED BY <1>f, <2>3, OldIsLongest
<1>h. Longest(ppi', p, w) = (IF p = r.pid /\ w = r.w /\ time > was THEN time ELSE was)
    BY <1>b, <1>c, <1>e, <1>f DEF WaitsMove
<1> DEFINE new == {DoneOf(r, b, now + 1) : b \in r.bios}
<1>i. /\ new # {} /\ \A f \in new : /\ f.owner = r.pid /\ f.w = r.w /\ f.c = now + 1
                                    /\ f.d = r.d
  <2>1. r.bios # {}
    BY DEF BlockInv, RequestOK
  <2>2. \A b : DoneOf(r, b, now + 1) \in [q : {b.q}, d : {r.d}, c : {now + 1}, pid : {b.pid},
                 owner : {r.pid}, w : {b.w}, request : {r.id}]
    BY DEF DoneOf
  <2>3. \A b \in r.bios : b.w = r.w
    BY DEF BlockInv, RequestOK
  <2> QED BY <2>1, <2>2, <2>3
<1>j. Owned(completed', p, w)
          = Owned(completed, p, w) \cup (IF p = r.pid /\ w = r.w THEN new ELSE {})
    BY <1>b, <1>i DEF Owned
<1>1. CASE p = r.pid /\ w = r.w
  <2>1. \A b \in new : b.c - b.d = time /\ b.c \in Int /\ b.d \in Int
    BY <1>a, <1>d, <1>i
  <2>2. \A b \in Owned(completed, p, w) : b.c \in Int /\ b.d \in Int
    BY DEF Owned, BlockInv, BlockTypes, Done
  <2> HIDE DEF new
  <2>3. IsLongest(Owned(completed, p, w) \cup new, IF time > was THEN time ELSE was)
    BY <1>g, <1>i, <2>1, <2>2, LongerIsLongest
  <2> QED BY <1>1, <1>h, <1>j, <2>3
<1>2. CASE ~(p = r.pid /\ w = r.w)
    BY <1>2, <1>g, <1>h, <1>j
<1> QED BY <1>1, <1>2

\* The longest wait of a process is that of the bios it owned.
LEMMA LongestStep ==
    ASSUME BlockInv, BlockNext, PidsKnown, TracksAre, LongestTrue, BookInv,
           DumpTrace(event')
    PROVE  LongestTrue' /\ PidsKnown'
<1>1. event' \in Events /\ event'.act # "none"
    BY EventTimes
<1>2. WaitsMove(event')
    BY <1>1, WaitsStep
<1>3. PidsKnown'
    BY <1>2, PidsStep DEF WaitsMove
<1>4. ASSUME commands' = 0, NEW p \in DOMAIN ppi', NEW w \in Directions
      PROVE  IsLongest(Owned(completed', p, w), Longest(ppi', p, w))
  <2>1. commands = 0
    BY <1>4, DoneCases
  <2>2. CASE completed' = completed /\ (event'.act # "C" \/ event'.kind # "fs")
    <3>1. Longest(ppi', p, w) = OldLongest(p, w)
      BY <1>2, <1>4, <2>2 DEF WaitsMove
    <3> QED BY <2>1, <2>2, <3>1, OldIsLongest
  <2>3. ASSUME NEW r \in requests, r.kind = "fs", Complete(r)
        PROVE  IsLongest(Owned(completed', p, w), Longest(ppi', p, w))
    BY <1>2, <1>4, <2>1, <2>3, WaitsDone DEF WaitsMove, BookInv
  <2> QED BY <2>2, <2>3, DoneCases
<1> QED BY <1>3, <1>4 DEF LongestTrue, Longest

-----------------------------------------------------------------------------
(* What btt averages.                                                      *)

Shape(all) == all = [t \in Tasks \cup {All} |-> [of \in Averaged |-> all[t][of]]]

\* The totals of the device that bios which are done add to stay as they were.
Kept(new, all) ==
    /\ Shape(new)
    /\ new[All]["q2c"] = all[All]["q2c"] /\ new[All]["d2c"] = all[All]["d2c"]

ToDone == {"q2c", "d2c"}

LEMMA KeptUpdate ==
    ASSUME NEW all, Shape(all), NEW of \in Averaged \ ToDone, NEW task, NEW time
    PROVE  Kept(Update(all, of, task, time), all)
<1>1. PICK new : new = Update(all, of, task, time)
    OBVIOUS
<1>2. DOMAIN all = Tasks \cup {All} /\ All \in Tasks \cup {All}
    BY DEF Shape
<1>3. new = [t \in Tasks \cup {All} |->
                IF t \in {All, task} THEN [all[t] EXCEPT ![of] = Sampled(@, time)] ELSE all[t]]
    BY <1>1, <1>2 DEF Update
<1>4. \A t \in Tasks \cup {All} : /\ DOMAIN all[t] = Averaged
                                  /\ all[t] = [x \in Averaged |-> all[t][x]]
    BY DEF Shape
<1>5. \A t \in Tasks \cup {All} : new[t] = [x \in Averaged |-> new[t][x]]
    BY <1>3, <1>4
<1>6. Shape(new)
    BY <1>3, <1>5, Zenon DEF Shape
<1>7. \A x \in ToDone : new[All][x] = all[All][x]
    BY <1>2, <1>3, <1>4 DEF ToDone, Averaged
<1> QED BY <1>1, <1>6, <1>7 DEF Kept, ToDone

\* The total of the device that is added to, and nothing else of the device's.
Added(new, all, of, n, total) ==
    /\ Shape(new)
    /\ new[All][of] = [n |-> all[All][of].n + n, total |-> all[All][of].total + total]
    /\ \A x \in Averaged : x # of => new[All][x] = all[All][x]

\* update_*: the device's average grows by each bio found.
LEMMA UpdateAllAt ==
    ASSUME NEW all, Shape(all), NEW of \in Averaged, NEW found, NEW times
    PROVE  Added(UpdateAll(all, of, found, times), all, of, Cardinality(found),
                 Total([q \in found |-> times[q]]))
<1>1. PICK new : new = UpdateAll(all, of, found, times)
    OBVIOUS
<1>2. DOMAIN all = Tasks \cup {All} /\ All \in Tasks \cup {All}
    BY DEF Shape
<1> DEFINE mine(t) == {q \in found : t \in {All, q.pid}}
           sum(t) == [n |-> all[t][of].n + Cardinality(mine(t)),
                      total |-> all[t][of].total + Total([q \in mine(t) |-> times[q]])]
<1>4. \A t \in Tasks \cup {All} : /\ DOMAIN all[t] = Averaged
                                  /\ all[t] = [x \in Averaged |-> all[t][x]]
    BY DEF Shape
<1>3. new = [t \in Tasks \cup {All} |-> [all[t] EXCEPT ![of] = sum(t)]]
  <2>1. new = [t \in DOMAIN all |-> [all[t] EXCEPT ![of] = sum(t)]]
    BY <1>1, Zenon DEF UpdateAll
  <2> QED BY <1>2, <2>1
<1>s. PICK s : s = sum(All)
    OBVIOUS
<1>t. mine(All) = found
    OBVIOUS
<1>u. s = [n |-> all[All][of].n + Cardinality(found),
           total |-> all[All][of].total + Total([q \in found |-> times[q]])]
    BY <1>s, <1>t, Zenon
<1> HIDE DEF mine, sum
<1>5. \A t \in Tasks \cup {All} : new[t] = [x \in Averaged |-> new[t][x]]
    BY <1>3, <1>4
<1>6. Shape(new)
    BY <1>3, <1>5, Zenon DEF Shape
<1>7. new[All][of] = s /\ \A x \in Averaged : x # of => new[All][x] = all[All][x]
    BY <1>2, <1>3, <1>4, <1>s
<1>8. PICK total : total = Total([q \in found |-> times[q]])
    OBVIOUS
<1>9. Added(new, all, of, Cardinality(found), total)
    BY <1>6, <1>7, <1>8, <1>u DEF Added
<1> QED BY <1>1, <1>8, <1>9, Zenon

LEMMA KeptUpdateAll ==
    ASSUME NEW all, Shape(all), NEW of \in Averaged \ ToDone, NEW found, NEW times
    PROVE  Kept(UpdateAll(all, of, found, times), all)
<1>1. "q2c" \in Averaged /\ "d2c" \in Averaged /\ of # "q2c" /\ of # "d2c"
    BY DEF Averaged, ToDone
<1>2. of \in Averaged
    OBVIOUS
<1>3. PICK n, total : Added(UpdateAll(all, of, found, times), all, of, n, total)
    BY <1>2, UpdateAllAt, Zenon
<1> QED BY <1>1, <1>3 DEF Added, Kept

LEMMA KeptLastQ ==
    ASSUME NEW all, Shape(all), NEW task, NEW time
    PROVE  Kept(LastQ(all, task, time), all)
<1>1. PICK new : new = LastQ(all, task, time)
    OBVIOUS
<1>2. CASE new = all
    BY <1>1, <1>2 DEF Kept
<1>3. CASE new # all
  <2>1. PICK x : new = [all EXCEPT ![task]["q2q"] = x]
    BY <1>1, <1>3 DEF LastQ
  <2>2. DOMAIN all = Tasks \cup {All} /\ All \in Tasks \cup {All}
    BY DEF Shape
  <2>4. \A t \in Tasks \cup {All} : /\ DOMAIN all[t] = Averaged
                                    /\ all[t] = [y \in Averaged |-> all[t][y]]
    BY DEF Shape
  <2>3. new = [t \in Tasks \cup {All} |->
                  IF t = task THEN [all[t] EXCEPT !["q2q"] = x] ELSE all[t]]
    BY <2>1, <2>2
  <2>5. \A t \in Tasks \cup {All} : new[t] = [y \in Averaged |-> new[t][y]]
    BY <2>3, <2>4
  <2>6. Shape(new)
    BY <2>3, <2>5, Zenon DEF Shape
  <2>7. \A y \in ToDone : new[All][y] = all[All][y]
    BY <2>2, <2>3, <2>4 DEF ToDone, Averaged
  <2> QED BY <1>1, <2>6, <2>7 DEF Kept, ToDone
<1> QED BY <1>2, <1>3

LEMMA KeptTwice ==
    ASSUME NEW all, NEW one, NEW two, Kept(one, all), Kept(two, one)
    PROVE  Kept(two, all)
BY DEF Kept

\* Only what is done adds to those totals.
LEMMA AvgsKept ==
    ASSUME NEW e, Shape(avgs),
           BttQueue(e) \/ BttGetrq(e) \/ BttSleep(e) \/ BttInsert(e) \/ BttMerge(e)
             \/ BttIssue(e) \/ BttRequeue(e) \/ BttPlug(e) \/ BttLetGo(e)
    PROVE  Kept(avgs', avgs)
<1>a. \A x \in {"q2q", "q2g", "s2g", "g2i", "q2m", "i2d", "m2d", "q2d"} :
          x \in Averaged \ ToDone
    BY DEF Averaged, ToDone
<1>b. Kept(avgs, avgs)
    BY DEF Kept
<1>c. \A x : Kept(x, avgs) => Shape(x)
    BY DEF Kept
<1>1. CASE BttQueue(e)
  <2>1. PICK one : one = LastQ(avgs, All, e.time)
    OBVIOUS
  <2>2. PICK two : two = LastQ(one, e.pid, e.time)
    OBVIOUS
  <2>3. avgs' = avgs \/ avgs' = two
    BY <1>1, <2>1, <2>2 DEF BttQueue
  <2>4. Kept(one, avgs)
    BY <2>1, KeptLastQ
  <2>5. Kept(two, one)
    BY <2>2, <2>4, KeptLastQ DEF Kept
  <2> QED BY <1>b, <2>3, <2>4, <2>5, KeptTwice
<1>2. CASE BttGetrq(e)
  <2>1. PICK found, times, other, slept :
           avgs' = UpdateAll(UpdateAll(avgs, "q2g", found, times), "s2g", other, slept)
    BY <1>2 DEF BttGetrq
  <2>2. PICK one : one = UpdateAll(avgs, "q2g", found, times)
    OBVIOUS
  <2>3. Kept(one, avgs)
    BY <1>a, <2>2, KeptUpdateAll
  <2>4. avgs' = UpdateAll(one, "s2g", other, slept)
    BY <2>1, <2>2
  <2>5. Kept(avgs', one)
    BY <1>a, <1>c, <2>3, <2>4, KeptUpdateAll
  <2> QED BY <2>3, <2>5, KeptTwice
<1>3. CASE BttInsert(e) \/ BttMerge(e)
  <2>1. CASE BttInsert(e)
    <3>1. PICK found, times : avgs' = UpdateAll(avgs, "g2i", found, times)
      BY <2>1 DEF BttInsert
    <3> QED BY <1>a, <3>1, KeptUpdateAll
  <2>2. CASE BttMerge(e)
    <3>1. PICK found, times : avgs' = UpdateAll(avgs, "q2m", found, times)
      BY <2>2 DEF BttMerge
    <3> QED BY <1>a, <3>1, KeptUpdateAll
  <2> QED BY <1>3, <2>1, <2>2
<1>4. CASE BttIssue(e)
  <2>1. PICK f1, t1, f2, t2, f3, t3 :
           avgs' = UpdateAll(UpdateAll(UpdateAll(avgs, "i2d", f1, t1), "m2d", f2, t2),
                             "q2d", f3, t3)
    BY <1>4 DEF BttIssue
  <2>2. PICK one : one = UpdateAll(avgs, "i2d", f1, t1)
    OBVIOUS
  <2>3. PICK two : two = UpdateAll(one, "m2d", f2, t2)
    OBVIOUS
  <2>4. avgs' = UpdateAll(two, "q2d", f3, t3)
    BY <2>1, <2>2, <2>3
  <2>5. Kept(one, avgs)
    BY <1>a, <2>2, KeptUpdateAll
  <2>6. Kept(two, one)
    BY <1>a, <2>3, <2>5, KeptUpdateAll DEF Kept
  <2>7. Kept(avgs', two)
    BY <1>a, <2>4, <2>6, KeptUpdateAll DEF Kept
  <2> QED BY <2>5, <2>6, <2>7, KeptTwice
<1>5. CASE BttSleep(e) \/ BttRequeue(e) \/ BttPlug(e) \/ BttLetGo(e)
  <2>1. avgs' = avgs
    BY <1>5 DEF BttSleep, BttRequeue, BttPlug, BttLetGo
  <2> QED BY <1>b, <2>1
<1> QED BY <1>1, <1>2, <1>3, <1>4, <1>5

\* The totals of the device are those of the bios that are done.
TotalsTrue ==
    /\ Shape(avgs)
    /\ avgs[All]["q2c"] = [n |-> Cardinality(completed),
                           total |-> Total([b \in completed |-> b.c - b.q])]
    /\ avgs[All]["d2c"] = [n |-> Cardinality(completed),
                           total |-> Total([b \in completed |-> b.c - b.d])]

NewOf(r) == {DoneOf(r, b, now + 1) : b \in r.bios}

\* What btt measures of the bios of a request is what is put down of them.
Measured(r, all, m, h, g, old, next) ==
    /\ m \in [r.bios -> all] /\ h \in [r.bios -> Int] /\ g \in [all -> Int]
    /\ \A x, y \in r.bios : m[x] = m[y] => x = y
    /\ \A q \in all : \E b \in r.bios : m[b] = q
    /\ old \in [completed -> Int] /\ next \in [completed \cup NewOf(r) -> Int]
    /\ \A x \in completed : next[x] = old[x]
    /\ \A b \in r.bios : next[DoneOf(r, b, now + 1)] = h[b] /\ g[m[b]] = h[b]

LEMMA MeasuredTotal ==
    ASSUME BlockInv, NEW r \in requests, NEW all, NEW m, NEW h, NEW g, NEW old, NEW next,
           Measured(r, all, m, h, g, old, next)
    PROVE  Total(next) = Total(old) + Total(g)
<1> DEFINE new == NewOf(r)
           n == [b \in r.bios |-> DoneOf(r, b, now + 1)]
           k == [f \in new |-> next[f]]
<1>1. /\ n \in [r.bios -> new]
      /\ \A x, y \in r.bios : n[x] = n[y] => x = y
      /\ \A f \in new : \E b \in r.bios : n[b] = f
      /\ completed \cap new = {} /\ IsFiniteSet(r.bios)
    BY NewlyDone DEF NewOf
<1>2. k \in [new -> Int] /\ \A x \in new : next[x] = k[x]
    BY DEF Measured
<1>3. \A b \in r.bios : k[n[b]] = h[b]
    BY <1>1 DEF Measured
<1> HIDE DEF new, n, k
<1>4. /\ h \in [r.bios -> Int] /\ g \in [all -> Int] /\ m \in [r.bios -> all]
      /\ \A x, y \in r.bios : m[x] = m[y] => x = y
      /\ \A y \in all : \E x \in r.bios : m[x] = y
      /\ \A x \in r.bios : g[m[x]] = h[x]
    BY DEF Measured
<1>5. Total(g) = Total(h)
    BY <1>1, <1>4, TotalImage
<1>6. IsFiniteSet(new) /\ Total(k) = Total(h)
    BY <1>1, <1>2, <1>3, <1>4, TotalImage
<1>7. /\ old \in [completed -> Int] /\ next \in [completed \cup new -> Int]
      /\ \A x \in completed : next[x] = old[x]
    BY DEF Measured, new
<1>8. IsFiniteSet(completed)
    BY DEF BlockInv, BlockTypes
<1>9. Total(next) = Total(old) + Total(k)
  <2>1. /\ IsFiniteSet(completed) /\ old \in [completed -> Int]
        /\ IsFiniteSet(new) /\ k \in [new -> Int] /\ completed \cap new = {}
        /\ next \in [completed \cup new -> Int]
        /\ \A x \in completed : next[x] = old[x]
        /\ \A x \in new : next[x] = k[x]
    BY <1>1, <1>2, <1>6, <1>7, <1>8
  <2> QED BY ONLY <2>1, TotalUnion
<1> QED BY <1>5, <1>6, <1>9

\* How many are done.
LEMMA DoneCard ==
    ASSUME BlockInv, NEW r \in requests
    PROVE  /\ Cardinality(completed \cup NewOf(r)) = Cardinality(completed) + Cardinality(r.bios)
           /\ Cardinality(completed) \in Nat /\ Cardinality(r.bios) \in Nat
           /\ IsFiniteSet(r.bios)
<1> DEFINE new == NewOf(r)
           n == [b \in r.bios |-> DoneOf(r, b, now + 1)]
<1>1. /\ n \in [r.bios -> new]
      /\ \A x, y \in r.bios : n[x] = n[y] => x = y
      /\ \A f \in new : \E b \in r.bios : n[b] = f
      /\ completed \cap new = {} /\ IsFiniteSet(r.bios)
    BY NewlyDone DEF NewOf
<1> HIDE DEF n
<1>3. IsFiniteSet(new) /\ Cardinality(new) = Cardinality(r.bios)
  <2> HIDE DEF new
  <2> QED BY <1>1, SameCard
<1>4. IsFiniteSet(completed)
    BY DEF BlockInv, BlockTypes
<1> HIDE DEF new
<1>5. Cardinality(completed \cap new) = 0
    BY <1>1, FS_EmptySet
<1>6. Cardinality(completed \cup new) = Cardinality(completed) + Cardinality(new)
                                         - Cardinality(completed \cap new)
    BY <1>3, <1>4, FS_Union
<1>7. Cardinality(completed) \in Nat /\ Cardinality(new) \in Nat
    BY <1>3, <1>4, FS_CardinalityType
<1> QED BY <1>1, <1>3, <1>5, <1>6, <1>7 DEF new

Found(r) == {q \in qs : \E b \in r.bios : q.q = b.q}
QueueOf(done) == [b \in done |-> b.c - b.q]
IssueOf(done) == [b \in done |-> b.c - b.d]
FromQueue(all, time) == [q \in all |-> Tdelta(q.q, time)]
FromIssue(all, time) == [q \in all |-> Tdelta(q.d, time)]

\* What is measured, from queue and from issue.
LEMMA MeasuredQueue ==
    ASSUME BlockInv, BlockNext, KnownInv, KnowsAll, NEW r \in requests
    PROVE  Total(QueueOf(completed \cup NewOf(r)))
               = Total(QueueOf(completed)) + Total(FromQueue(Found(r), now + 1))
<1>a. PICK all : all = Found(r) /\ all = {q \in qs : \E b \in r.bios : q.q = b.q}
    BY DEF Found
<1>b. PICK g : g = FromQueue(Found(r), now + 1) /\ g = [q \in all |-> Tdelta(q.q, now + 1)]
    BY <1>a DEF FromQueue
<1>c. PICK old : old = QueueOf(completed) /\ old = [b \in completed |-> b.c - b.q]
    BY DEF QueueOf
<1>d. PICK next : /\ next = QueueOf(completed \cup NewOf(r))
                  /\ next = [b \in completed \cup NewOf(r) |-> b.c - b.q]
    BY DEF QueueOf
<1>1. PICK m \in [r.bios -> all] :
         /\ \A b \in r.bios : KnownAs(m[b], b)
         /\ \A x, y \in r.bios : m[x] = m[y] => x = y
         /\ \A q \in all : \E b \in r.bios : m[b] = q
    BY <1>a, FoundMap
<1>2. PICK h : h = [b \in r.bios |-> (now + 1) - b.q]
    OBVIOUS
<1>3. now \in Nat
    BY AgesKept
<1>4. /\ \A f \in completed : f.c \in Nat /\ f.q \in Nat
      /\ \A q \in all : q.q \in Nat
    BY <1>a DEF BlockInv, BlockTypes, Done, KnownInv, KnownBio
<1>5. \A b \in r.bios :
         /\ b.q \in Nat /\ b.q < now + 1
         /\ DoneOf(r, b, now + 1).q = b.q /\ DoneOf(r, b, now + 1).c = now + 1
         /\ DoneOf(r, b, now + 1) \in NewOf(r)
  <2> TAKE b \in r.bios
  <2>1. b.q \in Nat /\ b.q <= now /\ DoneOf(r, b, now + 1).q = b.q
        /\ DoneOf(r, b, now + 1).c = now + 1
    BY DoneOfType
  <2> QED BY <1>3, <2>1 DEF NewOf
<1>6. \A f \in NewOf(r) : f.c \in Nat /\ f.q \in Nat
  <2> TAKE f \in NewOf(r)
  <2>1. PICK b \in r.bios : f = DoneOf(r, b, now + 1)
    BY DEF NewOf
  <2> QED BY <1>3, <1>5, <2>1
<1>7. h \in [r.bios -> Int] /\ old \in [completed -> Int]
    BY <1>2, <1>3, <1>4, <1>5, <1>c
<1>8. next \in [completed \cup NewOf(r) -> Int] /\ \A x \in completed : next[x] = old[x]
  <2>1. \A f \in completed \cup NewOf(r) : f.c - f.q \in Int
    BY <1>4, <1>6
  <2> QED BY <2>1, <1>c, <1>d
<1>9. g \in [all -> Int]
  <2>1. \A q \in all : Tdelta(q.q, now + 1) \in Int
    <3> TAKE q \in all
    <3>1. q.q \in Int /\ now + 1 \in Int
      BY <1>3, <1>4
    <3> QED BY ONLY <3>1, TdeltaType
  <2> QED BY <1>b, <2>1
<1>10. \A b \in r.bios : g[m[b]] = h[b]
  <2> TAKE b \in r.bios
  <2>1. m[b].q = b.q /\ m[b] \in all
    BY <1>1 DEF KnownAs
  <2>2. Tdelta(b.q, now + 1) = (now + 1) - b.q
    BY <1>3, <1>5 DEF Tdelta
  <2> QED BY <1>2, <1>b, <2>1, <2>2
<1>11. \A b \in r.bios : next[DoneOf(r, b, now + 1)] = h[b]
    BY <1>2, <1>5, <1>d
<1>12. Measured(r, all, m, h, g, old, next)
    BY <1>1, <1>7, <1>8, <1>9, <1>10, <1>11 DEF Measured
<1> QED BY <1>12, <1>b, <1>c, <1>d, MeasuredTotal

LEMMA MeasuredIssue ==
    ASSUME BlockInv, BlockNext, KnownInv, KnowsAll, NEW r \in requests,
           \A q \in Found(r) : q.d = r.d
    PROVE  Total(IssueOf(completed \cup NewOf(r)))
               = Total(IssueOf(completed)) + Total(FromIssue(Found(r), now + 1))
<1>a. PICK all : all = Found(r) /\ all = {q \in qs : \E b \in r.bios : q.q = b.q}
    BY DEF Found
<1>b. PICK g : g = FromIssue(Found(r), now + 1) /\ g = [q \in all |-> Tdelta(q.d, now + 1)]
    BY <1>a DEF FromIssue
<1>c. PICK old : old = IssueOf(completed) /\ old = [b \in completed |-> b.c - b.d]
    BY DEF IssueOf
<1>d. PICK next : /\ next = IssueOf(completed \cup NewOf(r))
                  /\ next = [b \in completed \cup NewOf(r) |-> b.c - b.d]
    BY DEF IssueOf
<1>1. PICK m \in [r.bios -> all] :
         /\ \A b \in r.bios : KnownAs(m[b], b)
         /\ \A x, y \in r.bios : m[x] = m[y] => x = y
         /\ \A q \in all : \E b \in r.bios : m[b] = q
    BY <1>a, FoundMap
<1>2. PICK h : h = [b \in r.bios |-> (now + 1) - r.d]
    OBVIOUS
<1>3. now \in Nat
    BY AgesKept
<1>4. \A f \in completed : f.c \in Nat /\ f.d \in Nat
    BY DEF BlockInv, BlockTypes, Done
<1>5. \A b \in r.bios :
         /\ r.d \in Nat /\ r.d < now + 1
         /\ DoneOf(r, b, now + 1).d = r.d /\ DoneOf(r, b, now + 1).c = now + 1
         /\ DoneOf(r, b, now + 1) \in NewOf(r)
  <2> TAKE b \in r.bios
  <2>1. r.d \in Nat /\ r.d <= now /\ DoneOf(r, b, now + 1).d = r.d
        /\ DoneOf(r, b, now + 1).c = now + 1
    BY DoneOfType
  <2> QED BY <1>3, <2>1 DEF NewOf
<1>6. \A f \in NewOf(r) : f.c \in Nat /\ f.d \in Nat
  <2> TAKE f \in NewOf(r)
  <2>1. PICK b \in r.bios : f = DoneOf(r, b, now + 1)
    BY DEF NewOf
  <2> QED BY <1>3, <1>5, <2>1
<1>7. h \in [r.bios -> Int] /\ old \in [completed -> Int]
    BY <1>2, <1>3, <1>4, <1>5, <1>c
<1>8. next \in [completed \cup NewOf(r) -> Int] /\ \A x \in completed : next[x] = old[x]
  <2>1. \A f \in completed \cup NewOf(r) : f.c - f.d \in Int
    BY <1>4, <1>6
  <2> QED BY <2>1, <1>c, <1>d
<1>9. g \in [all -> Int]
  <2>1. \A q \in all : Tdelta(q.d, now + 1) \in Int
    <3> TAKE q \in all
    <3>1. q.d = r.d
      BY <1>a
    <3>2. r.d \in Int
      BY <1>1, <1>5
    <3>3. q.d \in Int /\ now + 1 \in Int
      BY <1>3, <3>1, <3>2
    <3> QED BY ONLY <3>3, TdeltaType
  <2> QED BY <1>b, <2>1
<1>10. \A b \in r.bios : g[m[b]] = h[b]
  <2> TAKE b \in r.bios
  <2>1. m[b].d = r.d /\ m[b] \in all
    BY <1>1, <1>a
  <2>2. Tdelta(r.d, now + 1) = (now + 1) - r.d
    BY <1>3, <1>5 DEF Tdelta
  <2> QED BY <1>2, <1>b, <2>1, <2>2
<1>11. \A b \in r.bios : next[DoneOf(r, b, now + 1)] = h[b]
    BY <1>2, <1>5, <1>d
<1>12. Measured(r, all, m, h, g, old, next)
    BY <1>1, <1>7, <1>8, <1>9, <1>10, <1>11 DEF Measured
<1> QED BY <1>12, <1>b, <1>c, <1>d, MeasuredTotal

\* The totals over the bios that are done grow by those of one request.
LEMMA TotalsDone ==
    ASSUME BlockInv, BlockNext, KnownInv, KnowsAll, ~overlapped, AddTrace(event'),
           TotalsTrue, NEW r \in requests, r.kind = "fs", Complete(r)
    PROVE  TotalsTrue'
<1>1. PICK all : all = {q \in qs : \E b \in r.bios : q.q = b.q}
    OBVIOUS
<1>2. /\ BttComplete(event') /\ FoundWithin(event') = {all}
      /\ \A q \in all : q.d = r.d /\ q.d # Never
    BY <1>1, CompleteFound
<1>3. completed' = completed \cup NewOf(r) /\ event'.time = now + 1
    BY CompleteIs, EventTimes DEF NewOf
<1>4. PICK gq : gq = [q \in all |-> Tdelta(q.q, now + 1)]
    OBVIOUS
<1>5. PICK gd : gd = [q \in all |-> Tdelta(q.d, now + 1)]
    OBVIOUS
<1>6. PICK one : one = Update(avgs, "blks", event'.pid, event'.len)
    OBVIOUS
<1>7. PICK two : two = UpdateAll(one, "q2c", all, gq)
    OBVIOUS
<1>8. avgs' = UpdateAll(two, "d2c", all, gd)
  <2>1. PICK found \in FoundWithin(event') :
           avgs' = UpdateAll(UpdateAll(one, "q2c", found,
                                       [q \in found |-> Tdelta(q.q, event'.time)]),
                             "d2c", {q \in found : q.d # Never},
                             [q \in found |-> Tdelta(q.d, event'.time)])
    BY <1>2, <1>6 DEF BttComplete
  <2>2. found = all
    BY <1>2
  <2>3. {q \in found : q.d # Never} = all
    BY <1>2, <2>2
  <2>4. [q \in found |-> Tdelta(q.q, event'.time)] = gq
        /\ [q \in found |-> Tdelta(q.d, event'.time)] = gd
    BY <1>3, <1>4, <1>5, <2>2, Zenon
  <2>5. UpdateAll(one, "q2c", found, [q \in found |-> Tdelta(q.q, event'.time)]) = two
    BY <1>7, <2>2, <2>4, Zenon
  <2> QED BY <2>1, <2>3, <2>4, <2>5, Zenon
<1>a. "q2c" \in Averaged /\ "d2c" \in Averaged /\ "blks" \in Averaged \ ToDone
    BY DEF Averaged, ToDone
<1>9. Kept(one, avgs)
    BY <1>a, <1>6, KeptUpdate DEF TotalsTrue
<1>10. [q \in all |-> gq[q]] = gq /\ [q \in all |-> gd[q]] = gd
    BY <1>4, <1>5
<1>11. Added(two, one, "q2c", Cardinality(all), Total(gq))
  <2>1. Added(two, one, "q2c", Cardinality(all), Total([q \in all |-> gq[q]]))
    BY <1>a, <1>7, <1>9, UpdateAllAt, Zenon DEF Kept
  <2> QED BY <1>10, <2>1, Zenon
<1>12. Added(avgs', two, "d2c", Cardinality(all), Total(gd))
  <2>1. Added(avgs', two, "d2c", Cardinality(all), Total([q \in all |-> gd[q]]))
    <3>1. Shape(two)
      BY <1>11 DEF Added
    <3> QED BY <1>a, <1>8, <3>1, UpdateAllAt, Zenon
  <2> QED BY <1>10, <2>1, Zenon
<1>13. PICK oldq : oldq = [b \in completed |-> b.c - b.q]
    OBVIOUS
<1>14. PICK oldd : oldd = [b \in completed |-> b.c - b.d]
    OBVIOUS
<1>15. PICK nextq : nextq = [b \in completed \cup NewOf(r) |-> b.c - b.q]
    OBVIOUS
<1>16. PICK nextd : nextd = [b \in completed \cup NewOf(r) |-> b.c - b.d]
    OBVIOUS
<1>17. Total(nextq) = Total(oldq) + Total(gq)
  <2>1. Found(r) = all /\ FromQueue(all, now + 1) = gq /\ QueueOf(completed) = oldq
        /\ QueueOf(completed \cup NewOf(r)) = nextq
    BY <1>1, <1>4, <1>13, <1>15 DEF Found, FromQueue, QueueOf
  <2> QED BY <2>1, MeasuredQueue
<1>18. Total(nextd) = Total(oldd) + Total(gd)
  <2>1. Found(r) = all /\ FromIssue(all, now + 1) = gd /\ IssueOf(completed) = oldd
        /\ IssueOf(completed \cup NewOf(r)) = nextd
    BY <1>1, <1>5, <1>14, <1>16 DEF Found, FromIssue, IssueOf
  <2>2. \A q \in Found(r) : q.d = r.d
    BY <1>2, <2>1
  <2> QED BY <2>1, <2>2, MeasuredIssue
<1>19. Cardinality(all) = Cardinality(r.bios)
  <2>1. \E m \in [r.bios -> all] :
           /\ \A x, y \in r.bios : m[x] = m[y] => x = y
           /\ \A q \in all : \E b \in r.bios : m[b] = q
    BY <1>1, FoundMap
  <2>2. IsFiniteSet(r.bios)
    BY DoneCard
  <2> QED BY <2>1, <2>2, SameCard
<1>20. Cardinality(completed \cup NewOf(r)) = Cardinality(completed) + Cardinality(all)
    BY <1>19, DoneCard
<1>21. /\ avgs[All]["q2c"] = [n |-> Cardinality(completed), total |-> Total(oldq)]
       /\ avgs[All]["d2c"] = [n |-> Cardinality(completed), total |-> Total(oldd)]
    BY <1>13, <1>14, Zenon DEF TotalsTrue
<1>22. avgs'[All]["q2c"] = [n |-> Cardinality(completed \cup NewOf(r)), total |-> Total(nextq)]
  <2>1. avgs'[All]["q2c"] = two[All]["q2c"]
    BY <1>a, <1>12 DEF Added
  <2> QED BY <1>9, <1>11, <1>17, <1>20, <1>21, <2>1 DEF Added, Kept
<1>23. avgs'[All]["d2c"] = [n |-> Cardinality(completed \cup NewOf(r)), total |-> Total(nextd)]
  <2>1. two[All]["d2c"] = one[All]["d2c"]
    BY <1>a, <1>11 DEF Added
  <2> QED BY <1>9, <1>12, <1>18, <1>20, <1>21, <2>1 DEF Added, Kept
<1>24. avgs'[All]["q2c"] = [n |-> Cardinality(completed'), total |->
                               Total([b \in completed' |-> b.c - b.q])]
    BY <1>3, <1>15, <1>22, Zenon
<1>25. avgs'[All]["d2c"] = [n |-> Cardinality(completed'), total |->
                               Total([b \in completed' |-> b.c - b.d])]
    BY <1>3, <1>16, <1>23, Zenon
<1>26. Shape(avgs')
    BY <1>12 DEF Added
<1> QED BY <1>24, <1>25, <1>26 DEF TotalsTrue

LEMMA TotalsSame ==
    ASSUME TotalsTrue, Kept(avgs', avgs), completed' = completed
    PROVE  TotalsTrue'
<1>1. PICK q2c : q2c = [n |-> Cardinality(completed),
                        total |-> Total([b \in completed |-> b.c - b.q])]
    OBVIOUS
<1>2. PICK d2c : d2c = [n |-> Cardinality(completed),
                        total |-> Total([b \in completed |-> b.c - b.d])]
    OBVIOUS
<1>3. /\ q2c = [n |-> Cardinality(completed'),
                total |-> Total([b \in completed' |-> b.c - b.q])]
      /\ d2c = [n |-> Cardinality(completed'),
                total |-> Total([b \in completed' |-> b.c - b.d])]
    BY <1>1, <1>2, Zenon
<1>4. avgs[All]["q2c"] = q2c /\ avgs[All]["d2c"] = d2c
    BY <1>1, <1>2, Zenon DEF TotalsTrue
<1>5. avgs'[All]["q2c"] = q2c /\ avgs'[All]["d2c"] = d2c /\ Shape(avgs')
    BY <1>4 DEF Kept
<1> QED BY <1>3, <1>5, Zenon DEF TotalsTrue

\* The totals of Q2C and D2C are those of the bios done after every event.
LEMMA TotalsStep ==
    ASSUME BlockInv, BlockNext, KnownInv, KnowsAll, ~overlapped', AddTrace(event'),
           TotalsTrue
    PROVE  TotalsTrue'
<1>a. ~overlapped
    BY OverlapKept
<1>b. Shape(avgs)
    BY DEF TotalsTrue
<1>1. CASE \E r \in requests : r.kind = "fs" /\ Complete(r)
    BY <1>a, <1>1, TotalsDone
<1>2. CASE ~\E r \in requests : r.kind = "fs" /\ Complete(r)
  <2>1. completed' = completed
    BY <1>2, DoneCases
  <2>2. \/ BttQueue(event') \/ BttGetrq(event') \/ BttSleep(event') \/ BttInsert(event')
        \/ BttMerge(event') \/ BttIssue(event') \/ BttRequeue(event') \/ BttPlug(event')
        \/ BttLetGo(event')
    BY <1>2, PlainCases
  <2>3. Kept(avgs', avgs)
    BY <1>b, <2>2, AvgsKept
  <2> QED BY <2>1, <2>3, TotalsSame
<1> QED BY <1>1, <1>2

LEMMA TotalsInit == AnalysisInit => TotalsTrue
<1> SUFFICES ASSUME AnalysisInit PROVE TotalsTrue
    OBVIOUS
<1>1. completed = {} /\ avgs = [t \in Tasks \cup {All} |-> [of \in Averaged |-> NoAvg]]
    BY DEF AnalysisInit, BlockInit, BttInit
<1>2. Shape(avgs) /\ All \in Tasks \cup {All} /\ "q2c" \in Averaged /\ "d2c" \in Averaged
    BY <1>1 DEF Shape, Averaged
<1>3. Cardinality(completed) = 0
    BY <1>1, FS_EmptySet
<1>4. PICK q : q = [b \in completed |-> b.c - b.q]
    OBVIOUS
<1>5. PICK d : d = [b \in completed |-> b.c - b.d]
    OBVIOUS
<1>6. q \in [{} -> Int] /\ d \in [{} -> Int]
    BY <1>1, <1>4, <1>5
<1>7. Total(q) = 0 /\ Total(d) = 0
    BY <1>6, TotalEmpty
<1>8. avgs[All]["q2c"] = [n |-> Cardinality(completed), total |-> Total(q)]
      /\ avgs[All]["d2c"] = [n |-> Cardinality(completed), total |-> Total(d)]
    BY <1>1, <1>2, <1>3, <1>7 DEF NoAvg
<1> QED BY <1>2, <1>4, <1>5, <1>8, Zenon DEF TotalsTrue

LEMMA DepthsHold ==
    ASSUME BlockInv, Plain => DepthInv
    PROVE  DepthsExact
<1>1. requests \subseteq Request
    BY DEF BlockInv, BlockTypes
<1>2. \A w \in Directions : {r \in Issued : r.w = w} = requests \cap OnIt(w)
    BY <1>1 DEF Issued, OnIt
<1>3. /\ NotIssued = requests \cap FsNotOnIt /\ FsRequests = requests \cap Fs
      /\ Issued \cap FsRequests = requests \cap FsOnIt
    BY <1>1 DEF NotIssued, FsRequests, Issued, FsNotOnIt, Fs, FsOnIt
<1>4. ASSUME Plain, NEW w \in Directions
      PROVE  /\ cur_depth[w] = Cardinality({r \in Issued : r.w = w})
             /\ cur_depth[w] <= max_depth[w]
  <2>1. cur_depth[w] = Cardinality(requests \cap OnIt(w)) /\ cur_depth[w] <= max_depth[w]
    BY <1>4 DEF DepthInv, DirDepths, Count
  <2> QED BY <1>2, <2>1
<1>5. ASSUME Plain
      PROVE  n_act_q = Cardinality(waiting) + Cardinality(NotIssued)
  <2>1. n_act_q = Cardinality(waiting) + Cardinality(requests \cap FsNotOnIt)
    BY <1>5 DEF DepthInv, QueueDepths, Count
  <2> QED BY <1>3, <2>1
<1>6. ASSUME Plain
      PROVE  na = Cardinality(Issued \cap FsRequests)
                     + (io_stats["requeue"][0].n + io_stats["requeue"][1].n)
  <2>1. PICK n : n = Cardinality(requests \cap FsOnIt)
    OBVIOUS
  <2>2. n = Cardinality(Issued \cap FsRequests) /\ n \in Nat
    BY <1>3, <2>1, CountType DEF Count
  <2>3. na = n + io_stats["requeue"][0].n + io_stats["requeue"][1].n
    BY <1>6, <2>1 DEF DepthInv, QueueDepths, Count, Requeued
  <2>4. PICK a \in Nat, b \in Nat : a = io_stats["requeue"][0].n
                                  /\ b = io_stats["requeue"][1].n
    BY <1>6 DEF DepthInv, DirDepths, Directions, Requeued
  <2>5. na = n + (a + b)
    BY <2>2, <2>3, <2>4
  <2> QED BY <2>2, <2>4, <2>5
<1>7. ASSUME Plain
      PROVE  LET merged == Cardinality(completed)
                              - Cardinality({b.request : b \in completed})
             IN /\ iostat.cur_qusz = Cardinality(FsRequests) - merged
                /\ iostat.cur_dev = na - merged
  <2>1. iostat.cur_qusz = Cardinality(requests \cap Fs) - Merged /\ iostat.cur_dev = na - Merged
    BY <1>7 DEF DepthInv, IoDepths, Count
  <2> QED BY <1>3, <2>1 DEF Merged, DoneRequests
<1> QED BY <1>4, <1>5, <1>6, <1>7 DEF DepthsExact
-----------------------------------------------------------------------------
\* Without commands there are as many tracks as requests.
LEMMA TracksCard ==
    ASSUME BlockInv, ~overlapped, TracksOK, TracksAre, commands = 0
    PROVE  Cardinality(tracks) = Cardinality(FsRequests)
<1>1. FsRequests \subseteq requests /\ IsFiniteSet(FsRequests)
    BY FS_Subset DEF FsRequests, BlockInv, BlockTypes
<1> DEFINE m == [r \in FsRequests |-> TheTrack(r.start)]
<1>2. m \in [FsRequests -> tracks]
    BY ItsTrack DEF FsRequests
<1>3. \A r \in FsRequests : m[r].sector = r.start
    BY ItsTrack DEF FsRequests, Its
<1>4. \A r, s \in FsRequests : m[r] = m[s] => r = s
  <2> TAKE r, s \in FsRequests
  <2>1. m[r].sector = r.start /\ m[s].sector = s.start
    BY <1>3
  <2>2. r.kind = "fs" /\ s.kind = "fs" /\ r \in requests /\ s \in requests
    BY DEF FsRequests
  <2> HIDE DEF m
  <2> QED BY <2>1, <2>2, StartsApart
<1>5. \A t \in tracks : \E r \in FsRequests : m[r] = t
  <2> TAKE t \in tracks
  <2>1. PICK r \in requests : r.kind = "fs" /\ Its(t, r)
    BY DEF TracksAre, TracksTrue
  <2>2. TheTrack(r.start) = t
    BY <2>1, TheTrackIs DEF Its
  <2> QED BY <2>1, <2>2 DEF FsRequests
<1> HIDE DEF m
<1> QED BY <1>1, <1>2, <1>4, <1>5, SameCard

\* No track and no io stays behind of what is over.
LEMMA NothingKeptHolds ==
    ASSUME BlockInv, TracksOK, Plain => TracksAre /\ KnowsAll
    PROVE  NothingKept
<1> SUFFICES ASSUME Plain
             PROVE  /\ {t.sector : t \in tracks} \ {0} = {r.start : r \in FsRequests} \ {0}
                    /\ NoCommand => Cardinality(tracks) = Cardinality(FsRequests)
                    /\ {<<q.sector, q.q>> : q \in qs} = {<<b.start, b.q>> : b \in InFlight}
    BY DEF NothingKept
<1>1. {t.sector : t \in tracks} \ {0} = {r.start : r \in FsRequests} \ {0}
  <2>1. \A t \in tracks : t.sector # 0 => \E r \in FsRequests : r.start = t.sector
    BY DEF TracksAre, TracksFor, FsRequests
  <2>2. \A r \in FsRequests : r.start # 0 => \E t \in tracks : t.sector = r.start
    BY DEF TracksAre, TracksFor, FsRequests
  <2> QED BY <2>1, <2>2
<1>2. NoCommand => Cardinality(tracks) = Cardinality(FsRequests)
    BY TracksCard DEF NoCommand, Plain
<1>3. {<<q.sector, q.q>> : q \in qs} = {<<b.start, b.q>> : b \in InFlight}
  <2>1. \A q \in qs : \E b \in InFlight : b.start = q.sector /\ b.q = q.q
    BY DEF KnowsAll, KnownAs
  <2>2. \A b \in InFlight : \E q \in qs : b.start = q.sector /\ b.q = q.q
    BY DEF KnowsAll, KnownAs
  <2> QED BY <2>1, <2>2
<1> QED BY <1>1, <1>2, <1>3
-----------------------------------------------------------------------------
\* What was issued is done or on the device.
Balanced ==
    \A w \in Directions :
        io_stats["issue"][w].len = io_stats["complete"][w].len + Lens(OnDevice(w))

LEMMA BalancedInit == AnalysisInit => Balanced
<1> SUFFICES ASSUME AnalysisInit, NEW w \in Directions
             PROVE  io_stats["issue"][w].len = io_stats["complete"][w].len + Lens(OnDevice(w))
    BY DEF Balanced
<1>1. io_stats = NoStats /\ requests = {}
    BY DEF AnalysisInit, BlockInit, IoTrackInit
<1>2. io_stats["issue"][w].len = 0 /\ io_stats["complete"][w].len = 0
    BY <1>1, NewInfo DEF Counted
<1>3. PICK S : S = OnDevice(w) /\ S = {}
    BY <1>1 DEF OnDevice
<1>4. PICK f : f = [r \in S |-> r.len]
    OBVIOUS
<1>5. Total(f) = 0
  <2>1. f \in [{} -> Int]
    BY <1>3, <1>4
  <2> QED BY <2>1, TotalEmpty
<1>6. Lens(S) = 0
    BY <1>4, <1>5, Zenon DEF Lens
<1> QED BY <1>2, <1>3, <1>6

\* What was issued is completed or on the device, overlapping or not.
LEMMA BalancedStep ==
    ASSUME BlockInv, BlockNext, BookInv, Counts(event'), Balanced
    PROVE  Balanced'
<1> SUFFICES ASSUME NEW w \in Directions
             PROVE  io_stats'["issue"][w].len
                       = io_stats'["complete"][w].len + Lens(OnDevice(w)')
    BY DEF Balanced, Lens
<1>1. PICK next, was : next = Lens(OnDevice(w)') /\ was = Lens(OnDevice(w))
    OBVIOUS
<1>2. was \in Int
    BY <1>1, LensSame
<1>3. PICK issue \in Int, complete \in Int :
         /\ issue = io_stats["issue"][w].len /\ complete = io_stats["complete"][w].len
    BY StatsValue DEF BookInv, SumsOK, Counted
<1>4. issue = complete + was
    BY <1>1, <1>3 DEF Balanced
<1>5. event'.len \in Nat
    BY EventTimes DEF Events
<1>6. PICK more \in Nat, less \in Nat : more = More(event', w) /\ less = Less(event', w)
    BY <1>5 DEF More, Less
<1>7. next = was + more - less
    BY <1>1, <1>6, LensStep
<1>8. PICK back \in Nat, done \in Nat :
         /\ back = IF event'.w = w /\ event'.kind = "fs" /\ event'.act = "R"
                   THEN event'.len ELSE 0
         /\ done = IF event'.w = w /\ event'.kind = "fs" /\ event'.act = "C"
                   THEN event'.len ELSE 0
    BY <1>5
<1>9. io_stats'["issue"][w].len = issue + more - back
    BY <1>3, <1>6, <1>8 DEF Counts, More
<1>10. io_stats'["complete"][w].len = complete + done
    BY <1>3, <1>8 DEF Counts
<1>11. less = back + done
    BY <1>5, <1>6, <1>8 DEF Less
<1>12. issue + more - back = (complete + done) + next
    BY <1>2, <1>3, <1>4, <1>6, <1>7, <1>8, <1>11
<1> QED BY <1>1, <1>9, <1>10, <1>12

-----------------------------------------------------------------------------
(* The invariant.                                                          *)

\* What holds while nothing is missing and nothing overlaps.
PlainInv ==
    /\ KnowsAll /\ Covered /\ DepthInv
    /\ TracksAre /\ ElapsedTrue
    /\ PidsKnown /\ LongestTrue /\ TotalsTrue

\* The invariant: what always holds, and what holds while nothing is missing.
AnalysisInv ==
    /\ BlockInv /\ KnownInv /\ RangesInv /\ BookInv /\ IoOK(iostat) /\ lost \in Nat
    /\ SpansCovered
    /\ lost = 0 => Balanced
    /\ Plain => PlainInv

LEMMA DepthInit == AnalysisInit => DepthInv
<1> SUFFICES ASSUME AnalysisInit PROVE DepthInv
    OBVIOUS
<1>1. /\ requests = {} /\ waiting = {} /\ completed = {} /\ n_act_q = 0 /\ na = 0
      /\ iostat.cur_qusz = 0 /\ iostat.cur_dev = 0 /\ io_stats = NoStats
      /\ cur_depth = [w \in Directions |-> 0] /\ max_depth = [w \in Directions |-> 0]
    BY DEF AnalysisInit, BlockInit, BttInit, IoTrackInit
<1>2. \A class : Count(class) = 0
  <2> TAKE class
  <2>1. requests \cap class = {}
    BY <1>1
  <2> QED BY <2>1, FS_EmptySet DEF Count
<1>3. Merged = 0 /\ Cardinality(waiting) = 0
  <2>1. DoneRequests = {}
    BY <1>1 DEF DoneRequests
  <2> QED BY <1>1, <2>1, FS_EmptySet DEF Merged
<1>4. \A w \in Directions : Requeued(w) = 0
    BY <1>1, NewInfo DEF Requeued, Counted
<1>5. DirDepths
    BY <1>1, <1>2, <1>4 DEF DirDepths
<1>6. QueueDepths
  <2>1. Requeued(0) = 0 /\ Requeued(1) = 0
    BY <1>4 DEF Directions
  <2> QED BY <1>1, <1>2, <1>3, <2>1 DEF QueueDepths
<1>7. IoDepths
    BY <1>1, <1>2, <1>3 DEF IoDepths
<1> QED BY <1>5, <1>6, <1>7 DEF DepthInv

LEMMA PlainInit == AnalysisInit => PlainInv
<1> SUFFICES ASSUME AnalysisInit PROVE PlainInv
    OBVIOUS
<1>1. /\ requests = {} /\ waiting = {} /\ completed = {} /\ lives = {} /\ tracks = {}
      /\ event.act = "none" /\ DOMAIN ppi = {}
    BY DEF AnalysisInit, BlockInit, BttInit, IoTrackInit
<1>2. Covered
    BY <1>1 DEF Covered
<1>3. TracksAre
    BY <1>1 DEF TracksAre, TracksFor, TracksTrue
<1>4. ElapsedTrue
    BY <1>1 DEF ElapsedTrue
<1>5. PidsKnown
    BY <1>1 DEF PidsKnown
<1>6. LongestTrue
    BY <1>1 DEF LongestTrue
<1> QED BY <1>2, <1>3, <1>4, <1>5, <1>6, KnowsInit, DepthInit, TotalsInit DEF PlainInv

\* The device is idle and nothing has been read.
LEMMA AnalysisInvInit == AnalysisInit => AnalysisInv
<1> SUFFICES ASSUME AnalysisInit PROVE AnalysisInv
    OBVIOUS
<1>1. BlockInv
    BY BlockInvInit DEF AnalysisInit
<1>2. lost \in Nat /\ SpansCovered
  <2>1. lost = 0 /\ spans = {} /\ lives = {}
    BY DEF AnalysisInit, BttInit
  <2> QED BY <2>1 DEF SpansCovered
<1> QED BY <1>1, <1>2, KnownInit, RangesInit, BookInit, IoInit, BalancedInit, PlainInit
        DEF AnalysisInv
-----------------------------------------------------------------------------
\* The event is read, or is missing.
LEMMA PlainInvStep ==
    ASSUME AnalysisInv, AnalysisNext, Plain'
    PROVE  PlainInv'
<1>1. Plain /\ BlockNext /\ DumpTrace(event') /\ AddTrace(event')
    BY PlainStep DEF AnalysisInv
<1>2. ~overlapped' /\ ~overlapped
    BY <1>1 DEF Plain
<1>3. /\ BlockInv /\ KnownInv /\ RangesInv /\ BookInv /\ IoOK(iostat) /\ TracksOK
      /\ KnowsAll /\ Covered /\ DepthInv /\ TracksAre /\ ElapsedTrue
      /\ PidsKnown /\ LongestTrue /\ TotalsTrue
    BY <1>1 DEF AnalysisInv, PlainInv, BookInv
<1>4. KnowsAll'
    BY <1>1, <1>2, <1>3, KnowsStep
<1>5. Covered'
    BY <1>1, <1>2, <1>3, CoveredStep
<1>6. DepthInv'
    BY <1>1, <1>2, <1>3, DepthStep
<1>7. TracksAre' /\ ElapsedTrue'
    BY <1>1, <1>2, <1>3, TracksStep
<1>8. LongestTrue' /\ PidsKnown'
    BY <1>1, <1>3, LongestStep
<1>9. TotalsTrue'
    BY <1>1, <1>2, <1>3, TotalsStep
<1> QED BY <1>4, <1>5, <1>6, <1>7, <1>8, <1>9 DEF PlainInv

\* Every event, read or missing, keeps the invariant.
LEMMA AnalysisInvStep ==
    ASSUME AnalysisInv, AnalysisNext
    PROVE  AnalysisInv'
<1>a. /\ BlockInv /\ KnownInv /\ RangesInv /\ BookInv /\ IoOK(iostat) /\ lost \in Nat
      /\ BlockNext /\ (Read \/ Missing)
    BY DEF AnalysisInv, AnalysisNext
<1>b. event' \in Events /\ event'.act # "none"
    BY <1>a, EventTimes
<1>1. BlockInv'
    BY <1>a, BlockInvStep
<1>2. KnownInv'
  <2>1. CASE Read
    BY <1>a, <2>1, KnownStep DEF Read
  <2>2. CASE Missing
    <3>1. qs' = qs /\ pre_culling' = pre_culling
      BY <2>2 DEF Missing, btt
    <3> QED BY <1>a, <3>1, KnownSame
  <2> QED BY <1>a, <2>1, <2>2
<1>3. RangesInv'
  <2>1. AddTrace(event') \/ UNCHANGED <<lives, qranges, cranges>>
    BY <1>a DEF Read, Missing, btt
  <2> QED BY <1>a, <2>1, RangesStep
<1>4. BookInv' /\ (Read => Counts(event'))
  <2>1. CASE Read
    BY <1>a, <1>b, <2>1, BookStep DEF Read
  <2>2. CASE Missing
    <3>1. UNCHANGED <<tracks, cur_depth, max_depth, io_stats, ppi>> /\ lost' # 0 /\ ~Read
      BY <1>a, <2>2 DEF Missing, Read, iotrack
    <3> QED BY <1>a, <3>1 DEF BookInv, TracksOK
  <2> QED BY <1>a, <2>1, <2>2
<1>5. IoOK(iostat')
  <2>1. CASE Read
    BY <1>a, <1>b, <2>1, IoStep DEF Read
  <2>2. CASE Missing
    BY <1>a, <2>2 DEF Missing, btt
  <2> QED BY <1>a, <2>1, <2>2
<1>6. lost' \in Nat /\ (lost' = 0 => lost = 0 /\ Read)
    BY <1>a DEF Read, Missing
<1>7. lost' = 0 => Balanced'
  <2> SUFFICES ASSUME lost' = 0 PROVE Balanced'
    OBVIOUS
  <2>1. Balanced /\ Counts(event')
    BY <1>4, <1>6 DEF AnalysisInv
  <2> QED BY <1>a, <2>1, BalancedStep
<1>8. Plain' => PlainInv'
    BY PlainInvStep
<1>9. SpansCovered'
  <2>1. \/ AddTrace(event') /\ spans' = spans \cup TakenOut
        \/ UNCHANGED <<lives, spans>>
    BY <1>a DEF Read, Missing, btt
  <2> QED BY <1>a, <2>1, SpansStep DEF AnalysisInv
<1> QED BY <1>1, <1>2, <1>3, <1>4, <1>5, <1>6, <1>7, <1>8, <1>9 DEF AnalysisInv

\* A stutter keeps the invariant.
LEMMA AnalysisInvSame ==
    ASSUME AnalysisInv, UNCHANGED analysisvars
    PROVE  AnalysisInv'
<1>b. /\ event' = event /\ waiting' = waiting /\ requests' = requests
      /\ plugged' = plugged /\ workload' = workload /\ commands' = commands
      /\ overlapped' = overlapped /\ completed' = completed /\ lost' = lost
      /\ spans' = spans
    BY DEF analysisvars, block
<1>t. /\ tracks' = tracks /\ cur_depth' = cur_depth /\ max_depth' = max_depth
      /\ io_stats' = io_stats /\ ppi' = ppi /\ elapsed' = elapsed
    BY DEF analysisvars, iotrack
<1>q. /\ pre_culling' = pre_culling /\ qs' = qs /\ n_act_q' = n_act_q /\ na' = na
      /\ iostat' = iostat /\ avgs' = avgs /\ lives' = lives
      /\ qranges' = qranges /\ cranges' = cranges
    BY DEF analysisvars, btt
<1>n. now' = now /\ InFlight' = InFlight /\ Plain' = Plain
    BY <1>b DEF now, InFlight, Plain
<1>1. BlockInv'
  <2>1. BlockTypes' = BlockTypes
    BY <1>b DEF BlockTypes
  <2>2. Ages' = Ages
    BY <1>b, <1>n DEF Ages
  <2>3. Separate' = Separate
    BY <1>b, <1>n DEF Separate
  <2>4. DoneOK' = DoneOK
    BY <1>b, <1>n DEF DoneOK
  <2>5. BusyOK' = BusyOK
    BY <1>b, <1>n DEF BusyOK
  <2>6. \A r \in requests' : RequestOK(r)
    BY <1>b DEF AnalysisInv, BlockInv
  <2> QED BY <2>1, <2>2, <2>3, <2>4, <2>5, <2>6 DEF AnalysisInv, BlockInv, RequestOK, Covers
<1>2. KnownInv'
    BY <1>q, <1>n DEF AnalysisInv, KnownInv
<1>3. RangesInv'
    BY <1>q, <1>n DEF AnalysisInv, RangesInv
<1>4. BookInv'
    BY <1>t DEF AnalysisInv, BookInv, TracksOK
<1>5. IoOK(iostat') /\ lost' \in Nat
    BY <1>b, <1>q DEF AnalysisInv
<1>6. lost' = 0 => Balanced'
  <2>1. \A w : OnDevice(w)' = OnDevice(w)
    BY <1>b DEF OnDevice
  <2> QED BY <1>b, <1>t, <2>1 DEF AnalysisInv, Balanced
<1>7. ASSUME Plain
      PROVE  PlainInv'
  <2>1. PlainInv
    BY <1>7 DEF AnalysisInv
  <2>2. KnowsAll'
    BY <1>b, <1>q, <1>n, <2>1 DEF PlainInv, KnowsAll
  <2>3. Covered'
    BY <1>b, <1>q, <2>1 DEF PlainInv, Covered
  <2>4. DepthInv'
    <3>1. \A class : Count(class)' = Count(class)
      BY <1>b DEF Count
    <3>2. Merged' = Merged
      BY <1>b, MergedSame
    <3>3. \A w : Requeued(w)' = Requeued(w)
      BY <1>t DEF Requeued
    <3>4. DirDepths' = DirDepths
      BY <1>t, <1>b DEF DirDepths, Count, Requeued
    <3>5. QueueDepths' = QueueDepths
      BY <1>t, <1>b, <1>q DEF QueueDepths, Count, Requeued
    <3>6. IoDepths' = IoDepths
      BY <1>b, <1>q, <3>2 DEF IoDepths, Count
    <3> QED BY <2>1, <3>4, <3>5, <3>6 DEF PlainInv, DepthInv
  <2>5. TracksAre'
    BY <1>b, <1>t, <2>1 DEF PlainInv, TracksAre, TracksFor, TracksTrue
  <2>6. ElapsedTrue'
    BY <1>b, <1>t, <1>n, <2>1 DEF PlainInv, ElapsedTrue
  <2>7. PidsKnown'
    BY <1>b, <1>t, <2>1 DEF PlainInv, PidsKnown
  <2>8. LongestTrue'
    BY <1>b, <1>t, <2>1 DEF PlainInv, LongestTrue
  <2>9. TotalsTrue'
    <3>1. Kept(avgs', avgs)
      BY <1>q, <2>1 DEF PlainInv, TotalsTrue, Kept
    <3> QED BY <1>b, <2>1, <3>1, TotalsSame DEF PlainInv
  <2> QED BY <2>2, <2>3, <2>4, <2>5, <2>6, <2>7, <2>8, <2>9 DEF PlainInv
<1>8. SpansCovered'
    BY <1>b, <1>q DEF AnalysisInv, SpansCovered
<1> QED BY <1>n, <1>1, <1>2, <1>3, <1>4, <1>5, <1>6, <1>7, <1>8 DEF AnalysisInv

\* Whatever the tasks do, and whatever is missing of the trace: what blkparse
\* (dump_trace, log_track_*, account_*) and btt (add_trace, iostat_*, aqd_*)
\* keep stays in step with the bios and requests of the block layer.
THEOREM AnalysisInvariant == AnalysisSpec => []AnalysisInv
<1>1. AnalysisInv /\ [AnalysisNext]_analysisvars => AnalysisInv'
    BY AnalysisInvStep, AnalysisInvSame
<1> QED BY AnalysisInvInit, <1>1, PTL DEF AnalysisSpec

LEMMA RangesHold == AnalysisInv => RangesTrue
<1> SUFFICES ASSUME AnalysisInv PROVE RangesTrue
    OBVIOUS
<1>1. \A a, b \in lives : a # b => a.end < b.start \/ b.end < a.start
    BY DEF AnalysisInv, RangesInv, LivesOK, Untouched
<1>2. Apart(qranges) /\ Apart(cranges)
    BY DEF AnalysisInv, RangesInv, RangesOK
<1>3. ASSUME Plain
      PROVE  UNION {r.start..r.end : r \in lives} = UNION {b.d..b.c : b \in completed}
  <2>1. Covered
    BY <1>3 DEF AnalysisInv, PlainInv
  <2>2. ASSUME NEW x
        PROVE  x \in UNION {r.start..r.end : r \in lives}
                  <=> x \in UNION {b.d..b.c : b \in completed}
    <3>1. x \in UNION {r.start..r.end : r \in lives} <=>
             x \in Int /\ \E r \in lives : x \in r.start..r.end
      OBVIOUS
    <3>2. x \in UNION {b.d..b.c : b \in completed} <=>
             x \in Int /\ \E b \in completed : x \in b.d..b.c
      OBVIOUS
    <3> QED BY <2>1, <3>1, <3>2 DEF Covered
  <2> QED BY <2>2
<1>4. UNION {r.start..r.end : r \in lives} = UNION {s[1]..s[2] : s \in spans}
  <2>1. SpansCovered
    BY DEF AnalysisInv
  <2>2. ASSUME NEW x
        PROVE  x \in UNION {r.start..r.end : r \in lives}
                  <=> x \in UNION {s[1]..s[2] : s \in spans}
    <3>1. x \in UNION {r.start..r.end : r \in lives} <=>
             x \in Int /\ \E r \in lives : x \in r.start..r.end
      OBVIOUS
    <3>2. x \in UNION {s[1]..s[2] : s \in spans} <=>
             x \in Int /\ \E s \in spans : x \in s[1]..s[2]
      OBVIOUS
    <3> QED BY <2>1, <3>1, <3>2 DEF SpansCovered
  <2> QED BY <2>2
<1> QED BY <1>1, <1>2, <1>3, <1>4 DEF RangesTrue

LEMMA BooksHold == AnalysisInv => BooksBalance
<1> SUFFICES ASSUME AnalysisInv PROVE BooksBalance
    OBVIOUS
<1>1. NothingKept
    BY NothingKeptHolds DEF AnalysisInv, BookInv, PlainInv
<1>2. Plus(iostat.printed, iostat.stats) = iostat.all
    BY DEF AnalysisInv, IoOK
<1>3. \A of \in Counted : \A w \in Directions :
         /\ io_stats[of][w].n = Total([p \in DOMAIN ppi |-> ppi[p].stats[of][w].n])
         /\ io_stats[of][w].len = Total([p \in DOMAIN ppi |-> ppi[p].stats[of][w].len])
    BY DEF AnalysisInv, BookInv, SumsOK
<1>4. ASSUME lost = 0, NEW w \in Directions
      PROVE  io_stats["issue"][w].len =
                io_stats["complete"][w].len
                  + Total([r \in {x \in FsRequests \cap Issued : x.w = w} |-> r.len])
  <2>1. io_stats["issue"][w].len = io_stats["complete"][w].len + Lens(OnDevice(w))
    BY <1>4 DEF AnalysisInv, Balanced
  <2>2. OnDevice(w) = {x \in FsRequests \cap Issued : x.w = w}
    BY DEF OnDevice, FsRequests, Issued
  <2> QED BY <2>1, <2>2, Zenon DEF Lens
<1> QED BY <1>1, <1>2, <1>3, <1>4 DEF BooksBalance, SumsAgree

LEMMA TimesHold == AnalysisInv => TimesTrue
<1> SUFFICES ASSUME AnalysisInv, Plain
             PROVE  /\ event.act = "C" /\ event.kind = "fs" /\ NoCommand =>
                          \E b \in completed : b.c = now /\ elapsed = b.c - b.d
                    /\ event.act \in {"I", "D"} /\ event.kind = "fs" /\ NoCommand =>
                          \E r \in FsRequests :
                              /\ r.start = event.sector
                              /\ elapsed = IF event.act = "I" THEN r.i - r.g ELSE r.d - r.i
                    /\ avgs[All]["q2c"] = [n |-> Cardinality(completed),
                                           total |-> Total([b \in completed |-> b.c - b.q])]
                    /\ avgs[All]["d2c"] = [n |-> Cardinality(completed),
                                           total |-> Total([b \in completed |-> b.c - b.d])]
                    /\ \A p \in DOMAIN ppi : NoCommand =>
                          \A w \in Directions :
                              LET mine == {b \in completed : b.owner = p /\ b.w = w}
                                  longest == ppi[p].waits["completion"][w]
                              IN IF mine = {} THEN longest = 0
                                 ELSE /\ \A b \in mine : b.c - b.d <= longest
                                      /\ \E b \in mine : b.c - b.d = longest
    BY DEF TimesTrue
<1>0. PlainInv
    BY DEF AnalysisInv
<1>1. event.act = "C" /\ event.kind = "fs" /\ NoCommand =>
         \E b \in completed : b.c = now /\ elapsed = b.c - b.d
    BY <1>0 DEF PlainInv, ElapsedTrue, NoCommand
<1>2. event.act \in {"I", "D"} /\ event.kind = "fs" /\ NoCommand =>
         \E r \in FsRequests :
             /\ r.start = event.sector
             /\ elapsed = IF event.act = "I" THEN r.i - r.g ELSE r.d - r.i
    BY <1>0 DEF PlainInv, ElapsedTrue, NoCommand, FsRequests
<1>3. /\ avgs[All]["q2c"] = [n |-> Cardinality(completed),
                             total |-> Total([b \in completed |-> b.c - b.q])]
      /\ avgs[All]["d2c"] = [n |-> Cardinality(completed),
                             total |-> Total([b \in completed |-> b.c - b.d])]
    BY <1>0, Zenon DEF PlainInv, TotalsTrue
<1>4. ASSUME NEW p \in DOMAIN ppi, NoCommand, NEW w \in Directions
      PROVE  LET mine == {b \in completed : b.owner = p /\ b.w = w}
                 longest == ppi[p].waits["completion"][w]
             IN IF mine = {} THEN longest = 0
                ELSE /\ \A b \in mine : b.c - b.d <= longest
                     /\ \E b \in mine : b.c - b.d = longest
  <2>1. IsLongest(Owned(completed, p, w), Longest(ppi, p, w))
    BY <1>0, <1>4 DEF PlainInv, LongestTrue, NoCommand
  <2> QED BY <2>1, Zenon DEF IsLongest, Owned, Longest
<1> QED BY <1>1, <1>2, <1>3, <1>4

LEMMA DepthsAreExact == AnalysisInv => DepthsExact
BY DepthsHold DEF AnalysisInv, PlainInv

\* blkparse's cur_depth and its maximum (dump_trace_fs), btt's n_act_q
\* (handle_queue, handle_m, handle_issue, handle_requeue), na of aqd.c, and
\* cur_qusz and cur_dev of iostat.c are what the requests and bios tell.
THEOREM DepthsAreTrue == AnalysisSpec => []DepthsExact
BY AnalysisInvariant, DepthsAreExact, PTL

\* The waits that log_track_insert, log_track_issue and log_track_complete
\* tell, the longest of each process, and btt's totals of Q2C and D2C are
\* true.
THEOREM TimesAreTrue == AnalysisSpec => []TimesTrue
BY AnalysisInvariant, TimesHold, PTL

\* The ranges of p_live.c, joined where they meet, and those of update_qregion
\* and update_cregion are apart, and p_live.c's cover the time from issue to
\* completion of each bio, and no other.
THEOREM RangesAreTrue == AnalysisSpec => []RangesTrue
BY AnalysisInvariant, RangesHold, PTL

\* No track and no io outlives its request or bio, the lines of iostat add up
\* to the whole, and the statistics of the processes to those of the device.
THEOREM BooksAreBalanced == AnalysisSpec => []BooksBalance
BY AnalysisInvariant, BooksHold, PTL
=============================================================================
