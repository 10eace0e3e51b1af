--------------------------- MODULE BlkiomonProofs ---------------------------
(***************************************************************************)
(* Proofs about Blkiomon, for any requests, devices, times and bounds: as  *)
(* long as malloc finds memory, no struct trace and no struct dstat is in  *)
(* two places, although the two threads hand them round and blkiomon       *)
(* updates a dstat outside the mutex; each C is paired with the D before   *)
(* it, and each pair is reported once.                                     *)
(***************************************************************************)
EXTENDS Blkiomon, SequenceTheorems, FiniteSetTheorems, WellFoundedInduction,
        TLAPS

-----------------------------------------------------------------------------
(* Sequences without repetition.                                           *)

LEMMA InjectiveConcat ==
    ASSUME NEW S, NEW u \in Seq(S), NEW v \in Seq(S)
    PROVE  IsInjective(u \o v) <=>
               IsInjective(u) /\ IsInjective(v) /\ Range(u) \cap Range(v) = {}
  <1> DEFINE w == u \o v
  <1>1. /\ w \in Seq(S) /\ Len(w) = Len(u) + Len(v)
        /\ \A i \in 1..Len(u) : w[i] = u[i]
        /\ \A j \in 1..Len(v) : w[Len(u) + j] = v[j]
    <2>1. /\ w \in Seq(S) /\ Len(w) = Len(u) + Len(v)
          /\ \A i \in 1..Len(u) + Len(v) :
                w[i] = IF i <= Len(u) THEN u[i] ELSE v[i - Len(u)]
      BY ConcatProperties
    <2>2. Len(u) \in Nat /\ Len(v) \in Nat
      OBVIOUS
    <2> HIDE DEF w
    <2>3. ASSUME NEW j \in 1..Len(v) PROVE w[Len(u) + j] = v[j]
      <3>1. Len(u) + j \in 1..Len(u) + Len(v) /\ ~(Len(u) + j <= Len(u))
            /\ (Len(u) + j) - Len(u) = j
        BY <2>2
      <3> QED BY <3>1, <2>1
    <2> QED BY <2>1, <2>2, <2>3
  <1>2. /\ DOMAIN u = 1..Len(u) /\ DOMAIN v = 1..Len(v)
        /\ DOMAIN w = 1..Len(u) + Len(v)
        /\ Len(u) \in Nat /\ Len(v) \in Nat
    BY <1>1
  <1> HIDE DEF w
  <1>3. ASSUME IsInjective(w)
        PROVE  IsInjective(u) /\ IsInjective(v) /\ Range(u) \cap Range(v) = {}
    <2>1. IsInjective(u)
      BY <1>1, <1>2, <1>3 DEF IsInjective
    <2>2. IsInjective(v)
      <3> SUFFICES ASSUME NEW i \in 1..Len(v), NEW j \in 1..Len(v), v[i] = v[j]
                   PROVE  i = j
        BY <1>2 DEF IsInjective
      <3>1. Len(u) + i \in DOMAIN w /\ Len(u) + j \in DOMAIN w
        BY <1>2
      <3>2. w[Len(u) + i] = w[Len(u) + j]
        BY <1>1
      <3>3. Len(u) + i = Len(u) + j
        BY <1>3, <3>1, <3>2 DEF IsInjective
      <3> QED BY <1>2, <3>3
    <2>3. ASSUME NEW i \in 1..Len(u), NEW j \in 1..Len(v), u[i] = v[j]
          PROVE  FALSE
      <3>1. i \in DOMAIN w /\ Len(u) + j \in DOMAIN w /\ i # Len(u) + j
        BY <1>2
      <3>2. w[i] = w[Len(u) + j]
        BY <1>1, <2>3
      <3> QED BY <1>3, <3>1, <3>2 DEF IsInjective
    <2> QED BY <1>2, <2>1, <2>2, <2>3 DEF Range
  <1>4. ASSUME IsInjective(u), IsInjective(v), Range(u) \cap Range(v) = {}
        PROVE  IsInjective(w)
    <2> SUFFICES ASSUME NEW i \in DOMAIN w, NEW j \in DOMAIN w, w[i] = w[j]
                 PROVE  i = j
      BY DEF IsInjective
    <2>1. ASSUME NEW k \in DOMAIN w
          PROVE  \/ k \in 1..Len(u) /\ w[k] = u[k]
                 \/ k - Len(u) \in 1..Len(v) /\ w[k] = v[k - Len(u)]
      <3>1. CASE k <= Len(u)
        BY <1>1, <1>2, <3>1
      <3>2. CASE ~(k <= Len(u))
        <4>1. k - Len(u) \in 1..Len(v) /\ Len(u) + (k - Len(u)) = k
          BY <1>2, <3>2
        <4> QED BY <1>1, <4>1
      <3> QED BY <3>1, <3>2
    <2>2. CASE i \in 1..Len(u) /\ w[i] = u[i]
      <3>1. w[i] \in Range(u)
        BY <2>2, <1>2 DEF Range
      <3>2. ~ (j - Len(u) \in 1..Len(v) /\ w[j] = v[j - Len(u)])
        BY <3>1, <1>2, <1>4 DEF Range
      <3>3. j \in 1..Len(u) /\ w[j] = u[j]
        BY <3>2, <2>1
      <3> QED BY <2>2, <3>3, <1>2, <1>4 DEF IsInjective
    <2>3. CASE i - Len(u) \in 1..Len(v) /\ w[i] = v[i - Len(u)]
      <3>1. w[i] \in Range(v)
        BY <2>3, <1>2 DEF Range
      <3>2. ~ (j \in 1..Len(u) /\ w[j] = u[j])
        BY <3>1, <1>2, <1>4 DEF Range
      <3>3. j - Len(u) \in 1..Len(v) /\ w[j] = v[j - Len(u)]
        BY <3>2, <2>1
      <3>4. i - Len(u) = j - Len(u)
        BY <2>3, <3>3, <1>2, <1>4 DEF IsInjective
      <3> QED BY <1>2, <3>4
    <2> QED BY <2>1, <2>2, <2>3
  <1> QED BY <1>3, <1>4 DEF w

LEMMA OneElement ==
    ASSUME NEW S, NEW x \in S
    PROVE  <<x>> \in Seq(S) /\ Range(<<x>>) = {x} /\ IsInjective(<<x>>)
  BY DEF Range, IsInjective

\* A new head.
LEMMA ConsProperties ==
    ASSUME NEW S, NEW x \in S, NEW u \in Seq(S)
    PROVE  /\ <<x>> \o u \in Seq(S)
           /\ Len(<<x>> \o u) = Len(u) + 1
           /\ Range(<<x>> \o u) = {x} \cup Range(u)
           /\ IsInjective(<<x>> \o u) <=> IsInjective(u) /\ x \notin Range(u)
  <1>1. <<x>> \in Seq(S) /\ Range(<<x>>) = {x} /\ IsInjective(<<x>>)
    BY OneElement
  <1> DEFINE one == <<x>>
  <1>2. one \in Seq(S) /\ Range(one) = {x} /\ IsInjective(one) /\ Len(one) = 1
    BY <1>1
  <1>3. Len(u) \in Nat
    OBVIOUS
  <1> HIDE DEF one
  <1>4. one \o u \in Seq(S) /\ Len(one \o u) = Len(u) + 1
    <2>1. one \o u \in Seq(S) /\ Len(one \o u) = Len(one) + Len(u)
      BY <1>2, ConcatProperties
    <2> QED BY <1>2, <1>3, <2>1
  <1>5. Range(one \o u) = {x} \cup Range(u)
    BY <1>2, RangeConcatenation
  <1>6. IsInjective(one \o u) <=> IsInjective(u) /\ {x} \cap Range(u) = {}
    BY <1>2, InjectiveConcat
  <1> QED BY <1>4, <1>5, <1>6 DEF one

\* The head is taken off.
LEMMA TailProperties ==
    ASSUME NEW S, NEW u \in Seq(S), u # <<>>
    PROVE  /\ Head(u) \in S /\ Tail(u) \in Seq(S) /\ Len(Tail(u)) = Len(u) - 1
           /\ Range(u) = {Head(u)} \cup Range(Tail(u))
           /\ IsInjective(u) => Head(u) \notin Range(Tail(u)) /\ IsInjective(Tail(u))
  <1>1. Head(u) \in S /\ Tail(u) \in Seq(S) /\ Len(Tail(u)) = Len(u) - 1
    BY HeadTailProperties
  <1>2. u = <<Head(u)>> \o Tail(u)
    <2>1. <<Head(u)>> \in Seq(S) /\ Len(<<Head(u)>>) = 1 /\ Len(u) \in Nat \ {0}
      BY <1>1
    <2> DEFINE w == <<Head(u)>> \o Tail(u)
    <2>2. /\ w \in Seq(S) /\ Len(w) = Len(u)
          /\ \A i \in 1..Len(u) :
                w[i] = IF i <= 1 THEN <<Head(u)>>[i] ELSE Tail(u)[i - 1]
      BY <1>1, <2>1, ConcatProperties
    <2> HIDE DEF w
    <2>3. ASSUME NEW i \in 1..Len(u) PROVE w[i] = u[i]
      <3>1. CASE i = 1
        BY <2>1, <2>2, <3>1
      <3>2. CASE i # 1
        <4>1. i - 1 \in 1..Len(Tail(u)) /\ (i - 1) + 1 = i /\ ~(i <= 1)
          BY <1>1, <2>1, <3>2
        <4>2. Tail(u)[i - 1] = u[i]
          BY <4>1, HeadTailProperties
        <4> QED BY <2>2, <4>1, <4>2
      <3> QED BY <3>1, <3>2
    <2>4. w = u
      BY <2>2, <2>3, SeqEqual
    <2> QED BY <2>4 DEF w
  <1> DEFINE h == Head(u)
             v == Tail(u)
  <1>3. h \in S /\ v \in Seq(S) /\ u = <<h>> \o v
    BY <1>1, <1>2
  <1> HIDE DEF h, v
  <1>4. /\ Range(u) = {h} \cup Range(v)
        /\ IsInjective(u) <=> IsInjective(v) /\ h \notin Range(v)
    BY <1>3, ConsProperties
  <1> QED BY <1>1, <1>4 DEF h, v
-----------------------------------------------------------------------------
(* Traces.                                                                 *)

\* malloc finds memory whenever blkiomon needs some.
MemoryLeft ==
    /\ vacant_traces = <<>> => \E x \in Traces : x \notin TracesInUse
    /\ gpc = "get" /\ vacant_dstats = <<>>
          => \E d \in Dstats : d \notin DstatsInUse

TraceInv ==
    /\ DOMAIN bit = Traces /\ t \in Traces /\ thash \subseteq Traces
    /\ vacant_traces \in Seq(Traces)
    /\ TracesOwned

LEMMA InitTraceInv == Init /\ MemoryLeft => TraceInv
  <1> SUFFICES ASSUME Init, MemoryLeft PROVE TraceInv
    OBVIOUS
  <1>1. /\ thash = {} /\ vacant_traces = <<>> /\ bit = [x \in Traces |-> NoBit]
        /\ t = CHOOSE x \in Traces : TRUE
    BY DEF Init
  <1>2. t \in Traces
    BY <1>1 DEF MemoryLeft
  <1>3. Range(vacant_traces) = {} /\ Len(vacant_traces) = 0
        /\ IsInjective(vacant_traces) /\ vacant_traces \in Seq(Traces)
    BY <1>1 DEF Range, IsInjective
  <1> QED
    BY <1>1, <1>2, <1>3, BlkiomonAssumption DEF TraceInv, TracesOwned

\* The trace that StoreTrace goes on with is in no other place.
LEMMA AllocTraceFresh ==
    ASSUME TraceInv, MemoryLeft, AllocTrace
    PROVE  /\ t' \in Traces /\ t' # t /\ t' \notin thash
           /\ vacant_traces' \in Seq(Traces) /\ IsInjective(vacant_traces')
           /\ Len(vacant_traces') <= MaxVacant
           /\ Range(vacant_traces') \subseteq Range(vacant_traces) \ {t'}
  <1>1. CASE vacant_traces # <<>>
    <2>1. t' = Head(vacant_traces) /\ vacant_traces' = Tail(vacant_traces)
      BY <1>1 DEF AllocTrace
    <2>2. /\ t' \in Traces /\ vacant_traces' \in Seq(Traces)
          /\ Len(vacant_traces') = Len(vacant_traces) - 1
          /\ Range(vacant_traces) = {t'} \cup Range(vacant_traces')
          /\ t' \notin Range(vacant_traces') /\ IsInjective(vacant_traces')
      BY <1>1, <2>1, TailProperties DEF TraceInv, TracesOwned
    <2>3. Len(vacant_traces) \in Nat /\ MaxVacant \in Nat
      BY BlkiomonAssumption DEF TraceInv
    <2> QED BY <2>2, <2>3 DEF TraceInv, TracesOwned
  <1>2. CASE vacant_traces = <<>>
    <2>1. t' = Fresh(Traces, TracesInUse) /\ vacant_traces' = vacant_traces
      BY <1>2 DEF AllocTrace
    <2>2. t' \in Traces /\ t' \notin TracesInUse
      BY <1>2, <2>1 DEF MemoryLeft, Fresh
    <2> QED BY <2>1, <2>2 DEF TracesInUse, TraceInv, TracesOwned
  <1> QED BY <1>1, <1>2

LEMMA NextTraceInv == TraceInv /\ MemoryLeft /\ [Next]_vars => TraceInv'
  <1> SUFFICES ASSUME TraceInv, MemoryLeft, [Next]_vars PROVE TraceInv'
    OBVIOUS
  <1>1. ASSUME NEW b \in Bits, StoreTrace(b) PROVE TraceInv'
    <2>1. /\ Stored(b.req) = {} /\ thash' = thash \cup {t} /\ AllocTrace
          /\ bit' = [bit EXCEPT ![t] = b, ![t'] = NoBit]
      BY <1>1 DEF StoreTrace
    <2>2. /\ t' \in Traces /\ t' # t /\ t' \notin thash
          /\ vacant_traces' \in Seq(Traces) /\ IsInjective(vacant_traces')
          /\ Len(vacant_traces') <= MaxVacant
          /\ Range(vacant_traces') \subseteq Range(vacant_traces) \ {t'}
      BY <2>1, AllocTraceFresh
    <2>3. /\ DOMAIN bit' = Traces /\ bit'[t] = b
          /\ \A x \in thash : bit'[x] = bit[x] /\ bit[x].req # b.req
      BY <2>1, <2>2 DEF TraceInv, TracesOwned, Stored
    <2> QED BY <2>1, <2>2, <2>3 DEF TraceInv, TracesOwned
  <1>2. ASSUME NEW b \in Bits, MatchTrace(b) PROVE TraceInv'
    <2>1. PICK x \in Stored(b.req) : thash' = thash \ {x} /\ FreeTrace(x)
      BY <1>2 DEF MatchTrace
    <2>2. x \in thash /\ x \in Traces /\ x # t /\ x \notin Range(vacant_traces)
      BY <2>1 DEF Stored, TraceInv, TracesOwned
    <2>3. t' = t /\ bit' = [bit EXCEPT ![t] = b]
      BY <1>2 DEF MatchTrace
    <2>4. /\ vacant_traces' \in Seq(Traces) /\ IsInjective(vacant_traces')
          /\ Len(vacant_traces') <= MaxVacant
          /\ Range(vacant_traces') \subseteq {x} \cup Range(vacant_traces)
      <3>1. CASE Len(vacant_traces) < MaxVacant
        <4>1. vacant_traces' = <<x>> \o vacant_traces
          BY <2>1, <3>1 DEF FreeTrace
        <4>2. vacant_traces \in Seq(Traces) /\ IsInjective(vacant_traces)
              /\ Len(vacant_traces) \in Nat /\ MaxVacant \in Nat
          BY BlkiomonAssumption DEF TraceInv, TracesOwned
        <4>3. /\ vacant_traces' \in Seq(Traces)
              /\ Len(vacant_traces') = Len(vacant_traces) + 1
              /\ Range(vacant_traces') = {x} \cup Range(vacant_traces)
              /\ IsInjective(vacant_traces')
          BY <2>2, <4>1, <4>2, ConsProperties
        <4> QED BY <3>1, <4>2, <4>3
      <3>2. CASE ~(Len(vacant_traces) < MaxVacant)
        BY <2>1, <3>2 DEF FreeTrace, TraceInv, TracesOwned
      <3> QED BY <3>1, <3>2
    <2> QED BY <2>1, <2>2, <2>3, <2>4 DEF TraceInv, TracesOwned
  <1>3. ASSUME NEW b \in Bits, MismatchTrace(b) PROVE TraceInv'
    <2>1. PICK x \in Stored(b.req) :
              \/ thash' = (thash \ {x}) \cup {t} /\ t' = x
              \/ UNCHANGED <<thash, t>>
      BY <1>3 DEF MismatchTrace
    <2>2. x \in thash /\ bit[x].req = b.req /\ x # t
      BY <2>1 DEF Stored, TraceInv, TracesOwned
    <2>3. bit' = [bit EXCEPT ![t] = b] /\ vacant_traces' = vacant_traces
      BY <1>3 DEF MismatchTrace
    <2>4. DOMAIN bit' = Traces /\ bit'[t] = b /\ \A y \in thash : bit'[y] = bit[y]
      BY <2>3 DEF TraceInv, TracesOwned
    <2> QED BY <2>1, <2>2, <2>3, <2>4 DEF TraceInv, TracesOwned
  <1>4. ASSUME UNCHANGED gvars PROVE TraceInv'
    BY <1>4 DEF gvars, TraceInv, TracesOwned
  <1> QED
    BY <1>1, <1>2, <1>3, <1>4 DEF Next, Gather, Interval, GetDstat,
       AccountMinmax, AccountHist, Exit, SwapTrees, TakeList, PrintStat, Recycle,
       vars
-----------------------------------------------------------------------------
(* Statistics.                                                             *)

\* Every sequence of statistics is without repetition, and no two share one.
DstatsApart ==
    /\ IsInjective(dstat_list[0]) /\ IsInjective(dstat_list[1])
    /\ IsInjective(vacant_dstats) /\ IsInjective(out)
    /\ Range(dstat_list[0]) \cap Range(dstat_list[1]) = {}
    /\ Range(dstat_list[0]) \cap Range(vacant_dstats) = {}
    /\ Range(dstat_list[1]) \cap Range(vacant_dstats) = {}
    /\ Range(dstat_list[0]) \cap Range(out) = {}
    /\ Range(dstat_list[1]) \cap Range(out) = {}
    /\ Range(vacant_dstats) \cap Range(out) = {}

DstatTypes ==
    /\ dstat_curr \in 0..1 /\ finished \in 0..1
    /\ dstat_list \in [0..1 -> Seq(Dstats)] /\ DOMAIN dstat_tree = 0..1
    /\ vacant_dstats \in Seq(Dstats) /\ out \in Seq(Dstats)
    /\ DOMAIN stat = Dstats
    /\ \A d \in Dstats : DOMAIN stat[d] = {"device", "minmax", "hist"}

OneOfDevice ==
    \A n \in 0..1 : \A d, e \in dstat_tree[n] :
        stat[d].device = stat[e].device => d = e

TreesAreLists == \A n \in 0..1 : Range(dstat_list[n]) = dstat_tree[n]

DstatInv == DstatTypes /\ DstatsApart /\ TreesAreLists /\ OneOfDevice

LEMMA ApartIsInjective ==
    ASSUME DstatTypes
    PROVE  IsInjective(dstat_list[0] \o dstat_list[1] \o vacant_dstats \o out)
               <=> DstatsApart
  <1> DEFINE u == dstat_list[0]
             v == dstat_list[1]
  <1>1. /\ u \in Seq(Dstats) /\ v \in Seq(Dstats)
        /\ vacant_dstats \in Seq(Dstats) /\ out \in Seq(Dstats)
    BY DEF DstatTypes
  <1> HIDE DEF u, v
  <1> DEFINE w == u \o v
             x == w \o vacant_dstats
  <1>2. /\ w \in Seq(Dstats) /\ Range(w) = Range(u) \cup Range(v)
        /\ IsInjective(w) <=> /\ IsInjective(u) /\ IsInjective(v)
                              /\ Range(u) \cap Range(v) = {}
    BY <1>1, ConcatProperties, RangeConcatenation, InjectiveConcat
  <1> HIDE DEF w
  <1>3. /\ x \in Seq(Dstats) /\ Range(x) = Range(w) \cup Range(vacant_dstats)
        /\ IsInjective(x) <=> /\ IsInjective(w) /\ IsInjective(vacant_dstats)
                              /\ Range(w) \cap Range(vacant_dstats) = {}
    BY <1>1, <1>2, ConcatProperties, RangeConcatenation, InjectiveConcat
  <1> HIDE DEF x
  <1>4. IsInjective(x \o out) <=> /\ IsInjective(x) /\ IsInjective(out)
                                  /\ Range(x) \cap Range(out) = {}
    BY <1>1, <1>3, InjectiveConcat
  <1>5. IsInjective(x \o out) <=> DstatsApart
    BY <1>2, <1>3, <1>4 DEF DstatsApart, u, v
  <1> QED
    BY <1>5 DEF x, w, u, v

LEMMA InitDstatInv == Init => DstatInv
  <1> SUFFICES ASSUME Init PROVE DstatInv
    OBVIOUS
  <1>1. <<>> \in Seq(Dstats) /\ Range(<<>>) = {} /\ IsInjective(<<>>)
    BY DEF Range, IsInjective
  <1>2. DstatTypes
    BY <1>1 DEF Init, DstatTypes, Empty
  <1> QED
    BY <1>1, <1>2 DEF Init, DstatInv, DstatsApart, TreesAreLists, OneOfDevice

\* A statistic that is not there yet is taken from the vacant ones, or from
\* memory, to the head of the current list.
LEMMA GetDstatInv ==
    ASSUME DstatInv, MemoryLeft, GetDstat
    PROVE  DstatInv'
  <1> DEFINE dev == Device[reads[pairs[pair].d].req]
             there == {d \in dstat_tree[dstat_curr] : stat[d].device = dev}
             new == IF vacant_dstats # <<>> THEN Head(vacant_dstats)
                    ELSE Fresh(Dstats, DstatsInUse)
             c == dstat_curr
  <1>1. CASE there # {}
    BY <1>1 DEF GetDstat, trees, ivars, DstatInv, DstatTypes, DstatsApart,
       TreesAreLists, OneOfDevice
  <1>2. CASE there = {}
    <2>1. /\ vacant_dstats' = IF vacant_dstats = <<>> THEN <<>>
                              ELSE Tail(vacant_dstats)
          /\ stat' = [stat EXCEPT ![new] = Empty(dev)]
          /\ dstat_tree' = [dstat_tree EXCEPT ![c] = @ \cup {new}]
          /\ dstat_list' = [dstat_list EXCEPT ![c] = <<new>> \o @]
          /\ UNCHANGED <<dstat_curr, finished, out>>
          /\ gpc = "get"
      BY <1>2 DEF GetDstat, ivars
    <2>2. /\ new \in Dstats /\ vacant_dstats' \in Seq(Dstats)
          /\ new \notin Range(dstat_list[0]) \cup Range(dstat_list[1])
                        \cup Range(vacant_dstats') \cup Range(out)
          /\ IsInjective(vacant_dstats')
          /\ Range(vacant_dstats') \subseteq Range(vacant_dstats)
      <3>1. CASE vacant_dstats # <<>>
        <4>1. /\ new \in Dstats /\ vacant_dstats' \in Seq(Dstats)
              /\ Range(vacant_dstats) = {new} \cup Range(vacant_dstats')
              /\ new \notin Range(vacant_dstats') /\ IsInjective(vacant_dstats')
          BY <2>1, <3>1, TailProperties DEF DstatInv, DstatTypes, DstatsApart
        <4> QED BY <4>1 DEF DstatInv, DstatsApart
      <3>2. CASE vacant_dstats = <<>>
        <4>1. new \in Dstats /\ new \notin DstatsInUse
          BY <2>1, <3>2 DEF MemoryLeft, Fresh
        <4> QED BY <2>1, <3>2, <4>1 DEF DstatsInUse, DstatInv, DstatTypes, DstatsApart
      <3> QED BY <3>1, <3>2
    <2>3. ASSUME NEW d \in there PROVE FALSE
      BY <1>2, <2>3
    <2> HIDE DEF new, there, dev
    <2>4. /\ c \in 0..1 /\ dstat_list[c] \in Seq(Dstats)
          /\ IsInjective(dstat_list[c]) /\ new \notin Range(dstat_list[c])
      <3>1. c = 0 \/ c = 1
        BY DEF DstatInv, DstatTypes
      <3> QED BY <2>2, <3>1 DEF DstatInv, DstatTypes, DstatsApart
    <2>5. /\ <<new>> \o dstat_list[c] \in Seq(Dstats)
          /\ Range(<<new>> \o dstat_list[c]) = {new} \cup Range(dstat_list[c])
          /\ IsInjective(<<new>> \o dstat_list[c])
      BY <2>2, <2>4, ConsProperties
    <2> DEFINE longer == <<new>> \o dstat_list[c]
    <2>6. dstat_list' = [dstat_list EXCEPT ![c] = longer]
      BY <2>1
    <2>7. longer \in Seq(Dstats) /\ IsInjective(longer)
          /\ Range(longer) = {new} \cup Range(dstat_list[c])
      BY <2>5
    <2> HIDE DEF longer, c
    <2>8. DstatTypes'
      <3>1. dstat_list' \in [0..1 -> Seq(Dstats)] /\ DOMAIN dstat_tree' = 0..1
        BY <2>1, <2>6, <2>7 DEF DstatInv, DstatTypes
      <3>2. DOMAIN stat' = Dstats /\ \A d \in Dstats :
                DOMAIN stat'[d] = {"device", "minmax", "hist"}
        BY <2>1, <2>2 DEF DstatInv, DstatTypes, Empty
      <3> QED BY <2>1, <2>2, <3>1, <3>2 DEF DstatInv, DstatTypes
    <2>9. /\ dstat_list'[c] = longer
          /\ \A n \in 0..1 : n # c => dstat_list'[n] = dstat_list[n]
      BY <2>4, <2>6 DEF DstatInv, DstatTypes
    <2>10. DstatsApart'
      <3>1. CASE c = 0
        <4>1. /\ dstat_list'[0] = longer /\ dstat_list'[1] = dstat_list[1]
              /\ Range(longer) = {new} \cup Range(dstat_list[0])
              /\ out' = out
          BY <2>1, <2>7, <2>9, <3>1
        <4>2. DstatsApart
          BY DEF DstatInv
        <4> QED BY <2>2, <2>7, <4>1, <4>2 DEF DstatsApart
      <3>2. CASE c = 1
        <4>1. /\ dstat_list'[1] = longer /\ dstat_list'[0] = dstat_list[0]
              /\ Range(longer) = {new} \cup Range(dstat_list[1])
              /\ out' = out
          BY <2>1, <2>7, <2>9, <3>2
        <4>2. DstatsApart
          BY DEF DstatInv
        <4> QED BY <2>2, <2>7, <4>1, <4>2 DEF DstatsApart
      <3> QED BY <2>4, <3>1, <3>2
    <2>11. TreesAreLists'
      BY <2>1, <2>4, <2>7, <2>9 DEF DstatInv, DstatTypes, TreesAreLists
    <2>12. OneOfDevice'
      <3>1. \A n \in 0..1 : new \notin dstat_tree[n]
        BY <2>2 DEF DstatInv, TreesAreLists
      <3>2. stat'[new].device = dev
        BY <2>1, <2>2 DEF DstatInv, DstatTypes, Empty
      <3>3. \A d : d # new => stat'[d] = stat[d]
        BY <2>1
      <3>4. \A d \in dstat_tree[c] : stat[d].device # dev
        BY <1>2 DEF there, c
      <3>5. /\ dstat_tree'[c] = dstat_tree[c] \cup {new}
            /\ \A n \in 0..1 : n # c => dstat_tree'[n] = dstat_tree[n]
        BY <2>1, <2>4 DEF DstatInv, DstatTypes
      <3> SUFFICES ASSUME NEW n \in 0..1, NEW d \in dstat_tree'[n],
                          NEW e \in dstat_tree'[n],
                          stat'[d].device = stat'[e].device
                   PROVE  d = e
        BY DEF OneOfDevice
      <3>6. CASE d # new /\ e # new
        <4>1. d \in dstat_tree[n] /\ e \in dstat_tree[n]
          BY <3>5, <3>6
        <4> QED BY <3>3, <3>6, <4>1 DEF DstatInv, OneOfDevice
      <3>7. CASE d = new \/ e = new
        <4>1. n = c
          BY <3>1, <3>5, <3>7
        <4> QED BY <3>2, <3>3, <3>4, <3>5, <3>7, <4>1
      <3> QED BY <3>6, <3>7
    <2> QED BY <2>8, <2>10, <2>11, <2>12 DEF DstatInv
  <1> QED BY <1>1, <1>2

\* The other steps move whole sequences, or change no device.
LEMMA NextDstatInv == DstatInv /\ MemoryLeft /\ [Next]_vars => DstatInv'
  <1> SUFFICES ASSUME DstatInv, MemoryLeft, [Next]_vars PROVE DstatInv'
    OBVIOUS
  <1>1. CASE GetDstat
    BY <1>1, GetDstatInv
  <1>2. CASE AccountMinmax \/ AccountHist
    <2>1. UNCHANGED <<trees, ivars>>
      BY <1>2 DEF AccountMinmax, AccountHist
    <2>2. /\ DOMAIN stat' = Dstats
          /\ \A d \in Dstats : /\ DOMAIN stat'[d] = {"device", "minmax", "hist"}
                               /\ stat'[d].device = stat[d].device
      <3>1. /\ DOMAIN stat = Dstats
            /\ \A d \in Dstats : DOMAIN stat[d] = {"device", "minmax", "hist"}
        BY DEF DstatInv, DstatTypes
      <3>2. CASE AccountMinmax
        <4>1. /\ DOMAIN stat' = DOMAIN stat
              /\ \A d \in DOMAIN stat :
                    \/ stat'[d] = stat[d]
                    \/ stat'[d] = [stat[d] EXCEPT !.minmax = @ \cup {pair}]
          BY <3>2 DEF AccountMinmax
        <4> QED BY <3>1, <4>1
      <3>3. CASE AccountHist
        <4>1. /\ DOMAIN stat' = DOMAIN stat
              /\ \A d \in DOMAIN stat :
                    \/ stat'[d] = stat[d]
                    \/ stat'[d] = [stat[d] EXCEPT !.hist = @ \cup {pair}]
          BY <3>3 DEF AccountHist
        <4> QED BY <3>1, <4>1
      <3> QED BY <1>2, <3>2, <3>3
    <2>3. \A n \in 0..1 : dstat_tree[n] \subseteq Dstats
      BY RangeOfSeq DEF DstatInv, DstatTypes, TreesAreLists
    <2> QED
      BY <2>1, <2>2, <2>3 DEF DstatInv, DstatTypes, DstatsApart, TreesAreLists,
         OneOfDevice, trees, ivars
  <1>3. CASE SwapTrees
    BY <1>3 DEF SwapTrees, DstatInv, DstatTypes, DstatsApart, TreesAreLists,
       OneOfDevice
  <1>4. CASE TakeList
    <2> DEFINE f == finished
    <2>1. /\ out' = dstat_list[f] /\ dstat_list' = [dstat_list EXCEPT ![f] = <<>>]
          /\ dstat_tree' = [dstat_tree EXCEPT ![f] = IF out' = <<>> THEN @ ELSE {}]
          /\ UNCHANGED <<dstat_curr, vacant_dstats, stat, finished>>
      BY <1>4 DEF TakeList
    <2>2. <<>> \in Seq(Dstats) /\ Range(<<>>) = {} /\ IsInjective(<<>>)
      BY DEF Range, IsInjective
    <2>3. /\ f \in 0..1 /\ out' \in Seq(Dstats)
          /\ dstat_list'[f] = <<>> /\ dstat_list'[1 - f] = dstat_list[1 - f]
          /\ dstat_tree'[f] = {} /\ dstat_tree'[1 - f] = dstat_tree[1 - f]
      BY <2>1, <2>2 DEF DstatInv, DstatTypes, TreesAreLists
    <2>4. DstatTypes'
      BY <2>1, <2>2, <2>3 DEF DstatInv, DstatTypes
    <2>5. DstatsApart'
      <3>1. f = 0 \/ f = 1
        BY <2>3
      <3>2. DstatsApart
        BY DEF DstatInv
      <3>3. CASE f = 0
        <4>1. /\ out' = dstat_list[0] /\ dstat_list'[0] = <<>>
              /\ dstat_list'[1] = dstat_list[1] /\ vacant_dstats' = vacant_dstats
          BY <2>1, <2>3, <3>3
        <4> QED BY <2>2, <3>2, <4>1 DEF DstatsApart
      <3>4. CASE f = 1
        <4>1. /\ out' = dstat_list[1] /\ dstat_list'[1] = <<>>
              /\ dstat_list'[0] = dstat_list[0] /\ vacant_dstats' = vacant_dstats
          BY <2>1, <2>3, <3>4
        <4> QED BY <2>2, <3>2, <4>1 DEF DstatsApart
      <3> QED BY <3>1, <3>3, <3>4
    <2>6. \A n \in 0..1 : n = f \/ n = 1 - f
      BY <2>3
    <2>7. TreesAreLists'
      BY <2>2, <2>3, <2>6 DEF DstatInv, TreesAreLists
    <2>8. OneOfDevice'
      BY <2>1, <2>3, <2>6 DEF DstatInv, OneOfDevice
    <2> QED BY <2>4, <2>5, <2>7, <2>8 DEF DstatInv
  <1>5. CASE Recycle
    <2>1. /\ vacant_dstats' = out \o vacant_dstats /\ out' = <<>>
          /\ UNCHANGED <<dstat_curr, dstat_tree, dstat_list, stat, finished>>
      BY <1>5 DEF Recycle
    <2>2. <<>> \in Seq(Dstats) /\ Range(<<>>) = {} /\ IsInjective(<<>>)
      BY DEF Range, IsInjective
    <2>3. /\ out \o vacant_dstats \in Seq(Dstats)
          /\ Range(out \o vacant_dstats) = Range(out) \cup Range(vacant_dstats)
          /\ IsInjective(out \o vacant_dstats)
      <3>1. out \in Seq(Dstats) /\ vacant_dstats \in Seq(Dstats)
        BY DEF DstatInv, DstatTypes
      <3>2. /\ IsInjective(out) /\ IsInjective(vacant_dstats)
            /\ Range(out) \cap Range(vacant_dstats) = {}
        BY DEF DstatInv, DstatsApart
      <3> QED
        BY <3>1, <3>2, ConcatProperties, RangeConcatenation, InjectiveConcat
    <2> QED
      BY <2>1, <2>2, <2>3 DEF DstatInv, DstatTypes, DstatsApart, TreesAreLists,
         OneOfDevice
  <1>6. ASSUME UNCHANGED <<trees, stat, ivars>> PROVE DstatInv'
    BY <1>6 DEF trees, ivars, DstatInv, DstatTypes, DstatsApart, TreesAreLists,
       OneOfDevice
  <1>7. CASE PrintStat
    BY <1>6, <1>7 DEF PrintStat
  <1>8. ASSUME NEW b \in Bits, StoreTrace(b) \/ MatchTrace(b) \/ MismatchTrace(b)
        PROVE  DstatInv'
    BY <1>6, <1>8 DEF StoreTrace, MatchTrace, MismatchTrace
  <1>9. CASE Exit \/ UNCHANGED vars
    BY <1>6, <1>9 DEF Exit, vars
  <1> QED
    BY <1>1, <1>2, <1>3, <1>4, <1>5, <1>7, <1>8, <1>9 DEF Next, Gather, Interval

\* As long as malloc finds memory, what blkiomon recycles is in one place at a
\* time, for any input and any moments at which the interval ends.
THEOREM MemoryOwnedHolds == Spec /\ []MemoryLeft => []MemoryOwned
  <1>1. Init /\ MemoryLeft => TraceInv /\ DstatInv
    BY InitTraceInv, InitDstatInv
  <1>2. TraceInv /\ DstatInv /\ MemoryLeft /\ [Next]_vars
           => (TraceInv /\ DstatInv)'
    BY NextTraceInv, NextDstatInv
  <1>3. TraceInv /\ DstatInv => MemoryOwned
    BY ApartIsInjective DEF TraceInv, DstatInv, MemoryOwned, DstatsOwned,
       TreesAreLists, OneOfDevice
  <1> QED
    BY <1>1, <1>2, <1>3, PTL DEF Spec
-----------------------------------------------------------------------------
(* Pairs of traces.                                                        *)

Trace == [req : Requests, what : {"D", "C"}, time : 1..MaxTime, sequence : Nat]
Pair == [d : Nat, c : Nat]

\* What the three actions that read a trace have in common, and the five
\* things that may become of it.
ReadTrace(b) ==
    /\ b \in Trace /\ b.sequence = Len(reads) + 1
    /\ reads' = Append(reads, b)
    /\ bit'[t] = b /\ \A y \in thash : bit'[y] = bit[y]
    /\ \/ Stored(b.req) = {} /\ thash' = thash \cup {t} /\ pairs' = pairs
       \/ \E x \in Stored(b.req) :
            /\ Matches(b, x) /\ thash' = thash \ {x}
            /\ pairs' = Append(pairs, [d |-> bit[x].sequence, c |-> b.sequence])
       \/ \E x \in Stored(b.req) :
            /\ Reversed(b, x) /\ thash' = thash \ {x}
            /\ pairs' = Append(pairs, [d |-> b.sequence, c |-> bit[x].sequence])
       \/ \E x \in Stored(b.req) :
            /\ ~Matches(b, x) /\ bit[x].time < b.time
            /\ thash' = (thash \ {x}) \cup {t} /\ pairs' = pairs
       \/ \E x \in Stored(b.req) :
            /\ ~(bit[x].time < b.time)
            /\ UNCHANGED <<thash, pairs>>

LEMMA ReadIs ==
    ASSUME TraceInv, MemoryLeft, reads \in Seq(Trace), NEW b \in Bits,
           StoreTrace(b) \/ MatchTrace(b) \/ MismatchTrace(b)
    PROVE  ReadTrace(b)
  <1>1. b \in Trace /\ b.sequence = Len(reads) + 1 /\ b.time \in Nat
      BY DEF Bits, Trace
  <1>2. t \in Traces /\ DOMAIN bit = Traces /\ t \notin thash /\ thash \subseteq Traces
      BY DEF TraceInv, TracesOwned
  <1>3. CASE StoreTrace(b)
    <2>1. /\ Stored(b.req) = {} /\ thash' = thash \cup {t} /\ AllocTrace
          /\ bit' = [bit EXCEPT ![t] = b, ![t'] = NoBit]
          /\ pairs' = pairs /\ reads' = Append(reads, b)
      BY <1>3 DEF StoreTrace
    <2>2. t' # t /\ t' \notin thash
      BY <2>1, AllocTraceFresh
    <2>3. bit'[t] = b /\ \A y \in thash : bit'[y] = bit[y]
      BY <1>2, <2>1, <2>2
    <2> QED BY <1>1, <2>1, <2>3 DEF ReadTrace
  <1>4. CASE MatchTrace(b)
    <2>1. reads' = Append(reads, b) /\ bit' = [bit EXCEPT ![t] = b]
      BY <1>4 DEF MatchTrace
    <2>2. bit'[t] = b /\ \A y \in thash : bit'[y] = bit[y]
      BY <1>2, <2>1
    <2>3. PICK x \in Stored(b.req) :
              /\ Matches(b, x) \/ Reversed(b, x)
              /\ thash' = thash \ {x}
              /\ pairs' = Append(pairs,
                    [d |-> (IF Matches(b, x) THEN bit[x] ELSE b).sequence,
                     c |-> (IF Matches(b, x) THEN b ELSE bit[x]).sequence])
      BY <1>4 DEF MatchTrace
    <2>4. CASE Matches(b, x)
      <3>1. pairs' = Append(pairs, [d |-> bit[x].sequence, c |-> b.sequence])
        BY <2>3, <2>4
      <3> QED BY <1>1, <2>1, <2>2, <2>3, <2>4, <3>1 DEF ReadTrace
    <2>5. CASE ~Matches(b, x)
      <3>1. pairs' = Append(pairs, [d |-> b.sequence, c |-> bit[x].sequence])
        BY <2>3, <2>5
      <3> QED BY <1>1, <2>1, <2>2, <2>3, <2>5, <3>1 DEF ReadTrace
    <2> QED BY <2>4, <2>5
  <1>5. CASE MismatchTrace(b)
    <2>1. /\ reads' = Append(reads, b) /\ bit' = [bit EXCEPT ![t] = b]
          /\ pairs' = pairs
      BY <1>5 DEF MismatchTrace
    <2>2. bit'[t] = b /\ \A y \in thash : bit'[y] = bit[y]
      BY <1>2, <2>1
    <2>3. PICK x \in Stored(b.req) :
              /\ ~Matches(b, x) /\ ~Reversed(b, x)
              /\ IF bit[x].time < b.time
                 THEN thash' = (thash \ {x}) \cup {t} /\ t' = x
                 ELSE UNCHANGED <<thash, t>>
      BY <1>5 DEF MismatchTrace
    <2> QED BY <1>1, <2>1, <2>2, <2>3 DEF ReadTrace
  <1> QED BY <1>3, <1>4, <1>5

\* The traces in the table are the ones read, and in no pair; no trace is in
\* two pairs.
ReadInv ==
    /\ reads \in Seq(Trace) /\ pairs \in Seq(Pair)
    /\ \A k \in 1..Len(reads) : reads[k].sequence = k
    /\ \A m \in 1..Len(pairs) :
          /\ pairs[m].d \in 1..Len(reads) /\ pairs[m].c \in 1..Len(reads)
          /\ reads[pairs[m].d].req = reads[pairs[m].c].req
    /\ \A x \in thash :
          /\ bit[x].sequence \in 1..Len(reads)
          /\ bit[x] = reads[bit[x].sequence]
          /\ \A m \in 1..Len(pairs) : bit[x].sequence \notin {pairs[m].d, pairs[m].c}
    /\ \A m, n \in 1..Len(pairs) : m # n =>
          {pairs[m].d, pairs[m].c} \cap {pairs[n].d, pairs[n].c} = {}

LEMMA AppendIs ==
    ASSUME NEW S, NEW s \in Seq(S), NEW e \in S
    PROVE  /\ Append(s, e) \in Seq(S) /\ Len(s) \in Nat
           /\ Len(Append(s, e)) = Len(s) + 1
           /\ \A k \in 1..Len(s) : Append(s, e)[k] = s[k]
           /\ Append(s, e)[Len(s) + 1] = e
    OBVIOUS

LEMMA StepReadInv ==
    ASSUME TraceInv, ReadInv, NEW b, ReadTrace(b) PROVE ReadInv'
  <1> DEFINE n == Len(reads)
  <1>1. /\ reads' \in Seq(Trace) /\ n \in Nat /\ Len(reads') = n + 1
        /\ \A k \in 1..n : reads'[k] = reads[k]
        /\ reads'[n + 1] = b /\ b \in Trace /\ b.sequence = n + 1
    <2>1. reads \in Seq(Trace) /\ b \in Trace /\ reads' = Append(reads, b)
          /\ b.sequence = n + 1
      BY DEF ReadInv, ReadTrace
    <2> QED BY <2>1, AppendIs
  <1>2. \A k \in 1..Len(reads') : reads'[k].sequence = k
    <2>1. \A k \in 1..n + 1 : k \in 1..n \/ k = n + 1
      BY <1>1
    <2> QED BY <1>1, <2>1 DEF ReadInv
  <1> HIDE DEF n
  <1>3. /\ pairs \in Seq(Pair)
        /\ \A m \in 1..Len(pairs) :
              /\ pairs[m].d \in 1..n /\ pairs[m].c \in 1..n
              /\ reads[pairs[m].d].req = reads[pairs[m].c].req
              /\ n + 1 \notin {pairs[m].d, pairs[m].c}
        /\ \A x \in thash : bit[x].sequence \in 1..n /\ bit[x] = reads[bit[x].sequence]
      BY <1>1 DEF ReadInv, n
  <1>4. \A x \in thash : bit'[x] = bit[x] /\ bit'[x].sequence \in 1..n
                         /\ bit'[x] = reads'[bit'[x].sequence]
      BY <1>1, <1>3 DEF ReadTrace
  <1>5. bit'[t] = reads'[bit'[t].sequence] /\ bit'[t].sequence = n + 1
      BY <1>1 DEF ReadTrace
  <1>6. n + 1 \in 1..Len(reads') /\ 1..n \subseteq 1..Len(reads')
      BY <1>1
  <1>7. ASSUME pairs' = pairs, thash' \subseteq thash \cup {t} PROVE ReadInv'
    <2>1. \A m \in 1..Len(pairs') :
            /\ pairs'[m].d \in 1..Len(reads') /\ pairs'[m].c \in 1..Len(reads')
            /\ reads'[pairs'[m].d].req = reads'[pairs'[m].c].req
      BY <1>1, <1>3, <1>6, <1>7
    <2>2. \A x \in thash' :
            /\ bit'[x].sequence \in 1..Len(reads')
            /\ bit'[x] = reads'[bit'[x].sequence]
            /\ \A m \in 1..Len(pairs') :
                  bit'[x].sequence \notin {pairs'[m].d, pairs'[m].c}
      <3> SUFFICES ASSUME NEW x \in thash' 
                   PROVE  /\ bit'[x].sequence \in 1..Len(reads')
                          /\ bit'[x] = reads'[bit'[x].sequence]
                          /\ \A m \in 1..Len(pairs) :
                                bit'[x].sequence \notin {pairs[m].d, pairs[m].c}
        BY <1>7
      <3>1. CASE x = t
        BY <3>1, <1>3, <1>5, <1>6
      <3>2. CASE x \in thash
        BY <3>2, <1>4, <1>6 DEF ReadInv
      <3> QED BY <3>1, <3>2, <1>7
    <2> QED BY <1>1, <1>2, <1>3, <1>7, <2>1, <2>2 DEF ReadInv
  <1>8. ASSUME NEW x \in Stored(b.req), thash' = thash \ {x}, NEW e \in Pair,
               pairs' = Append(pairs, e),
               \/ e.d = bit[x].sequence /\ e.c = n + 1
               \/ e.c = bit[x].sequence /\ e.d = n + 1
        PROVE  ReadInv'
    <2>1. x \in thash /\ bit[x].req = b.req
      BY DEF Stored
    <2>2. /\ pairs' \in Seq(Pair) /\ Len(pairs) \in Nat /\ Len(pairs') = Len(pairs) + 1
          /\ \A m \in 1..Len(pairs) : pairs'[m] = pairs[m]
          /\ pairs'[Len(pairs) + 1] = e
      BY <1>3, <1>8, AppendIs
    <2>3. \A m \in 1..Len(pairs') : m \in 1..Len(pairs) \/ m = Len(pairs) + 1
      BY <2>2
    <2>4. /\ e.d \in 1..Len(reads') /\ e.c \in 1..Len(reads')
          /\ reads'[e.d].req = b.req /\ reads'[e.c].req = b.req
      BY <1>1, <1>3, <1>6, <1>8, <2>1
    <2>5. \A m \in 1..Len(pairs') :
            /\ pairs'[m].d \in 1..Len(reads') /\ pairs'[m].c \in 1..Len(reads')
            /\ reads'[pairs'[m].d].req = reads'[pairs'[m].c].req
      <3> SUFFICES ASSUME NEW m \in 1..Len(pairs')
                   PROVE  /\ pairs'[m].d \in 1..Len(reads')
                          /\ pairs'[m].c \in 1..Len(reads')
                          /\ reads'[pairs'[m].d].req = reads'[pairs'[m].c].req
        OBVIOUS
      <3>1. CASE m \in 1..Len(pairs)
        <4>1. pairs'[m] = pairs[m]
          BY <2>2, <3>1
        <4>2. /\ pairs[m].d \in 1..n /\ pairs[m].c \in 1..n
              /\ reads[pairs[m].d].req = reads[pairs[m].c].req
          BY <1>3, <3>1
        <4> QED BY <1>1, <1>6, <4>1, <4>2
      <3>2. CASE m = Len(pairs) + 1
        BY <2>2, <2>4, <3>2
      <3> QED BY <2>3, <3>1, <3>2
    <2>6. \A m \in 1..Len(pairs) : {pairs[m].d, pairs[m].c} \cap {e.d, e.c} = {}
      BY <1>3, <1>8, <2>1 DEF ReadInv
    <2>7. \A m, o \in 1..Len(pairs') : m # o =>
            {pairs'[m].d, pairs'[m].c} \cap {pairs'[o].d, pairs'[o].c} = {}
      <3> SUFFICES ASSUME NEW m \in 1..Len(pairs'), NEW o \in 1..Len(pairs'), m # o
                   PROVE  {pairs'[m].d, pairs'[m].c} \cap {pairs'[o].d, pairs'[o].c} = {}
        OBVIOUS
      <3>1. CASE m \in 1..Len(pairs) /\ o \in 1..Len(pairs)
        BY <2>2, <3>1 DEF ReadInv
      <3>2. CASE m \in 1..Len(pairs) /\ o = Len(pairs) + 1
        BY <2>2, <2>6, <3>2
      <3>3. CASE o \in 1..Len(pairs) /\ m = Len(pairs) + 1
        BY <2>2, <2>6, <3>3
      <3> QED BY <2>3, <3>1, <3>2, <3>3
    <2>8. \A y \in thash' :
            /\ bit'[y].sequence \in 1..Len(reads')
            /\ bit'[y] = reads'[bit'[y].sequence]
            /\ \A m \in 1..Len(pairs') :
                  bit'[y].sequence \notin {pairs'[m].d, pairs'[m].c}
      <3> SUFFICES ASSUME NEW y \in thash, y # x
                   PROVE  /\ bit'[y].sequence \in 1..Len(reads')
                          /\ bit'[y] = reads'[bit'[y].sequence]
                          /\ \A m \in 1..Len(pairs') :
                                bit'[y].sequence \notin {pairs'[m].d, pairs'[m].c}
        BY <1>8
      <3>1. bit'[y] = bit[y] /\ bit[y].sequence # n + 1
        BY <1>1, <1>3, <1>4
      <3>2. bit[y].sequence # bit[x].sequence
        <4>1. bit[y].req # bit[x].req
          BY <2>1 DEF TraceInv, TracesOwned
        <4> QED BY <4>1, <2>1, <1>3
      <3>3. bit[y].sequence \notin {e.d, e.c}
        BY <1>8, <3>1, <3>2
      <3>4. \A m \in 1..Len(pairs) : bit[y].sequence \notin {pairs[m].d, pairs[m].c}
        BY DEF ReadInv
      <3>5. \A m \in 1..Len(pairs') : bit[y].sequence \notin {pairs'[m].d, pairs'[m].c}
        BY <2>2, <2>3, <3>3, <3>4
      <3> QED BY <1>4, <1>6, <3>1, <3>5
    <2> QED BY <1>1, <1>2, <2>2, <2>5, <2>7, <2>8 DEF ReadInv
  <1>9. \A x \in thash : bit[x].sequence \in Nat
      BY <1>1, <1>3
  <1>10. CASE \E x \in Stored(b.req) :
              /\ Matches(b, x) /\ thash' = thash \ {x}
              /\ pairs' = Append(pairs, [d |-> bit[x].sequence, c |-> b.sequence])
    <2>1. PICK x \in Stored(b.req) : thash' = thash \ {x} /\
              pairs' = Append(pairs, [d |-> bit[x].sequence, c |-> b.sequence])
      BY <1>10
    <2> DEFINE e == [d |-> bit[x].sequence, c |-> b.sequence]
    <2>2. e \in Pair /\ e.d = bit[x].sequence /\ e.c = n + 1
      BY <1>1, <1>9 DEF Stored, Pair
    <2> HIDE DEF e
    <2>3. pairs' = Append(pairs, e)
      BY <2>1 DEF e
    <2> QED BY <1>8, <2>1, <2>2, <2>3
  <1>11. CASE \E x \in Stored(b.req) :
              /\ Reversed(b, x) /\ thash' = thash \ {x}
              /\ pairs' = Append(pairs, [d |-> b.sequence, c |-> bit[x].sequence])
    <2>1. PICK x \in Stored(b.req) : thash' = thash \ {x} /\
              pairs' = Append(pairs, [d |-> b.sequence, c |-> bit[x].sequence])
      BY <1>11
    <2> DEFINE e == [d |-> b.sequence, c |-> bit[x].sequence]
    <2>2. e \in Pair /\ e.c = bit[x].sequence /\ e.d = n + 1
      BY <1>1, <1>9 DEF Stored, Pair
    <2> HIDE DEF e
    <2>3. pairs' = Append(pairs, e)
      BY <2>1 DEF e
    <2> QED BY <1>8, <2>1, <2>2, <2>3
  <1>12. CASE pairs' = pairs /\ thash' \subseteq thash \cup {t}
      BY <1>7, <1>12
  <1> QED BY <1>10, <1>11, <1>12 DEF ReadTrace

\* Trace k is the next one of its request after trace j; trace l is the last
\* one of its request.
Follows(s, j, k) ==
    /\ j \in DOMAIN s /\ k \in DOMAIN s /\ j < k
    /\ s[j].req = s[k].req
    /\ \A n \in DOMAIN s : j < n /\ n < k => s[n].req # s[k].req
LastOne(s, l) ==
    /\ l \in DOMAIN s
    /\ \A n \in DOMAIN s : l < n => s[n].req # s[l].req

\* As long as the traces of a request come in order, its pairs are each C with
\* a D before it, and its last trace is the one that is stored, if any is: it
\* is if it is a D.
PairedInOrder(r) ==
    /\ \A m \in DOMAIN pairs : reads[pairs[m].d].req = r =>
          /\ Follows(reads, pairs[m].d, pairs[m].c)
          /\ reads[pairs[m].d].what = "D" /\ reads[pairs[m].c].what = "C"
    /\ \A j, k \in DOMAIN reads :
          /\ Follows(reads, j, k) /\ reads[k].req = r
          /\ reads[j].what = "D" /\ reads[k].what = "C"
          => \E m \in DOMAIN pairs : pairs[m].d = j /\ pairs[m].c = k
    /\ \A x \in thash : bit[x].req = r => LastOne(reads, bit[x].sequence)
    /\ \A l \in DOMAIN reads :
          LastOne(reads, l) /\ reads[l].req = r /\ reads[l].what = "D"
          => \E x \in thash : bit[x].sequence = l

OrderInv == \A r \in Requests : InOrder(r) => PairedInOrder(r)

\* What one more trace does to the relations between the earlier ones.
LEMMA OneMore ==
    ASSUME ReadInv, NEW b, ReadTrace(b)
    PROVE  /\ Len(reads) \in Nat /\ DOMAIN reads = 1..Len(reads)
           /\ DOMAIN reads' = 1..Len(reads) + 1
           /\ \A k \in 1..Len(reads) : reads'[k] = reads[k]
           /\ reads'[Len(reads) + 1] = b
           /\ \A j, k \in 1..Len(reads) : Follows(reads', j, k) <=> Follows(reads, j, k)
           /\ \A j \in 1..Len(reads) :
                 Follows(reads', j, Len(reads) + 1)
                     <=> LastOne(reads, j) /\ reads[j].req = b.req
           /\ \A k : ~Follows(reads', Len(reads) + 1, k)
           /\ \A l \in 1..Len(reads) : 
                 LastOne(reads', l) <=> LastOne(reads, l) /\ reads[l].req # b.req
           /\ LastOne(reads', Len(reads) + 1)
  <1> DEFINE n == Len(reads)
  <1>1. /\ n \in Nat /\ DOMAIN reads = 1..n /\ DOMAIN reads' = 1..n + 1
        /\ \A k \in 1..n : reads'[k] = reads[k]
        /\ reads'[n + 1] = b
    <2>1. reads \in Seq(Trace) /\ b \in Trace /\ reads' = Append(reads, b)
      BY DEF ReadInv, ReadTrace
    <2>2. reads' \in Seq(Trace) /\ Len(reads') = n + 1 /\ n \in Nat
          /\ (\A k \in 1..n : reads'[k] = reads[k]) /\ reads'[n + 1] = b
      BY <2>1, AppendIs
    <2> QED BY <2>1, <2>2
  <1> HIDE DEF n
  <1>2. \A k \in 1..n + 1 : k \in 1..n \/ k = n + 1
      BY <1>1
  <1>3. n + 1 \in 1..n + 1 /\ n + 1 \notin 1..n /\ 1..n \subseteq 1..n + 1
      BY <1>1
  <1>4. ASSUME NEW j \in 1..n, NEW k \in 1..n
        PROVE  Follows(reads', j, k) <=> Follows(reads, j, k)
      BY <1>1, <1>2, <1>3 DEF Follows
  <1>5. ASSUME NEW j \in 1..n
        PROVE  Follows(reads', j, n + 1) <=> LastOne(reads, j) /\ reads[j].req = b.req
      BY <1>1, <1>2, <1>3 DEF Follows, LastOne
  <1>6. ASSUME NEW k, Follows(reads', n + 1, k) PROVE FALSE
      BY <1>1, <1>6 DEF Follows
  <1>7. ASSUME NEW l \in 1..n
        PROVE  LastOne(reads', l) <=> LastOne(reads, l) /\ reads[l].req # b.req
      BY <1>1, <1>2, <1>3 DEF LastOne
  <1>8. LastOne(reads', n + 1)
      BY <1>1 DEF LastOne
  <1> QED BY <1>1, <1>4, <1>5, <1>6, <1>7, <1>8 DEF n

\* A trace in order is later than all the earlier ones of its request.
LEMMA InOrderBefore ==
    ASSUME ReadInv, NEW b, ReadTrace(b), NEW r \in Requests, InOrder(r)'
    PROVE  /\ InOrder(r)
           /\ b.req = r => \A j \in 1..Len(reads) :
                               reads[j].req = r => reads[j].time < b.time
  <1> DEFINE n == Len(reads)
  <1>1. /\ n \in Nat /\ DOMAIN reads = 1..n /\ DOMAIN reads' = 1..n + 1
        /\ \A k \in 1..n : reads'[k] = reads[k]
        /\ reads'[n + 1] = b
      BY OneMore
  <1> HIDE DEF n
  <1>2. \A k \in 1..n + 1 : reads'[k].req = r =>
           \A j \in 1..k - 1 : reads'[j].req = reads'[k].req =>
               reads'[j].time < reads'[k].time
      BY <1>1 DEF InOrder, Before
  <1>3. \A k \in 1..n : reads[k].req = r =>
           \A j \in 1..k - 1 : reads[j].req = reads[k].req =>
               reads[j].time < reads[k].time
    <2> SUFFICES ASSUME NEW k \in 1..n, reads[k].req = r, NEW j \in 1..k - 1,
                        reads[j].req = reads[k].req
                 PROVE  reads[j].time < reads[k].time
      OBVIOUS
    <2>1. k \in 1..n + 1 /\ j \in 1..n
      BY <1>1
    <2> QED BY <1>1, <1>2, <2>1
  <1>4. b.req = r => \A j \in 1..n : reads[j].req = r => reads[j].time < b.time
    <2> SUFFICES ASSUME b.req = r, NEW j \in 1..n, reads[j].req = r
                 PROVE  reads[j].time < b.time
      OBVIOUS
    <2>1. n + 1 \in 1..n + 1 /\ j \in 1..(n + 1) - 1
      BY <1>1
    <2> QED BY <1>1, <1>2, <2>1
  <1>5. InOrder(r)
      BY <1>1, <1>3 DEF InOrder, Before
  <1> QED BY <1>4, <1>5 DEF n

LEMMA StepOrder ==
    ASSUME TraceInv, ReadInv, ReadInv', NEW b, ReadTrace(b), NEW r \in Requests,
           InOrder(r)', PairedInOrder(r)
    PROVE  PairedInOrder(r)'
  <1> DEFINE n == Len(reads)
  <1>1. /\ n \in Nat /\ DOMAIN reads = 1..n /\ DOMAIN reads' = 1..n + 1
        /\ \A k \in 1..n : reads'[k] = reads[k]
        /\ reads'[n + 1] = b
        /\ \A j, k \in 1..n : Follows(reads', j, k) <=> Follows(reads, j, k)
        /\ \A j \in 1..n : Follows(reads', j, n + 1)
                               <=> LastOne(reads, j) /\ reads[j].req = b.req
        /\ \A k : ~Follows(reads', n + 1, k)
        /\ \A l \in 1..n : LastOne(reads', l)
                               <=> LastOne(reads, l) /\ reads[l].req # b.req
        /\ LastOne(reads', n + 1)
      BY OneMore
  <1>2. /\ pairs \in Seq(Pair) /\ DOMAIN pairs = 1..Len(pairs)
        /\ \A m \in DOMAIN pairs :
              /\ pairs[m].d \in 1..n /\ pairs[m].c \in 1..n
              /\ reads[pairs[m].d].req = reads[pairs[m].c].req
        /\ \A x \in thash : bit[x].sequence \in 1..n /\ bit[x] = reads[bit[x].sequence]
    <2>1. pairs \in Seq(Pair) /\ DOMAIN pairs = 1..Len(pairs)
      BY DEF ReadInv
    <2> QED BY <2>1 DEF ReadInv
  <1>3. /\ b \in Trace /\ b.sequence = n + 1 /\ bit'[t] = b
        /\ \A y \in thash : bit'[y] = bit[y]
      BY DEF ReadTrace
  <1> HIDE DEF n
  <1>4. /\ n + 1 \in 1..n + 1 /\ n + 1 \notin 1..n /\ 1..n \subseteq 1..n + 1
        /\ \A k \in 1..n + 1 : k \in 1..n \/ k = n + 1
      BY <1>1
  <1>5. /\ \A m \in DOMAIN pairs : reads[pairs[m].d].req = r =>
              /\ Follows(reads, pairs[m].d, pairs[m].c)
              /\ reads[pairs[m].d].what = "D" /\ reads[pairs[m].c].what = "C"
        /\ \A j, k \in 1..n :
              /\ Follows(reads, j, k) /\ reads[k].req = r
              /\ reads[j].what = "D" /\ reads[k].what = "C"
              => \E m \in DOMAIN pairs : pairs[m].d = j /\ pairs[m].c = k
        /\ \A x \in thash : bit[x].req = r => LastOne(reads, bit[x].sequence)
        /\ \A l \in 1..n :
              LastOne(reads, l) /\ reads[l].req = r /\ reads[l].what = "D"
              => \E x \in thash : bit[x].sequence = l
      BY <1>1 DEF PairedInOrder
  \* What remains to show of the pairs and of the table.
  <1>6. ASSUME /\ \A m \in DOMAIN pairs' : reads'[pairs'[m].d].req = r =>
                     /\ Follows(reads', pairs'[m].d, pairs'[m].c)
                     /\ reads'[pairs'[m].d].what = "D" /\ reads'[pairs'[m].c].what = "C",
               \A j, k \in 1..n + 1 :
                  /\ Follows(reads', j, k) /\ reads'[k].req = r
                  /\ reads'[j].what = "D" /\ reads'[k].what = "C"
                  => \E m \in DOMAIN pairs' : pairs'[m].d = j /\ pairs'[m].c = k,
               \A x \in thash' : bit'[x].req = r => LastOne(reads', bit'[x].sequence),
               \A l \in 1..n + 1 :
                  LastOne(reads', l) /\ reads'[l].req = r /\ reads'[l].what = "D"
                  => \E x \in thash' : bit'[x].sequence = l
        PROVE  PairedInOrder(r)'
      BY <1>1, <1>6 DEF PairedInOrder
  \* The pairs there were.
  <1>7. \A m \in DOMAIN pairs : reads'[pairs[m].d].req = r =>
            /\ Follows(reads', pairs[m].d, pairs[m].c)
            /\ reads'[pairs[m].d].what = "D" /\ reads'[pairs[m].c].what = "C"
      BY <1>1, <1>2, <1>5
  <1>8. \A j, k \in 1..n :
            /\ Follows(reads', j, k) /\ reads'[k].req = r
            /\ reads'[j].what = "D" /\ reads'[k].what = "C"
            => \E m \in DOMAIN pairs : pairs[m].d = j /\ pairs[m].c = k
      BY <1>1, <1>5
  <1>9. b.req = r => \A j \in 1..n : reads[j].req = r => reads[j].time < b.time
      BY InOrderBefore DEF n
  <1>10. \A x \in Stored(b.req) : x \in thash /\ bit[x].req = b.req
      BY DEF Stored
  <1>11. CASE b.req # r
    <2>1. \A x \in thash' : bit'[x].req = r => x \in thash
      BY <1>3, <1>11 DEF ReadTrace
    <2>2. \A x \in thash : bit[x].req = r => x \in thash'
      BY <1>10, <1>11 DEF ReadTrace
    <2>3. \A x \in thash' : bit'[x].req = r => LastOne(reads', bit'[x].sequence)
      BY <1>1, <1>2, <1>3, <1>5, <1>11, <2>1
    <2>4. \A l \in 1..n + 1 :
              LastOne(reads', l) /\ reads'[l].req = r /\ reads'[l].what = "D"
              => \E x \in thash' : bit'[x].sequence = l
      <3> SUFFICES ASSUME NEW l \in 1..n + 1, LastOne(reads', l), reads'[l].req = r,
                          reads'[l].what = "D"
                   PROVE  \E x \in thash' : bit'[x].sequence = l
        OBVIOUS
      <3>1. l \in 1..n /\ LastOne(reads, l) /\ reads[l].req = r /\ reads[l].what = "D"
        BY <1>1, <1>4, <1>11
      <3>2. PICK x \in thash : bit[x].sequence = l
        BY <1>5, <3>1
      <3>3. bit[x].req = r
        BY <1>2, <3>1, <3>2
      <3> QED BY <1>3, <2>2, <3>2, <3>3
    <2>5. ASSUME pairs' = pairs PROVE PairedInOrder(r)'
      <3>1. \A j, k \in 1..n + 1 :
              /\ Follows(reads', j, k) /\ reads'[k].req = r
              /\ reads'[j].what = "D" /\ reads'[k].what = "C"
              => \E m \in DOMAIN pairs' : pairs'[m].d = j /\ pairs'[m].c = k
        BY <1>1, <1>4, <1>8, <1>11, <2>5
      <3> QED BY <1>6, <1>7, <2>3, <2>4, <2>5, <3>1
    <2>6. ASSUME NEW e \in Pair, pairs' = Append(pairs, e),
                 e.d \in 1..n + 1, reads'[e.d].req # r
          PROVE  PairedInOrder(r)'
      <3>1. /\ pairs' \in Seq(Pair) /\ Len(pairs) \in Nat /\ Len(pairs') = Len(pairs) + 1
            /\ \A m \in 1..Len(pairs) : pairs'[m] = pairs[m]
            /\ pairs'[Len(pairs) + 1] = e
        BY <1>2, <2>6, AppendIs
      <3>2. /\ DOMAIN pairs' = 1..Len(pairs) + 1 /\ DOMAIN pairs = 1..Len(pairs)
            /\ \A m \in 1..Len(pairs) + 1 : m \in 1..Len(pairs) \/ m = Len(pairs) + 1
            /\ 1..Len(pairs) \subseteq 1..Len(pairs) + 1
        BY <1>2, <3>1
      <3>3. \A m \in DOMAIN pairs' : reads'[pairs'[m].d].req = r =>
               /\ Follows(reads', pairs'[m].d, pairs'[m].c)
               /\ reads'[pairs'[m].d].what = "D" /\ reads'[pairs'[m].c].what = "C"
        BY <1>7, <2>6, <3>1, <3>2
      <3>4. \A j, k \in 1..n + 1 :
              /\ Follows(reads', j, k) /\ reads'[k].req = r
              /\ reads'[j].what = "D" /\ reads'[k].what = "C"
              => \E m \in DOMAIN pairs' : pairs'[m].d = j /\ pairs'[m].c = k
        <4> SUFFICES ASSUME NEW j \in 1..n + 1, NEW k \in 1..n + 1,
                            Follows(reads', j, k), reads'[k].req = r,
                            reads'[j].what = "D", reads'[k].what = "C"
                     PROVE  \E m \in DOMAIN pairs' : pairs'[m].d = j /\ pairs'[m].c = k
          OBVIOUS
        <4>1. k \in 1..n /\ j \in 1..n
          BY <1>1, <1>4, <1>11
        <4>2. PICK m \in DOMAIN pairs : pairs[m].d = j /\ pairs[m].c = k
          BY <1>8, <4>1
        <4> QED BY <3>1, <3>2, <4>2
      <3> QED BY <1>6, <2>3, <2>4, <3>3, <3>4
    <2>7. \A x \in Stored(b.req) : /\ bit[x].sequence \in 1..n + 1
                                   /\ reads'[bit[x].sequence].req # r
      BY <1>1, <1>2, <1>4, <1>10, <1>11
    <2>8. CASE \E x \in Stored(b.req) :
              pairs' = Append(pairs, [d |-> bit[x].sequence, c |-> b.sequence])
      <3>1. PICK x \in Stored(b.req) :
              pairs' = Append(pairs, [d |-> bit[x].sequence, c |-> b.sequence])
        BY <2>8
      <3> DEFINE e == [d |-> bit[x].sequence, c |-> b.sequence]
      <3>2. e \in Pair /\ e.d \in 1..n + 1 /\ reads'[e.d].req # r
        BY <1>1, <1>3, <2>7, <3>1 DEF Pair
      <3> HIDE DEF e
      <3>3. pairs' = Append(pairs, e)
        BY <3>1 DEF e
      <3> QED BY <2>6, <3>2, <3>3
    <2>9. CASE \E x \in Stored(b.req) :
              pairs' = Append(pairs, [d |-> b.sequence, c |-> bit[x].sequence])
      <3>1. PICK x \in Stored(b.req) :
              pairs' = Append(pairs, [d |-> b.sequence, c |-> bit[x].sequence])
        BY <2>9
      <3> DEFINE e == [d |-> b.sequence, c |-> bit[x].sequence]
      <3>2. e \in Pair /\ e.d \in 1..n + 1 /\ reads'[e.d].req # r
        BY <1>1, <1>3, <1>4, <1>11, <2>7, <3>1 DEF Pair
      <3> HIDE DEF e
      <3>3. pairs' = Append(pairs, e)
        BY <3>1 DEF e
      <3> QED BY <2>6, <3>2, <3>3
    <2> QED BY <2>5, <2>8, <2>9 DEF ReadTrace
  <1>12. CASE b.req = r
    \* The stored one is the last, and older.
    <2>1. \A x \in Stored(b.req) :
              /\ LastOne(reads, bit[x].sequence) /\ bit[x] = reads[bit[x].sequence]
              /\ bit[x].sequence \in 1..n /\ bit[x].time < b.time
      BY <1>2, <1>5, <1>9, <1>10, <1>12
    <2>2. \A x \in Stored(b.req) : ~Reversed(b, x)
      <3> SUFFICES ASSUME NEW x \in Stored(b.req), Reversed(b, x) PROVE FALSE
        OBVIOUS
      <3>1. bit[x].time \in Nat /\ b.time \in Nat
        <4>1. reads \in Seq(Trace) /\ bit[x].sequence \in DOMAIN reads
          BY <1>1, <2>1 DEF ReadInv
        <4>2. bit[x] \in Trace
          BY <2>1, <4>1
        <4> QED BY <1>3, <4>2 DEF Trace
      <3> QED BY <2>1, <3>1 DEF Reversed
    <2>3. \A x, y \in Stored(b.req) : x = y
      BY <1>10 DEF TraceInv, TracesOwned
    \* Any last trace of the request was followed by this one.
    <2>4. \A l \in 1..n + 1 : LastOne(reads', l) /\ reads'[l].req = r => l = n + 1
      BY <1>1, <1>4, <1>12
    <2>5. ASSUME NEW k \in 1..n, NEW l \in 1..n, LastOne(reads, k), LastOne(reads, l),
                 reads[k].req = reads[l].req PROVE k = l
      BY <1>1, <2>5 DEF LastOne
    <2>6. CASE /\ Stored(b.req) = {} /\ thash' = thash \cup {t} /\ pairs' = pairs
      <3>1. \A l \in 1..n : LastOne(reads, l) /\ reads[l].req = r => reads[l].what # "D"
        <4> SUFFICES ASSUME NEW l \in 1..n, LastOne(reads, l), reads[l].req = r,
                            reads[l].what = "D" PROVE FALSE
          OBVIOUS
        <4>1. PICK x \in thash : bit[x].sequence = l
          BY <1>5
        <4>2. bit[x].req = b.req
          BY <1>2, <1>12, <4>1
        <4> QED BY <2>6, <4>2 DEF Stored
      <3>2. \A j, k \in 1..n + 1 :
              /\ Follows(reads', j, k) /\ reads'[k].req = r
              /\ reads'[j].what = "D" /\ reads'[k].what = "C"
              => \E m \in DOMAIN pairs' : pairs'[m].d = j /\ pairs'[m].c = k
        BY <1>1, <1>4, <1>8, <1>12, <2>6, <3>1
      <3>3. \A x \in thash' : bit'[x].req = r => x = t
        BY <1>3, <1>12, <2>6 DEF Stored
      <3>4. t \in thash' /\ bit'[t].sequence = n + 1
        BY <1>3, <2>6
      <3> QED BY <1>1, <1>6, <1>7, <2>4, <2>6, <3>2, <3>3, <3>4
    <2>7. CASE \E x \in Stored(b.req) :
              /\ Matches(b, x) /\ thash' = thash \ {x}
              /\ pairs' = Append(pairs, [d |-> bit[x].sequence, c |-> b.sequence])
      <3>1. PICK x \in Stored(b.req) :
              /\ Matches(b, x) /\ thash' = thash \ {x}
              /\ pairs' = Append(pairs, [d |-> bit[x].sequence, c |-> b.sequence])
        BY <2>7
      <3> DEFINE l == bit[x].sequence
                 e == [d |-> l, c |-> n + 1]
      <3>2. /\ l \in 1..n /\ LastOne(reads, l) /\ reads[l].req = r /\ reads[l].what = "D"
            /\ b.what = "C"
        BY <1>10, <1>12, <2>1, <3>1 DEF Matches
      <3>3. e \in Pair /\ e.d = l /\ e.c = n + 1 /\ pairs' = Append(pairs, e)
        BY <1>1, <1>3, <3>1, <3>2 DEF Pair
      <3> HIDE DEF l, e
      <3>4. /\ pairs' \in Seq(Pair) /\ Len(pairs) \in Nat /\ Len(pairs') = Len(pairs) + 1
            /\ \A m \in 1..Len(pairs) : pairs'[m] = pairs[m]
            /\ pairs'[Len(pairs) + 1] = e
        BY <1>2, <3>3, AppendIs
      <3>5. /\ DOMAIN pairs' = 1..Len(pairs) + 1 /\ DOMAIN pairs = 1..Len(pairs)
            /\ \A m \in 1..Len(pairs) + 1 : m \in 1..Len(pairs) \/ m = Len(pairs) + 1
            /\ 1..Len(pairs) \subseteq 1..Len(pairs) + 1
            /\ Len(pairs) + 1 \in 1..Len(pairs) + 1
        BY <1>2, <3>4
      <3>6. Follows(reads', l, n + 1)
        BY <1>1, <1>12, <3>2
      <3>7. \A m \in DOMAIN pairs' : reads'[pairs'[m].d].req = r =>
               /\ Follows(reads', pairs'[m].d, pairs'[m].c)
               /\ reads'[pairs'[m].d].what = "D" /\ reads'[pairs'[m].c].what = "C"
        <4> SUFFICES ASSUME NEW m \in DOMAIN pairs', reads'[pairs'[m].d].req = r
                     PROVE  /\ Follows(reads', pairs'[m].d, pairs'[m].c)
                            /\ reads'[pairs'[m].d].what = "D"
                            /\ reads'[pairs'[m].c].what = "C"
          OBVIOUS
        <4>1. CASE m \in 1..Len(pairs)
          BY <1>7, <3>4, <3>5, <4>1
        <4>2. CASE m = Len(pairs) + 1
          BY <1>1, <3>2, <3>3, <3>4, <3>6, <4>2
        <4> QED BY <3>5, <4>1, <4>2
      <3>8. \A j, k \in 1..n + 1 :
              /\ Follows(reads', j, k) /\ reads'[k].req = r
              /\ reads'[j].what = "D" /\ reads'[k].what = "C"
              => \E m \in DOMAIN pairs' : pairs'[m].d = j /\ pairs'[m].c = k
        <4> SUFFICES ASSUME NEW j \in 1..n + 1, NEW k \in 1..n + 1,
                            Follows(reads', j, k), reads'[k].req = r,
                            reads'[j].what = "D", reads'[k].what = "C"
                     PROVE  \E m \in DOMAIN pairs' : pairs'[m].d = j /\ pairs'[m].c = k
          OBVIOUS
        <4>1. j \in 1..n
          BY <1>1, <1>4
        <4>2. CASE k = n + 1
          <5>1. j = l
            BY <1>1, <1>12, <2>5, <3>2, <4>1, <4>2
          <5> QED BY <3>3, <3>4, <3>5, <4>2, <5>1
        <4>3. CASE k \in 1..n
          <5>1. PICK m \in DOMAIN pairs : pairs[m].d = j /\ pairs[m].c = k
            BY <1>8, <4>1, <4>3
          <5> QED BY <3>4, <3>5, <5>1
        <4> QED BY <1>4, <4>2, <4>3
      <3>9. \A y \in thash' : bit'[y].req # r
        BY <1>3, <1>12, <2>3, <3>1 DEF Stored
      <3>10. reads'[n + 1].what # "D"
        BY <1>1, <3>2
      <3> QED BY <1>6, <2>4, <3>7, <3>8, <3>9, <3>10
    <2>8. CASE \E x \in Stored(b.req) :
              /\ ~Matches(b, x) /\ bit[x].time < b.time
              /\ thash' = (thash \ {x}) \cup {t} /\ pairs' = pairs
      <3>1. PICK x \in Stored(b.req) :
              /\ ~Matches(b, x) /\ thash' = (thash \ {x}) \cup {t} /\ pairs' = pairs
        BY <2>8
      <3>2. \A l \in 1..n : LastOne(reads, l) /\ reads[l].req = r =>
               ~(reads[l].what = "D" /\ b.what = "C")
        BY <1>10, <1>12, <2>1, <2>5, <3>1 DEF Matches
      <3>3. \A j, k \in 1..n + 1 :
              /\ Follows(reads', j, k) /\ reads'[k].req = r
              /\ reads'[j].what = "D" /\ reads'[k].what = "C"
              => \E m \in DOMAIN pairs' : pairs'[m].d = j /\ pairs'[m].c = k
        BY <1>1, <1>4, <1>8, <1>12, <3>1, <3>2
      <3>4. \A y \in thash' : bit'[y].req = r => y = t
        BY <1>3, <1>12, <2>3, <3>1 DEF Stored
      <3>5. t \in thash' /\ bit'[t].sequence = n + 1
        BY <1>3, <3>1
      <3> QED BY <1>1, <1>6, <1>7, <2>4, <3>1, <3>3, <3>4, <3>5
    <2> QED BY <2>1, <2>2, <2>6, <2>7, <2>8 DEF ReadTrace
  <1> QED BY <1>11, <1>12

LEMMA LeastOf ==
    ASSUME NEW T, T \subseteq Nat, T # {}
    PROVE  \E x \in T : \A y \in T : ~(y < x)
  <1> DEFINE R == OpToRel(<, Nat)
  <1>1. IsWellFoundedOn(R, Nat)
      BY NatLessThanWellFounded, Zenon
  <1>2. \E x \in T : \A y \in T : <<y, x>> \notin R
    <2> HIDE DEF R
    <2> QED BY <1>1, WFMin
  <1>3. \A x, y \in Nat : y < x => <<y, x>> \in R
      BY SMT DEF OpToRel
  <1> QED BY <1>2, <1>3


\* The greatest of some positions is the one Max chooses.
LEMMA MaxIs ==
    ASSUME NEW n \in Nat, NEW T, T \subseteq 1..n, T # {}
    PROVE  Max(T) \in T /\ \A y \in T : Max(T) >= y
  <1> DEFINE U == {n - x : x \in T}
  <1>1. U \subseteq Nat /\ U # {}
    <2>1. \A x \in T : n - x \in Nat
      OBVIOUS
    <2>2. PICK x \in T : TRUE
      OBVIOUS
    <2>3. n - x \in U
      BY <2>2
    <2> QED BY <2>1, <2>3
  <1>2. PICK u \in U : \A y \in U : ~(y < u)
      BY <1>1, LeastOf
  <1>3. PICK x \in T : u = n - x
      BY <1>2
  <1>4. ASSUME NEW y \in T PROVE x >= y
    <2>1. ~(n - y < n - x)
      BY <1>2, <1>3
    <2> QED BY <2>1
  <1>5. \E z \in T : \A y \in T : z >= y
      BY <1>4
  <1> QED BY <1>5, Zenon DEF Max


LEMMA InitReads == Init => ReadInv /\ OrderInv
  <1> SUFFICES ASSUME Init PROVE ReadInv /\ OrderInv
      OBVIOUS
  <1>1. /\ reads = <<>> /\ pairs = <<>> /\ thash = {}
        /\ reads \in Seq(Trace) /\ pairs \in Seq(Pair)
        /\ DOMAIN reads = {} /\ DOMAIN pairs = {}
        /\ 1..Len(reads) = {} /\ 1..Len(pairs) = {}
      BY DEF Init
  <1>2. ReadInv
      BY <1>1 DEF ReadInv
  <1>3. OrderInv
      BY <1>1 DEF OrderInv, PairedInOrder
  <1> QED BY <1>2, <1>3

LEMMA SameReads ==
    ASSUME UNCHANGED <<reads, pairs, thash, bit>>
    PROVE  /\ ReadInv => ReadInv'
           /\ OrderInv => OrderInv'
  <1>1. \A r \in Requests : InOrder(r)' <=> InOrder(r)
      BY DEF InOrder, Before
  <1>2. \A r \in Requests : PairedInOrder(r) => PairedInOrder(r)'
      BY DEF PairedInOrder, Follows, LastOne
  <1>3. ReadInv => ReadInv'
      BY DEF ReadInv
  <1> QED BY <1>1, <1>2, <1>3 DEF OrderInv

LEMMA NextReads ==
    TraceInv /\ MemoryLeft /\ ReadInv /\ OrderInv /\ [Next]_vars
        => ReadInv' /\ OrderInv'
  <1> SUFFICES ASSUME TraceInv, MemoryLeft, ReadInv, OrderInv, [Next]_vars
               PROVE  ReadInv' /\ OrderInv'
      OBVIOUS
  <1>1. ASSUME NEW b \in Bits, StoreTrace(b) \/ MatchTrace(b) \/ MismatchTrace(b)
        PROVE  ReadInv' /\ OrderInv'
    <2>1. ReadTrace(b)
      BY <1>1, ReadIs DEF ReadInv
    <2>2. ReadInv'
      BY <2>1, StepReadInv
    <2>3. ASSUME NEW r \in Requests, InOrder(r)' PROVE PairedInOrder(r)'
      <3>1. InOrder(r)
        BY <2>1, <2>3, InOrderBefore
      <3>2. PairedInOrder(r)
        BY <3>1 DEF OrderInv
      <3> QED BY <2>1, <2>2, <2>3, <3>2, StepOrder
    <2> QED BY <2>2, <2>3 DEF OrderInv
  <1>2. ASSUME UNCHANGED <<reads, pairs, thash, bit>> PROVE ReadInv' /\ OrderInv'
      BY <1>2, SameReads
  <1> QED
      BY <1>1, <1>2 DEF Next, Gather, Interval, GetDstat, AccountMinmax,
         AccountHist, Exit, SwapTrees, TakeList, PrintStat, Recycle, gvars, vars

\* The trace before a trace of its request.
LEMMA BeforeIs ==
    ASSUME ReadInv, NEW k \in DOMAIN reads
    PROVE  /\ Before(k) # {} => Max(Before(k)) \in DOMAIN reads
                                /\ Follows(reads, Max(Before(k)), k)
           /\ \A j : Follows(reads, j, k) =>
                 Before(k) # {} /\ Max(Before(k)) = j
  <1>1. /\ DOMAIN reads = 1..Len(reads) /\ Len(reads) \in Nat
        /\ k \in Nat /\ k - 1 \in Nat /\ k \in 1..Len(reads)
      BY DEF ReadInv
  <1>2. Before(k) \subseteq 1..k - 1 /\ 1..k - 1 \subseteq DOMAIN reads
        /\ \A j \in 1..k - 1 : j < k
      BY <1>1 DEF Before
  <1>3. \A n \in DOMAIN reads : n < k => n \in 1..k - 1
      BY <1>1
  <1>4. Before(k) # {} => /\ Max(Before(k)) \in Before(k)
                          /\ \A y \in Before(k) : Max(Before(k)) >= y
      BY <1>1, <1>2, MaxIs
  <1>5. ASSUME Before(k) # {}
        PROVE  Max(Before(k)) \in DOMAIN reads /\ Follows(reads, Max(Before(k)), k)
    <2>1. PICK m : m = Max(Before(k))
      OBVIOUS
    <2>2. /\ m \in 1..k - 1 /\ reads[m].req = reads[k].req
          /\ \A y \in Before(k) : m >= y
      BY <1>2, <1>4, <1>5, <2>1 DEF Before
    <2>3. \A n \in DOMAIN reads : m < n /\ n < k => reads[n].req # reads[k].req
      <3> SUFFICES ASSUME NEW n \in DOMAIN reads, m < n, n < k,
                          reads[n].req = reads[k].req PROVE FALSE
        OBVIOUS
      <3>1. n \in Before(k)
        BY <1>3 DEF Before
      <3> QED BY <1>1, <2>2, <3>1
    <2> QED BY <1>1, <1>2, <2>1, <2>2, <2>3 DEF Follows
  <1>6. ASSUME NEW j, Follows(reads, j, k) PROVE Before(k) # {} /\ Max(Before(k)) = j
    <2>1. j \in Before(k)
      BY <1>3, <1>6 DEF Follows, Before
    <2>2. PICK m : m = Max(Before(k))
      OBVIOUS
    <2>3. /\ m \in DOMAIN reads /\ m < k /\ reads[m].req = reads[k].req /\ m >= j
      BY <1>2, <1>4, <2>1, <2>2 DEF Before
    <2>4. ~(j < m)
      BY <1>6, <2>3 DEF Follows
    <2> QED BY <1>1, <1>6, <2>1, <2>2, <2>3, <2>4 DEF Follows
  <1> QED BY <1>5, <1>6

LEMMA PairedAsStated == ReadInv /\ OrderInv => PairsAreRequests
  <1> SUFFICES ASSUME ReadInv, OrderInv PROVE PairsAreRequests
      OBVIOUS
  <1>1. /\ DOMAIN pairs = 1..Len(pairs) /\ DOMAIN reads = 1..Len(reads)
        /\ \A m \in DOMAIN pairs : pairs[m] \in Pair
    <2>1. pairs \in Seq(Pair) /\ reads \in Seq(Trace)
      BY DEF ReadInv
    <2> QED BY <2>1
  <1>2. \A m, n \in DOMAIN pairs : m # n =>
           {pairs[m].d, pairs[m].c} \cap {pairs[n].d, pairs[n].c} = {}
      BY <1>1 DEF ReadInv
  <1>3. ASSUME NEW r \in Requests, InOrder(r)
        PROVE  {x \in Range(pairs) : reads[x.d].req = r} =
                 {[d |-> Max(Before(k)), c |-> k] :
                     k \in {n \in DOMAIN reads :
                              /\ reads[n].req = r /\ reads[n].what = "C"
                              /\ Before(n) # {}
                              /\ reads[Max(Before(n))].what = "D"}}
    <2>1. PairedInOrder(r)
      BY <1>3 DEF OrderInv
    <2> DEFINE Ks == {n \in DOMAIN reads :
                              /\ reads[n].req = r /\ reads[n].what = "C"
                              /\ Before(n) # {}
                              /\ reads[Max(Before(n))].what = "D"}
    <2>2. ASSUME NEW m \in DOMAIN pairs, reads[pairs[m].d].req = r
          PROVE  \E k \in Ks : pairs[m] = [d |-> Max(Before(k)), c |-> k]
      <3>1. /\ Follows(reads, pairs[m].d, pairs[m].c)
            /\ reads[pairs[m].d].what = "D" /\ reads[pairs[m].c].what = "C"
        BY <2>1, <2>2 DEF PairedInOrder
      <3>2. pairs[m].c \in DOMAIN reads /\ reads[pairs[m].c].req = r
        BY <2>2, <3>1 DEF Follows
      <3>3. PICK k : k = pairs[m].c
        OBVIOUS
      <3>4. Before(k) # {} /\ Max(Before(k)) = pairs[m].d
        BY <3>1, <3>2, <3>3, BeforeIs
      <3>5. k \in Ks
        BY <3>1, <3>2, <3>3, <3>4
      <3>6. pairs[m] = [d |-> pairs[m].d, c |-> pairs[m].c]
        BY <1>1 DEF Pair
      <3>7. pairs[m] = [d |-> Max(Before(k)), c |-> k]
        BY <3>3, <3>4, <3>6
      <3> QED BY <3>5, <3>7
    <2>3. ASSUME NEW k \in Ks
          PROVE  \E m \in DOMAIN pairs : /\ pairs[m] = [d |-> Max(Before(k)), c |-> k]
                                         /\ reads[pairs[m].d].req = r
      <3>1. PICK j : j = Max(Before(k))
        OBVIOUS
      <3>2. j \in DOMAIN reads /\ Follows(reads, j, k) /\ reads[j].what = "D"
            /\ reads[k].req = r /\ reads[k].what = "C"
        BY <3>1, BeforeIs
      <3>3. PICK m \in DOMAIN pairs : pairs[m].d = j /\ pairs[m].c = k
        BY <2>1, <3>2 DEF PairedInOrder
      <3>4. pairs[m] = [d |-> j, c |-> k]
        BY <1>1, <3>3 DEF Pair
      <3>5. reads[j].req = r
        BY <3>2 DEF Follows
      <3> QED BY <3>1, <3>3, <3>4, <3>5
    <2> HIDE DEF Ks
    <2>4. {x \in Range(pairs) : reads[x.d].req = r}
              = {[d |-> Max(Before(k)), c |-> k] : k \in Ks}
      BY <2>2, <2>3 DEF Range
    <2> QED BY <2>4 DEF Ks
  <1> QED BY <1>2, <1>3 DEF PairsAreRequests

-----------------------------------------------------------------------------
(* What is counted where.                                                  *)

Stats == [device : {Device[r] : r \in Requests}, minmax : SUBSET Nat,
          hist : SUBSET Nat]
DeviceOf(k) == Device[reads[pairs[k].d].req]
Updating == gpc \in {"minmax", "hist"}

\* Both threads' places in their work, and the pair the main thread has in
\* hand.  The statistic it updates is in the current tree, unless the interval
\* ended meanwhile.
BookInv ==
    /\ gpc \in {"read", "get", "minmax", "hist", "killed", "exited"}
    /\ stat \in [Dstats -> Stats] /\ printed \in Seq(Seq(Stats))
    /\ p \in Dstats \cup {NoDstat} /\ (p = NoDstat <=> ~Updating)
    /\ IF gpc \in {"read", "exited"} THEN pair = 0
                                     ELSE pair = Len(pairs) /\ pair # 0
    /\ Updating => stat[p].device = DeviceOf(pair)
    /\ Updating /\ pair \notin late => p \in dstat_tree[dstat_curr]
    /\ ipc = "take" => finished # dstat_curr
    /\ ipc = "print" => printed # <<>> /\ Len(Batch) <= Len(out)

\* How many statistics there are in the lists.
Listed == Len(dstat_list[0]) + Len(dstat_list[1])

\* No more statistics than pairs, and no more pairs than traces.
CountInv ==
    /\ Listed + (IF gpc = "get" THEN 1 ELSE 0) <= Len(pairs)
    /\ Len(pairs) <= Len(reads) /\ Len(reads) <= MaxTraces
    /\ Len(out) <= MaxTraces
    /\ \A n \in DOMAIN printed : Len(printed[n]) <= MaxTraces

LEMMA InitBook == Init /\ MemoryLeft => BookInv /\ CountInv
  <1> SUFFICES ASSUME Init, MemoryLeft PROVE BookInv /\ CountInv
      OBVIOUS
  <1>1. Empty(AnyDevice) \in Stats
      BY BlkiomonAssumption DEF Empty, AnyDevice, Stats
  <1>2. stat \in [Dstats -> Stats] /\ printed \in Seq(Seq(Stats)) /\ DOMAIN printed = {}
      BY <1>1 DEF Init
  <1>3. BookInv
      BY <1>2, BlkiomonAssumption DEF Init, BookInv, Updating
  <1>4. /\ Listed = 0 /\ Len(pairs) = 0
        /\ Len(reads) = 0 /\ Len(out) = 0 /\ gpc = "read"
    <2>1. Len(dstat_list[0]) = 0 /\ Len(dstat_list[1]) = 0
      BY DEF Init
    <2> QED BY <2>1 DEF Init, Listed
  <1>5. CountInv
      BY <1>2, <1>4, BlkiomonAssumption DEF CountInv
  <1> QED BY <1>3, <1>5

\* What reading a trace leaves alone: the device of a pair, and everything
\* that is counted.
LEMMA ReadPairs ==
    ASSUME ReadInv, NEW b, ReadTrace(b)
    PROVE  /\ Len(reads) \in Nat /\ Len(reads') = Len(reads) + 1
           /\ Len(pairs) \in Nat
           /\ \A k \in 1..Len(pairs) : DeviceOf(k)' = DeviceOf(k)
           /\ pairs' = pairs \/ Len(pairs') = Len(pairs) + 1
  <1>1. /\ reads \in Seq(Trace) /\ pairs \in Seq(Pair) /\ b \in Trace
        /\ b.sequence \in Nat /\ reads' = Append(reads, b)
        /\ Len(reads) \in Nat /\ Len(pairs) \in Nat
      BY DEF ReadInv, ReadTrace, Trace
  <1>2. Len(reads') = Len(reads) + 1 /\ \A k \in 1..Len(reads) : reads'[k] = reads[k]
      BY <1>1, AppendIs
  <1>3. \A x \in Stored(b.req) : bit[x].sequence \in Nat
    <2>1. \A x \in Stored(b.req) : bit[x].sequence \in 1..Len(reads)
      BY DEF ReadInv, Stored
    <2> QED BY <1>1, <2>1
  <1>4. pairs' = pairs \/ \E e \in Pair : pairs' = Append(pairs, e)
    <2>1. \A i, j \in Nat : [d |-> i, c |-> j] \in Pair
      BY DEF Pair
    <2> QED BY <1>1, <1>3, <2>1 DEF ReadTrace
  <1>5. /\ \A k \in 1..Len(pairs) : pairs'[k] = pairs[k]
        /\ pairs' = pairs \/ Len(pairs') = Len(pairs) + 1
      BY <1>1, <1>4, AppendIs
  <1>6. \A k \in 1..Len(pairs) : pairs[k].d \in 1..Len(reads)
      BY DEF ReadInv
  <1> QED BY <1>1, <1>2, <1>5, <1>6 DEF DeviceOf

\* What else it does to the main thread.
LEMMA ReadTask ==
    ASSUME TraceInv, ReadInv, NEW b \in Bits,
           StoreTrace(b) \/ MatchTrace(b) \/ MismatchTrace(b)
    PROVE  /\ gpc = "read" /\ Len(reads) < MaxTraces
           /\ UNCHANGED <<trees, stat, p, ivars, printed, late>>
           /\ \/ UNCHANGED <<gpc, pair, pairs>>
              \/ /\ gpc' \in {"get", "killed"} /\ pair' = Len(pairs) + 1
                 /\ Len(pairs') = Len(pairs) + 1
  <1>1. gpc = "read" /\ Len(reads) < MaxTraces
        /\ UNCHANGED <<trees, stat, p, ivars, printed, late>>
      BY DEF StoreTrace, MatchTrace, MismatchTrace
  <1>2. CASE StoreTrace(b) \/ MismatchTrace(b)
      BY <1>1, <1>2 DEF StoreTrace, MismatchTrace
  <1>3. CASE MatchTrace(b)
    <2>1. gpc' \in {"get", "killed"} /\ pair' = Len(pairs) + 1
      BY <1>3 DEF MatchTrace
    <2>2. PICK x \in Stored(b.req) :
              pairs' = Append(pairs,
                    [d |-> (IF Matches(b, x) THEN bit[x] ELSE b).sequence,
                     c |-> (IF Matches(b, x) THEN b ELSE bit[x]).sequence])
      BY <1>3 DEF MatchTrace
    <2>3. pairs \in Seq(Pair)
      BY DEF ReadInv
    <2>4. b.sequence \in Nat /\ bit[x].sequence \in Nat
      BY DEF Bits, Stored, ReadInv
    <2> DEFINE e == [d |-> (IF Matches(b, x) THEN bit[x] ELSE b).sequence,
                     c |-> (IF Matches(b, x) THEN b ELSE bit[x]).sequence]
    <2>5. e \in Pair
      BY <2>4 DEF Pair
    <2> HIDE DEF e
    <2>6. pairs' = Append(pairs, e)
      BY <2>2 DEF e
    <2>7. Len(pairs') = Len(pairs) + 1
      BY <2>3, <2>5, <2>6, AppendIs
    <2> QED BY <1>1, <2>1, <2>7
  <1> QED BY <1>2, <1>3

LEMMA NextBook ==
    TraceInv /\ DstatInv /\ MemoryLeft /\ ReadInv /\ BookInv /\ [Next]_vars
        => BookInv'
  <1> SUFFICES ASSUME TraceInv, DstatInv, MemoryLeft, ReadInv, BookInv, [Next]_vars
               PROVE  BookInv'
      OBVIOUS
  <1> USE DEF Updating
  <1>1. ASSUME NEW b \in Bits, StoreTrace(b) \/ MatchTrace(b) \/ MismatchTrace(b)
        PROVE  BookInv'
    <2>1. /\ gpc = "read"
          /\ UNCHANGED <<trees, stat, p, ivars, printed, late>>
          /\ \/ UNCHANGED <<gpc, pair, pairs>>
             \/ /\ gpc' \in {"get", "killed"} /\ pair' = Len(pairs) + 1
                /\ Len(pairs') = Len(pairs) + 1
      BY <1>1, ReadTask
    <2>2. Len(pairs) \in Nat
      BY DEF ReadInv
    <2> QED BY <2>1, <2>2 DEF BookInv, trees, ivars, Batch
  <1>2. CASE GetDstat
    <2> DEFINE dev == Device[reads[pairs[pair].d].req]
               there == {d \in dstat_tree[dstat_curr] : stat[d].device = dev}
               new == IF vacant_dstats # <<>> THEN Head(vacant_dstats)
                      ELSE Fresh(Dstats, DstatsInUse)
    <2>1. /\ gpc = "get" /\ gpc' = "minmax" /\ UNCHANGED <<gvars, pair, ivars, reads,
                                                           pairs, printed, late>>
          /\ UNCHANGED dstat_curr
      BY <1>2 DEF GetDstat, trees
    <2>2. pair = Len(pairs) /\ pair # 0 /\ dev = DeviceOf(pair)
      BY <2>1 DEF BookInv, DeviceOf
    <2>3. /\ dstat_curr \in DOMAIN dstat_tree
          /\ \A n \in 0..1 : dstat_tree[n] \subseteq Dstats
          /\ DOMAIN stat = Dstats
      BY RangeOfSeq DEF DstatInv, DstatTypes, TreesAreLists
    <2>4. dev \in {Device[r] : r \in Requests}
      <3>1. pairs \in Seq(Pair) /\ reads \in Seq(Trace) /\ pair \in 1..Len(pairs)
        BY <2>2 DEF ReadInv
      <3>2. pairs[pair].d \in 1..Len(reads)
        BY <3>1 DEF ReadInv
      <3>3. reads[pairs[pair].d] \in Trace
        BY <3>1, <3>2
      <3> QED BY <3>3 DEF Trace
    <2>5. DeviceOf(pair)' = DeviceOf(pair)
      BY <2>1 DEF DeviceOf
    <2>6. /\ p' \in Dstats /\ p' \in dstat_tree'[dstat_curr]
          /\ stat' \in [Dstats -> Stats] /\ stat'[p'].device = dev
      <3>1. CASE there # {}
        <4>1. p' \in there /\ UNCHANGED <<trees, stat>>
          BY <1>2, <3>1 DEF GetDstat
        <4> QED BY <2>3, <4>1 DEF trees, BookInv, DstatInv, DstatTypes
      <3>2. CASE there = {}
        <4>1. /\ p' = new /\ stat' = [stat EXCEPT ![new] = Empty(dev)]
              /\ dstat_tree' = [dstat_tree EXCEPT ![dstat_curr] = @ \cup {new}]
          BY <1>2, <3>2 DEF GetDstat
        <4>2. new \in Dstats
          <5>1. CASE vacant_dstats # <<>>
            BY <5>1, HeadTailProperties DEF DstatInv, DstatTypes
          <5>2. CASE vacant_dstats = <<>>
            BY <2>1, <5>2 DEF MemoryLeft, Fresh
          <5> QED BY <5>1, <5>2
        <4> HIDE DEF new, dev
        <4>3. Empty(dev) \in Stats /\ Empty(dev).device = dev
          BY <2>4 DEF Empty, Stats, dev
        <4>4. stat \in [Dstats -> Stats]
          BY DEF BookInv
        <4> QED BY <2>3, <4>1, <4>2, <4>3, <4>4
      <3> QED BY <3>1, <3>2
    <2> HIDE DEF dev
    <2>7. p' # NoDstat
      BY <2>6, BlkiomonAssumption
    <2>8. stat'[p'].device = DeviceOf(pair)'
      BY <2>2, <2>5, <2>6
    <2> QED BY <2>1, <2>2, <2>6, <2>7, <2>8 DEF BookInv, ivars, Batch, DeviceOf
  <1>3. CASE AccountMinmax \/ AccountHist
    <2>1. /\ gpc \in {"minmax", "hist"} /\ p \in Dstats
          /\ pair = Len(pairs) /\ pair # 0 /\ pair \in Nat
      BY <1>3 DEF AccountMinmax, AccountHist, BookInv, ReadInv
    <2>2. /\ stat' \in [Dstats -> Stats]
          /\ \A d \in Dstats : stat'[d].device = stat[d].device
      <3>1. stat \in [Dstats -> Stats]
        BY DEF BookInv
      <3>2. /\ [stat[p] EXCEPT !.minmax = @ \cup {pair}] \in Stats
            /\ [stat[p] EXCEPT !.hist = @ \cup {pair}] \in Stats
            /\ [stat[p] EXCEPT !.minmax = @ \cup {pair}].device = stat[p].device
            /\ [stat[p] EXCEPT !.hist = @ \cup {pair}].device = stat[p].device
        BY <2>1, <3>1 DEF Stats
      <3>3. \/ stat' = [stat EXCEPT ![p] = [stat[p] EXCEPT !.minmax = @ \cup {pair}]]
            \/ stat' = [stat EXCEPT ![p] = [stat[p] EXCEPT !.hist = @ \cup {pair}]]
        BY <1>3 DEF AccountMinmax, AccountHist
      <3> QED BY <2>1, <3>1, <3>2, <3>3
    <2>3. CASE AccountMinmax
      BY <2>1, <2>2, <2>3 DEF AccountMinmax, BookInv, trees, ivars, Batch, DeviceOf
    <2>4. CASE AccountHist
      BY <2>1, <2>2, <2>4 DEF AccountHist, BookInv, trees, ivars, Batch, DeviceOf
    <2> QED BY <1>3, <2>3, <2>4
  <1>4. CASE Exit
      BY <1>4 DEF Exit, BookInv, trees, ivars, Batch
  <1>5. CASE SwapTrees
    <2>1. dstat_curr \in 0..1 /\ 1 - dstat_curr # dstat_curr
      BY DEF DstatInv, DstatTypes
    <2> QED BY <1>5, <2>1 DEF SwapTrees, BookInv, DeviceOf
  <1>6. CASE TakeList
    <2>1. /\ finished # dstat_curr /\ dstat_curr \in DOMAIN dstat_tree
          /\ dstat_tree'[dstat_curr] = dstat_tree[dstat_curr]
      BY <1>6 DEF TakeList, BookInv, DstatInv, DstatTypes
    <2>2. printed \in Seq(Seq(Stats)) /\ <<>> \in Seq(Stats)
      BY DEF BookInv
    <2>3. CASE out' = <<>>
      <3>1. printed' = printed /\ ipc' = "sleep"
        <4>1. printed' = printed \o <<>>
          BY <1>6, <2>3 DEF TakeList
        <4> QED BY <1>6, <2>2, <2>3, <4>1, ConcatEmptySeq DEF TakeList
      <3> QED BY <1>6, <2>1, <3>1 DEF TakeList, BookInv, DeviceOf
    <2>4. CASE out' # <<>>
      <3>1. printed' = printed \o <<<<>>>> /\ ipc' = "print"
        BY <1>6, <2>4 DEF TakeList
      <3>2. printed' = Append(printed, <<>>)
        BY <2>2, <3>1, AppendIsConcat
      <3>3. /\ printed' \in Seq(Seq(Stats)) /\ Len(printed') = Len(printed) + 1
            /\ printed'[Len(printed')] = <<>> /\ Len(printed) \in Nat
        BY <2>2, <3>2, AppendIs
      <3>4. printed' # <<>> /\ Batch' = <<>> /\ Len(out') \in Nat /\ Len(Batch') = 0
        <4>1. out' \in Seq(Dstats)
          BY <1>6 DEF TakeList, DstatInv, DstatTypes
        <4> QED BY <3>3, <4>1 DEF Batch
      <3> QED BY <1>6, <2>1, <3>1, <3>3, <3>4 DEF TakeList, BookInv, DeviceOf
    <2> QED BY <2>3, <2>4
  <1>7. CASE PrintStat
    <2>1. printed \in Seq(Seq(Stats)) /\ printed # <<>> /\ Len(Batch) < Len(out)
      BY <1>7 DEF PrintStat, BookInv
    <2>2. /\ Len(printed) \in 1..Len(printed) /\ Batch \in Seq(Stats)
          /\ Len(Batch) \in Nat
      <3>1. Len(printed) \in 1..Len(printed)
        BY <2>1
      <3> QED BY <2>1, <3>1 DEF Batch
    <2>3. /\ out \in Seq(Dstats) /\ Len(Batch) + 1 \in 1..Len(out)
      BY <2>1, <2>2 DEF DstatInv, DstatTypes
    <2>4. stat[out[Len(Batch) + 1]] \in Stats
      BY <2>3 DEF BookInv
    <2> DEFINE s == Append(Batch, stat[out[Len(Batch) + 1]])
    <2>5. s \in Seq(Stats) /\ Len(s) = Len(Batch) + 1
      BY <2>2, <2>4, AppendIs
    <2>6. printed' = [printed EXCEPT ![Len(printed)] = s]
      BY <1>7 DEF PrintStat, Batch
    <2> HIDE DEF s
    <2>7. /\ printed' \in Seq(Seq(Stats)) /\ Len(printed') = Len(printed)
          /\ printed'[Len(printed)] = s
      BY <2>1, <2>2, <2>5, <2>6, ExceptSeq
    <2>8. printed' # <<>> /\ Len(Batch') <= Len(out)
      BY <2>1, <2>2, <2>3, <2>5, <2>7 DEF Batch
    <2> QED BY <1>7, <2>7, <2>8 DEF PrintStat, BookInv, trees, ivars, DeviceOf
  <1>8. CASE Recycle
      BY <1>8 DEF Recycle, BookInv, DeviceOf
  <1>9. CASE UNCHANGED vars
      BY <1>9 DEF vars, gvars, trees, ivars, BookInv, Batch, DeviceOf
  <1> QED
      BY <1>1, <1>2, <1>3, <1>4, <1>5, <1>6, <1>7, <1>8, <1>9
         DEF Next, Gather, Interval


LEMMA NextCount ==
    TraceInv /\ DstatInv /\ MemoryLeft /\ ReadInv /\ BookInv /\ CountInv /\ [Next]_vars
        => CountInv'
  <1> SUFFICES ASSUME TraceInv, DstatInv, MemoryLeft, ReadInv, BookInv, CountInv,
                      [Next]_vars
               PROVE  CountInv'
      OBVIOUS
  <1>1. /\ dstat_list[0] \in Seq(Dstats) /\ dstat_list[1] \in Seq(Dstats)
        /\ Len(dstat_list[0]) \in Nat /\ Len(dstat_list[1]) \in Nat
        /\ Len(pairs) \in Nat /\ Len(reads) \in Nat /\ MaxTraces \in Nat
        /\ Len(out) \in Nat /\ DOMAIN dstat_list = 0..1
    <2>1. /\ dstat_list[0] \in Seq(Dstats) /\ dstat_list[1] \in Seq(Dstats)
          /\ out \in Seq(Dstats) /\ pairs \in Seq(Pair) /\ reads \in Seq(Trace)
          /\ DOMAIN dstat_list = 0..1
      BY DEF DstatInv, DstatTypes, ReadInv
    <2> QED BY <2>1, BlkiomonAssumption
  <1>2. /\ Listed + (IF gpc = "get" THEN 1 ELSE 0) <= Len(pairs)
        /\ Len(pairs) <= Len(reads) /\ Len(reads) <= MaxTraces
        /\ Len(out) <= MaxTraces
        /\ \A n \in DOMAIN printed : Len(printed[n]) <= MaxTraces
      BY DEF CountInv
  <1>10. Listed \in Nat /\ Listed' \in Nat
    <2>1. DstatTypes /\ DstatTypes'
      BY NextDstatInv DEF DstatInv
    <2>2. /\ dstat_list[0] \in Seq(Dstats) /\ dstat_list[1] \in Seq(Dstats)
          /\ dstat_list'[0] \in Seq(Dstats) /\ dstat_list'[1] \in Seq(Dstats)
      BY <2>1 DEF DstatTypes
    <2>3. \A u, v \in Seq(Dstats) : Len(u) + Len(v) \in Nat
      OBVIOUS
    <2> QED BY <2>2, <2>3, Zenon DEF Listed
  <1>3. ASSUME NEW b \in Bits, StoreTrace(b) \/ MatchTrace(b) \/ MismatchTrace(b)
        PROVE  CountInv'
    <2>1. /\ gpc = "read" /\ Len(reads) < MaxTraces
          /\ UNCHANGED <<dstat_list, out, printed>>
          /\ \/ UNCHANGED <<gpc, pairs>>
             \/ Len(pairs') = Len(pairs) + 1
      BY <1>3, ReadTask DEF trees, ivars
    <2>2. Len(reads') = Len(reads) + 1
      BY <1>3, ReadIs, ReadPairs DEF ReadInv
    <2>3. Listed' = Listed
      BY <2>1 DEF Listed
    <2> QED BY <1>1, <1>2, <1>10, <2>1, <2>2, <2>3 DEF CountInv
  <1>4. CASE GetDstat
    <2>1. gpc = "get" /\ gpc' = "minmax" /\ UNCHANGED <<out, reads, pairs, printed>>
      BY <1>4 DEF GetDstat, ivars
    <2>2. CASE UNCHANGED dstat_list
      <3>1. Listed' = Listed
        BY <2>2 DEF Listed
      <3> QED BY <1>1, <1>2, <1>10, <2>1, <3>1 DEF CountInv
    <2>3. CASE dstat_list' # dstat_list
      <3> DEFINE new == IF vacant_dstats # <<>> THEN Head(vacant_dstats)
                        ELSE Fresh(Dstats, DstatsInUse)
      <3>1. dstat_list' = [dstat_list EXCEPT ![dstat_curr] = <<new>> \o @]
        BY <1>4, <2>3 DEF GetDstat, trees
      <3>2. new \in Dstats
        <4>1. CASE vacant_dstats # <<>>
          BY <4>1, HeadTailProperties DEF DstatInv, DstatTypes
        <4>2. CASE vacant_dstats = <<>>
          BY <2>1, <4>2 DEF MemoryLeft, Fresh
        <4> QED BY <4>1, <4>2
      <3> HIDE DEF new
      <3>3. dstat_curr \in 0..1 /\ (dstat_curr = 0 \/ dstat_curr = 1)
        BY DEF DstatInv, DstatTypes
      <3>4. Len(<<new>> \o dstat_list[dstat_curr]) = Len(dstat_list[dstat_curr]) + 1
        BY <1>1, <3>2, <3>3, ConsProperties
      <3> DEFINE longer == <<new>> \o dstat_list[dstat_curr]
      <3>5. dstat_list' = [dstat_list EXCEPT ![dstat_curr] = longer]
        BY <3>1
      <3>6. Len(longer) = Len(dstat_list[dstat_curr]) + 1
        BY <3>4
      <3> HIDE DEF longer
      <3>7. Listed' = Listed + 1
        <4>1. CASE dstat_curr = 0
          <5>1. dstat_list'[0] = longer /\ dstat_list'[1] = dstat_list[1]
            BY <1>1, <3>5, <4>1
          <5> QED BY <1>1, <3>6, <4>1, <5>1 DEF Listed
        <4>2. CASE dstat_curr = 1
          <5>1. dstat_list'[1] = longer /\ dstat_list'[0] = dstat_list[0]
            BY <1>1, <3>5, <4>2
          <5> QED BY <1>1, <3>6, <4>2, <5>1 DEF Listed
        <4> QED BY <3>3, <4>1, <4>2
      <3> QED BY <1>1, <1>2, <1>10, <2>1, <3>7 DEF CountInv
    <2> QED BY <2>2, <2>3
  <1>5. CASE TakeList
    <2>1. /\ finished \in 0..1 /\ out' = dstat_list[finished]
          /\ dstat_list' = [dstat_list EXCEPT ![finished] = <<>>]
          /\ printed' = printed \o (IF out' = <<>> THEN <<>> ELSE <<<<>>>>)
          /\ UNCHANGED <<gpc, reads, pairs>>
      BY <1>5 DEF TakeList, DstatInv, DstatTypes
    <2>2. finished = 0 \/ finished = 1
      BY <2>1
    <2>3. Listed' <= Listed /\ Len(out') <= Listed /\ Len(out') \in Nat
      <3>1. CASE finished = 0
        <4>1. dstat_list'[0] = <<>> /\ dstat_list'[1] = dstat_list[1]
          BY <1>1, <2>1, <3>1
        <4> QED BY <1>1, <2>1, <3>1, <4>1 DEF Listed
      <3>2. CASE finished = 1
        <4>1. dstat_list'[1] = <<>> /\ dstat_list'[0] = dstat_list[0]
          BY <1>1, <2>1, <3>2
        <4> QED BY <1>1, <2>1, <3>2, <4>1 DEF Listed
      <3> QED BY <2>2, <3>1, <3>2
    <2>4. \A n \in DOMAIN printed' : Len(printed'[n]) <= MaxTraces
      <3>1. printed \in Seq(Seq(Stats)) /\ <<>> \in Seq(Stats)
        BY DEF BookInv
      <3>2. CASE out' = <<>>
        <4>1. printed' = printed
          BY <2>1, <3>1, <3>2, ConcatEmptySeq
        <4> QED BY <1>2, <4>1
      <3>3. CASE out' # <<>>
        <4>1. printed' = Append(printed, <<>>)
          BY <2>1, <3>1, <3>3, AppendIsConcat
        <4>2. /\ printed' \in Seq(Seq(Stats)) /\ Len(printed') = Len(printed) + 1
              /\ Len(printed) \in Nat
              /\ \A n \in 1..Len(printed) : printed'[n] = printed[n]
              /\ printed'[Len(printed) + 1] = <<>>
          BY <3>1, <4>1, AppendIs
        <4>3. \A n \in DOMAIN printed' : n \in DOMAIN printed \/ n = Len(printed) + 1
          BY <3>1, <4>2
        <4>4. Len(<<>>) = 0
          OBVIOUS
        <4>5. \A n \in DOMAIN printed : n \in 1..Len(printed)
          BY <3>1
        <4>6. ASSUME NEW n \in DOMAIN printed' PROVE Len(printed'[n]) <= MaxTraces
          <5>1. CASE n \in DOMAIN printed
            BY <1>2, <4>2, <4>5, <5>1
          <5>2. CASE n = Len(printed) + 1
            BY <1>1, <4>2, <4>4, <5>2
          <5> QED BY <4>3, <5>1, <5>2
        <4> QED BY <4>6
      <3> QED BY <3>2, <3>3
    <2>5. Len(out') <= MaxTraces
      BY <1>1, <1>2, <1>10, <2>3
    <2>6. Listed' + (IF gpc = "get" THEN 1 ELSE 0) <= Len(pairs)
      BY <1>1, <1>2, <1>10, <2>3
    <2> QED BY <1>2, <2>1, <2>4, <2>5, <2>6 DEF CountInv
  <1>6. CASE PrintStat
    <2>1. printed \in Seq(Seq(Stats)) /\ printed # <<>> /\ Len(Batch) < Len(out)
      BY <1>6 DEF PrintStat, BookInv
    <2>2. /\ Len(printed) \in 1..Len(printed) /\ DOMAIN printed = 1..Len(printed)
          /\ Batch \in Seq(Stats) /\ Len(Batch) \in Nat
      <3>1. Len(printed) \in 1..Len(printed)
        BY <2>1
      <3> QED BY <2>1, <3>1 DEF Batch
    <2>3. stat[out[Len(Batch) + 1]] \in Stats
      <3>1. out[Len(Batch) + 1] \in Dstats
        <4>1. out \in Seq(Dstats) /\ Len(Batch) + 1 \in 1..Len(out)
          BY <1>1, <2>1, <2>2 DEF DstatInv, DstatTypes
        <4> QED BY <4>1
      <3> QED BY <3>1 DEF BookInv
    <2> DEFINE s == Append(Batch, stat[out[Len(Batch) + 1]])
    <2>4. Len(s) = Len(Batch) + 1
      BY <2>2, <2>3, AppendIs
    <2>5. printed' = [printed EXCEPT ![Len(printed)] = s]
      BY <1>6 DEF PrintStat, Batch
    <2> HIDE DEF s
    <2>6. \A n \in DOMAIN printed' : Len(printed'[n]) <= MaxTraces
      BY <1>1, <1>2, <2>1, <2>2, <2>4, <2>5
    <2>7. UNCHANGED <<dstat_list, gpc, pairs, reads, out>>
      BY <1>6 DEF PrintStat, trees, ivars
    <2> QED BY <1>2, <2>6, <2>7 DEF CountInv, Listed
  <1>7. ASSUME UNCHANGED <<dstat_list, pairs, reads, printed>>,
               gpc' # "get" \/ gpc' = gpc,
               out' = out \/ Len(out') = 0
        PROVE  CountInv'
      BY <1>1, <1>2, <1>7, <1>10 DEF CountInv, Listed
  <1>8. CASE AccountMinmax \/ AccountHist \/ Exit \/ SwapTrees \/ Recycle
      BY <1>7, <1>8 DEF AccountMinmax, AccountHist, Exit, SwapTrees, Recycle, trees,
         ivars
  <1>9. CASE UNCHANGED vars
      BY <1>7, <1>9 DEF vars, gvars, trees, ivars
  <1> QED
      BY <1>3, <1>4, <1>5, <1>6, <1>8, <1>9 DEF Next, Gather, Interval

-----------------------------------------------------------------------------
(* Every pair in one place at most.                                        *)

PrintedAt(k) ==
    {x \in (1..Len(printed)) \X (1..MaxTraces) :
        /\ x[2] \in DOMAIN printed[x[1]]
        /\ k \in printed[x[1]][x[2]].minmax}
GatheredIn(k) == {d \in Gathered : k \in stat[d].minmax}

OnePlace(k) ==
    /\ \A x, y \in PrintedAt(k) : x = y
    /\ \A d, e \in GatheredIn(k) : d = e
    /\ PrintedAt(k) = {} \/ GatheredIn(k) = {}
NoPlace(k) == PrintedAt(k) = {} /\ GatheredIn(k) = {}

Absent(k) ==
    /\ \A n \in DOMAIN printed : \A i \in DOMAIN printed[n] :
          k \notin printed[n][i].minmax
    /\ \A d \in Gathered : k \notin stat[d].minmax
RightDevice(k) ==
    /\ \A n \in DOMAIN printed : \A i \in DOMAIN printed[n] :
          k \in printed[n][i].minmax => printed[n][i].device = DeviceOf(k)
    /\ \A d \in Gathered : k \in stat[d].minmax => stat[d].device = DeviceOf(k)

\* A pair is nowhere before it is accounted, and then in one place unless the
\* interval ended in between.
PlaceInv ==
    \A k \in Nat \ {0} :
        /\ OnePlace(k)
        /\ k > Len(pairs) \/ (k = pair /\ gpc \in {"get", "minmax"}) => NoPlace(k)
        /\ k <= Len(pairs) /\ k \notin late /\ (k = pair => gpc = "hist")
               => ~NoPlace(k)
        /\ k <= Len(pairs) => RightDevice(k)

LEMMA InitPlace == Init => PlaceInv
  <1> SUFFICES ASSUME Init, NEW k \in Nat \ {0}
               PROVE  /\ OnePlace(k) /\ NoPlace(k)
                      /\ ~(k <= Len(pairs))
      BY DEF PlaceInv
  <1>1. printed = <<>> /\ pairs = <<>> /\ Gathered = {}
    <2>1. dstat_tree[0] = {} /\ dstat_tree[1] = {} /\ ipc # "print"
      BY DEF Init
    <2> QED BY <2>1 DEF Init, Gathered, Unprinted
  <1>2. GatheredIn(k) = {}
      BY <1>1 DEF GatheredIn
  <1>3. Len(printed) = 0 /\ Len(pairs) = 0
      BY <1>1
  <1>4. PrintedAt(k) = {}
    <2>1. 1..Len(printed) = {}
      BY <1>3
    <2> QED BY <2>1 DEF PrintedAt
  <1> QED BY <1>2, <1>3, <1>4 DEF OnePlace, NoPlace

\* A step that prints nothing and leaves the gathered statistics as they are,
\* but for their histograms.
LEMMA SamePlaces ==
    ASSUME printed' = printed, Gathered' = Gathered,
           \A d \in Gathered : stat'[d].minmax = stat[d].minmax
                               /\ stat'[d].device = stat[d].device,
           NEW k
    PROVE  /\ OnePlace(k)' <=> OnePlace(k)
           /\ NoPlace(k)' <=> NoPlace(k)
           /\ Absent(k)' <=> Absent(k)
           /\ DeviceOf(k)' = DeviceOf(k) => (RightDevice(k)' <=> RightDevice(k))
  <1>1. PrintedAt(k)' = PrintedAt(k)
      BY DEF PrintedAt
  <1>2. GatheredIn(k)' = GatheredIn(k)
      BY DEF GatheredIn
  <1> QED BY <1>1, <1>2 DEF OnePlace, NoPlace, Absent, RightDevice

LEMMA GatheredStays ==
    ASSUME UNCHANGED <<dstat_tree, ipc, out, printed>>
    PROVE  Gathered' = Gathered
    BY DEF Gathered, Unprinted, Batch

\* Every statistic that was printed is among the counted ones.
LEMMA PrintedCounted ==
    ASSUME BookInv, CountInv
    PROVE  /\ DOMAIN printed = 1..Len(printed)
           /\ \A n \in DOMAIN printed : DOMAIN printed[n] \subseteq 1..MaxTraces
           /\ \A k : NoPlace(k) => Absent(k)
  <1>1. printed \in Seq(Seq(Stats)) /\ DOMAIN printed = 1..Len(printed)
      BY DEF BookInv
  <1>2. ASSUME NEW n \in DOMAIN printed PROVE DOMAIN printed[n] \subseteq 1..MaxTraces
    <2>1. printed[n] \in Seq(Stats) /\ Len(printed[n]) <= MaxTraces
      BY <1>1 DEF CountInv
    <2>2. DOMAIN printed[n] = 1..Len(printed[n]) /\ Len(printed[n]) \in Nat
      BY <2>1
    <2> QED BY <2>1, <2>2, BlkiomonAssumption
  <1>3. ASSUME NEW k, NoPlace(k) PROVE Absent(k)
    <2>1. ASSUME NEW n \in DOMAIN printed, NEW i \in DOMAIN printed[n]
          PROVE  k \notin printed[n][i].minmax
      <3>1. <<n, i>> \in (1..Len(printed)) \X (1..MaxTraces)
        BY <1>1, <1>2
      <3> QED BY <1>3, <3>1 DEF NoPlace, PrintedAt
    <2>2. \A d \in Gathered : k \notin stat[d].minmax
      BY <1>3 DEF NoPlace, GatheredIn
    <2> QED BY <2>1, <2>2 DEF Absent
  <1> QED BY <1>1, <1>2, <1>3

LEMMA ReadPlace ==
    ASSUME TraceInv, MemoryLeft, ReadInv, BookInv, CountInv, PlaceInv, NEW b \in Bits,
           StoreTrace(b) \/ MatchTrace(b) \/ MismatchTrace(b)
    PROVE  PlaceInv'
  <1>1. /\ gpc = "read" /\ UNCHANGED <<trees, stat, p, ivars, printed, late>>
        /\ \/ UNCHANGED <<gpc, pair, pairs>>
           \/ /\ gpc' \in {"get", "killed"} /\ pair' = Len(pairs) + 1
              /\ Len(pairs') = Len(pairs) + 1
      BY ReadTask
  <1>2. /\ Len(pairs) \in Nat
        /\ \A k \in 1..Len(pairs) : DeviceOf(k)' = DeviceOf(k)
      BY ReadIs, ReadPairs DEF ReadInv
  <1>3. Gathered' = Gathered
      BY <1>1, GatheredStays DEF trees, ivars
  <1>4. \A k : /\ OnePlace(k)' <=> OnePlace(k)
               /\ NoPlace(k)' <=> NoPlace(k)
               /\ Absent(k)' <=> Absent(k)
               /\ DeviceOf(k)' = DeviceOf(k) => (RightDevice(k)' <=> RightDevice(k))
      BY <1>1, <1>3, SamePlaces
  <1>5. pair = 0
      BY <1>1 DEF BookInv
  <1> SUFFICES ASSUME NEW k \in Nat \ {0}
               PROVE  /\ OnePlace(k)'
                      /\ k > Len(pairs') \/ (k = pair' /\ gpc' \in {"get", "minmax"})
                             => NoPlace(k)'
                      /\ k <= Len(pairs') /\ k \notin late'
                         /\ (k = pair' => gpc' = "hist")
                             => ~NoPlace(k)'
                      /\ k <= Len(pairs') => RightDevice(k)'
      BY DEF PlaceInv
  <1>6. /\ OnePlace(k)
        /\ k > Len(pairs) => NoPlace(k)
        /\ k <= Len(pairs) /\ k \notin late => ~NoPlace(k)
        /\ k <= Len(pairs) => RightDevice(k)
      BY <1>5 DEF PlaceInv
  <1>7. CASE k <= Len(pairs)
    <2>1. k \in 1..Len(pairs)
      BY <1>2, <1>7
    <2>2. DeviceOf(k)' = DeviceOf(k)
      BY <1>2, <2>1
    <2>3. k # pair' /\ ~(k > Len(pairs'))
      BY <1>1, <1>2, <1>5, <1>7
    <2> QED BY <1>1, <1>4, <1>6, <1>7, <2>2, <2>3
  <1>8. CASE k > Len(pairs)
    <2>1. NoPlace(k)' /\ OnePlace(k)'
      BY <1>4, <1>6, <1>8
    <2>2. Absent(k)'
      BY <1>4, <1>6, <1>8, PrintedCounted
    <2>3. RightDevice(k)'
      BY <2>2 DEF Absent, RightDevice
    <2>4. k <= Len(pairs') => k = pair' /\ gpc' # "hist"
      BY <1>1, <1>2, <1>8
    <2> QED BY <2>1, <2>3, <2>4
  <1> QED BY <1>2, <1>7, <1>8


\* The pairs and their devices stay, and what is to show is shown for a pair.
LEMMA PlaceOfEach ==
    ASSUME UNCHANGED <<reads, pairs>>,
           ASSUME NEW k \in Nat \ {0}
           PROVE  /\ OnePlace(k)'
                  /\ k > Len(pairs) \/ (k = pair' /\ gpc' \in {"get", "minmax"})
                         => NoPlace(k)'
                  /\ k <= Len(pairs) /\ k \notin late' /\ (k = pair' => gpc' = "hist")
                         => ~NoPlace(k)'
                  /\ k <= Len(pairs) => RightDevice(k)'
    PROVE  PlaceInv'
    BY DEF PlaceInv

\* Steps that move no count.
LEMMA StillPlace ==
    ASSUME PlaceInv, UNCHANGED <<reads, pairs, printed>>, late \subseteq late',
           \A k : GatheredIn(k)' = GatheredIn(k),
           \A k : RightDevice(k) => RightDevice(k)',
           gpc' \in {"get", "minmax"} => gpc \in {"get", "minmax"} /\ pair' = pair,
           \A k : (k = pair' => gpc' = "hist") => (k = pair => gpc = "hist")
    PROVE  PlaceInv'
  <1>1. \A k : PrintedAt(k)' = PrintedAt(k)
      BY DEF PrintedAt
  <1>2. \A k : (OnePlace(k)' <=> OnePlace(k)) /\ (NoPlace(k)' <=> NoPlace(k))
      BY <1>1 DEF OnePlace, NoPlace
  <1>3. ASSUME NEW k \in Nat \ {0}
        PROVE  /\ OnePlace(k)'
               /\ k > Len(pairs) \/ (k = pair' /\ gpc' \in {"get", "minmax"})
                      => NoPlace(k)'
               /\ k <= Len(pairs) /\ k \notin late' /\ (k = pair' => gpc' = "hist")
                      => ~NoPlace(k)'
               /\ k <= Len(pairs) => RightDevice(k)'
      BY <1>2 DEF PlaceInv
  <1> QED BY <1>3, PlaceOfEach

LEMMA DevicesStay ==
    ASSUME UNCHANGED <<reads, pairs>> PROVE \A k : DeviceOf(k)' = DeviceOf(k)
    BY DEF DeviceOf

LEMMA BatchIs ==
    ASSUME BookInv, ipc = "print"
    PROVE  /\ Len(printed) \in 1..Len(printed)
           /\ Batch \in Seq(Stats) /\ Len(Batch) \in Nat
  <1>1. printed \in Seq(Seq(Stats)) /\ printed # <<>>
      BY DEF BookInv
  <1>2. Len(printed) \in 1..Len(printed)
      BY <1>1
  <1>3. Batch \in Seq(Stats)
      BY <1>1, <1>2 DEF Batch
  <1> QED BY <1>2, <1>3

\* What is still to be printed is of the list that was taken.
LEMMA UnprintedIs ==
    ASSUME DstatInv, BookInv
    PROVE  /\ out \in Seq(Dstats) /\ DOMAIN out = 1..Len(out) /\ Len(out) \in Nat
           /\ Unprinted \subseteq Range(out) /\ Range(out) \subseteq Dstats
  <1>1. out \in Seq(Dstats) /\ DOMAIN out = 1..Len(out) /\ Len(out) \in Nat
      BY DEF DstatInv, DstatTypes
  <1>2. CASE ipc = "print"
    <2>1. \A k \in Len(Batch) + 1..Len(out) : k \in DOMAIN out
      BY <1>1, <1>2, BatchIs
    <2> QED BY <1>1, <2>1, RangeOfSeq DEF Unprinted, Range
  <1> QED BY <1>1, <1>2, RangeOfSeq DEF Unprinted

LEMMA TreesGathered ==
    ASSUME DstatInv, BookInv
    PROVE  /\ dstat_tree[dstat_curr] \subseteq Gathered
           /\ Gathered \subseteq Dstats
  <1>1. dstat_curr = 0 \/ dstat_curr = 1
      BY DEF DstatInv, DstatTypes
  <1>2. dstat_tree[0] \subseteq Dstats /\ dstat_tree[1] \subseteq Dstats
      BY RangeOfSeq DEF DstatInv, DstatTypes, TreesAreLists
  <1>3. Unprinted \subseteq Dstats
      BY UnprintedIs
  <1> QED BY <1>1, <1>2, <1>3 DEF Gathered

LEMMA GetPlace ==
    ASSUME DstatInv, MemoryLeft, BookInv, PlaceInv, GetDstat
    PROVE  PlaceInv'
  <1> DEFINE dev == Device[reads[pairs[pair].d].req]
             there == {d \in dstat_tree[dstat_curr] : stat[d].device = dev}
             new == IF vacant_dstats # <<>> THEN Head(vacant_dstats)
                    ELSE Fresh(Dstats, DstatsInUse)
  <1>1. /\ gpc = "get" /\ gpc' = "minmax"
        /\ UNCHANGED <<pair, ipc, out, reads, pairs, printed, late>>
      BY DEF GetDstat, ivars
  <1>2. CASE there # {}
    <2>1. UNCHANGED <<dstat_tree, stat>>
      BY <1>2 DEF GetDstat, trees
    <2>2. Gathered' = Gathered
      BY <1>1, <2>1, GatheredStays
    <2>3. \A k : GatheredIn(k)' = GatheredIn(k)
      BY <2>1, <2>2 DEF GatheredIn
    <2>4. \A k : RightDevice(k) => RightDevice(k)'
      BY <1>1, <2>1, <2>2, DevicesStay DEF RightDevice
    <2> QED BY <1>1, <2>3, <2>4, StillPlace
  <1>3. CASE there = {}
    <2>1. /\ stat' = [stat EXCEPT ![new] = Empty(dev)]
          /\ dstat_tree' = [dstat_tree EXCEPT ![dstat_curr] = @ \cup {new}]
      BY <1>3 DEF GetDstat
    <2>2. new \in Dstats /\ new \notin Range(dstat_list[0]) \cup Range(dstat_list[1])
                                       \cup Range(out)
      <3>1. CASE vacant_dstats # <<>>
        <4>1. Head(vacant_dstats) \in Range(vacant_dstats) /\ new \in Dstats
          BY <3>1, TailProperties DEF DstatInv, DstatTypes
        <4> QED BY <3>1, <4>1 DEF DstatInv, DstatsApart
      <3>2. CASE vacant_dstats = <<>>
        <4>1. new \in Dstats /\ new \notin DstatsInUse
          BY <1>1, <3>2 DEF MemoryLeft, Fresh
        <4> QED BY <4>1 DEF DstatsInUse
      <3> QED BY <3>1, <3>2
    <2> HIDE DEF new, dev
    <2>3. /\ DOMAIN stat = Dstats /\ DOMAIN dstat_tree = 0..1
          /\ dstat_curr = 0 \/ dstat_curr = 1
      BY DEF DstatInv, DstatTypes
    <2>4. stat'[new].minmax = {} /\ \A d : d # new => stat'[d] = stat[d]
      BY <2>1, <2>2, <2>3 DEF Empty
    <2>5. new \notin Gathered
      <3>1. Unprinted \subseteq Range(out)
        BY UnprintedIs
      <3> QED BY <2>2, <3>1 DEF Gathered, DstatInv, TreesAreLists
    <2>6. Gathered' = Gathered \cup {new}
      <3>1. Unprinted' = Unprinted
        BY <1>1 DEF Unprinted, Batch
      <3>2. dstat_tree'[0] \cup dstat_tree'[1]
                = dstat_tree[0] \cup dstat_tree[1] \cup {new}
        BY <2>1, <2>3
      <3> QED BY <3>1, <3>2 DEF Gathered
    <2>7. \A k : GatheredIn(k)' = GatheredIn(k)
      BY <2>4, <2>5, <2>6 DEF GatheredIn
    <2>8. \A k : RightDevice(k) => RightDevice(k)'
      BY <1>1, <2>4, <2>5, <2>6, DevicesStay DEF RightDevice
    <2> QED BY <1>1, <2>7, <2>8, StillPlace
  <1> QED BY <1>2, <1>3

LEMMA MinmaxPlace ==
    ASSUME DstatInv, ReadInv, BookInv, CountInv, PlaceInv, AccountMinmax
    PROVE  PlaceInv'
  <1>1. /\ gpc = "minmax" /\ gpc' = "hist"
        /\ stat' = [stat EXCEPT ![p].minmax = @ \cup {pair}]
        /\ UNCHANGED <<dstat_tree, ipc, out, p, pair, reads, pairs, printed, late>>
      BY DEF AccountMinmax, trees, ivars
  <1>2. /\ stat \in [Dstats -> Stats] /\ p \in Dstats
        /\ pair = Len(pairs) /\ pair # 0 /\ pair \in Nat
        /\ stat[p].device = DeviceOf(pair)
        /\ pair \notin late => p \in dstat_tree[dstat_curr]
    <2>1. Len(pairs) \in Nat
      BY DEF ReadInv
    <2> QED BY <1>1, <2>1 DEF BookInv, Updating
  <1>3. Gathered' = Gathered
      BY <1>1, GatheredStays
  <1>4. /\ stat'[p].minmax = stat[p].minmax \cup {pair}
        /\ \A d \in Dstats : stat'[d].device = stat[d].device
        /\ \A d \in Dstats : d # p => stat'[d] = stat[d]
      BY <1>1, <1>2 DEF Stats
  <1>5. Gathered \subseteq Dstats
      BY TreesGathered
  <1>6. \A k : DeviceOf(k)' = DeviceOf(k)
      BY <1>1, DevicesStay
  <1>7. \A k : PrintedAt(k)' = PrintedAt(k)
      BY <1>1 DEF PrintedAt
  <1>8. ASSUME NEW k \in Nat \ {0}
        PROVE  /\ OnePlace(k)'
               /\ k > Len(pairs) \/ (k = pair' /\ gpc' \in {"get", "minmax"})
                      => NoPlace(k)'
               /\ k <= Len(pairs) /\ k \notin late' /\ (k = pair' => gpc' = "hist")
                      => ~NoPlace(k)'
               /\ k <= Len(pairs) => RightDevice(k)'
    <2>1. CASE k # pair
      <3>1. GatheredIn(k)' = GatheredIn(k)
        BY <1>3, <1>4, <1>5, <2>1 DEF GatheredIn
      <3>2. RightDevice(k) => RightDevice(k)'
        BY <1>1, <1>3, <1>4, <1>5, <1>6, <2>1 DEF RightDevice
      <3> QED BY <1>1, <1>7, <2>1, <3>1, <3>2 DEF PlaceInv, OnePlace, NoPlace
    <2>2. CASE k = pair
      <3>1. NoPlace(k) /\ PrintedAt(k) = {} /\ GatheredIn(k) = {}
        BY <1>1, <2>2 DEF PlaceInv, NoPlace
      <3>2. Absent(k)
        BY <3>1, PrintedCounted
      <3>3. GatheredIn(k)' = {p} \cap Gathered
        BY <1>3, <1>4, <1>5, <2>2, <3>2 DEF GatheredIn, Absent
      <3>4. RightDevice(k)'
        BY <1>1, <1>2, <1>3, <1>4, <1>5, <1>6, <2>2, <3>2 DEF Absent, RightDevice
      <3>5. k \notin late => p \in Gathered
        BY <1>2, <2>2, TreesGathered
      <3> QED BY <1>1, <1>2, <1>7, <2>2, <3>1, <3>3, <3>4, <3>5 DEF OnePlace, NoPlace
    <2> QED BY <2>1, <2>2
  <1> QED BY <1>1, <1>8, PlaceOfEach


\* The pair in hand is counted: the main thread lets go of it.
LEMMA HistPlace ==
    ASSUME DstatInv, BookInv, PlaceInv, AccountHist
    PROVE  PlaceInv'
  <1>1. /\ gpc = "hist" /\ gpc' = "read" /\ pair' = 0
        /\ stat' = [stat EXCEPT ![p].hist = @ \cup {pair}]
        /\ UNCHANGED <<dstat_tree, ipc, out, reads, pairs, printed, late>>
      BY DEF AccountHist, trees, ivars
  <1>2. stat \in [Dstats -> Stats]
      BY DEF BookInv
  <1>3. Gathered' = Gathered /\ Gathered \subseteq Dstats
      BY <1>1, GatheredStays, TreesGathered
  <1>4. \A d \in Dstats : stat'[d].minmax = stat[d].minmax
                          /\ stat'[d].device = stat[d].device
      BY <1>1, <1>2 DEF Stats
  <1>5. \A k : GatheredIn(k)' = GatheredIn(k)
      BY <1>3, <1>4 DEF GatheredIn
  <1>6. \A k : RightDevice(k) => RightDevice(k)'
      BY <1>1, <1>3, <1>4, DevicesStay DEF RightDevice
  <1> QED BY <1>1, <1>5, <1>6, StillPlace

\* The finished list goes to the interval thread, statistic by statistic.
LEMMA TakePlace ==
    ASSUME DstatInv, BookInv, CountInv, PlaceInv, TakeList
    PROVE  PlaceInv'
  <1>1. /\ ipc = "take" /\ out' = dstat_list[finished]
        /\ dstat_tree' = [dstat_tree EXCEPT
                            ![finished] = IF out' = <<>> THEN @ ELSE {}]
        /\ ipc' = IF out' = <<>> THEN "sleep" ELSE "print"
        /\ printed' = printed \o (IF out' = <<>> THEN <<>> ELSE <<<<>>>>)
        /\ UNCHANGED <<stat, gpc, pair, reads, pairs, late>>
      BY DEF TakeList
  <1>2. /\ finished \in 0..1 /\ (finished = 0 \/ finished = 1)
        /\ DOMAIN dstat_tree = 0..1
        /\ out' \in Seq(Dstats) /\ Range(out') = dstat_tree[finished]
      BY <1>1 DEF DstatInv, DstatTypes, TreesAreLists
  <1>3. printed \in Seq(Seq(Stats)) /\ <<>> \in Seq(Stats)
      BY DEF BookInv
  <1>4. Unprinted = {}
      BY <1>1 DEF Unprinted
  <1>5. \A k : DeviceOf(k)' = DeviceOf(k)
      BY <1>1, DevicesStay
  <1>6. CASE out' = <<>>
    <2>1. printed' = printed
      BY <1>1, <1>3, <1>6, ConcatEmptySeq
    <2>2. Gathered' = Gathered
      <3>1. dstat_tree' = dstat_tree /\ Unprinted' = {}
        BY <1>1, <1>2, <1>6 DEF Unprinted
      <3> QED BY <1>4, <3>1 DEF Gathered
    <2>3. \A k : GatheredIn(k)' = GatheredIn(k)
      BY <1>1, <2>2 DEF GatheredIn
    <2>4. \A k : RightDevice(k) => RightDevice(k)'
      BY <1>1, <1>5, <2>1, <2>2 DEF RightDevice
    <2> QED BY <1>1, <2>1, <2>3, <2>4, StillPlace
  <1>7. CASE out' # <<>>
    <2>1. printed' = Append(printed, <<>>)
      BY <1>1, <1>3, <1>7, AppendIsConcat
    <2>2. /\ printed' \in Seq(Seq(Stats)) /\ Len(printed') = Len(printed) + 1
          /\ Len(printed) \in Nat
          /\ \A n \in 1..Len(printed) : printed'[n] = printed[n]
          /\ printed'[Len(printed) + 1] = <<>>
      BY <1>3, <2>1, AppendIs
    <2>3. /\ DOMAIN printed' = 1..Len(printed) + 1
          /\ DOMAIN printed = 1..Len(printed)
          /\ 1..Len(printed) \subseteq 1..Len(printed')
          /\ \A n \in 1..Len(printed) + 1 : n \in 1..Len(printed) \/ n = Len(printed) + 1
          /\ DOMAIN (printed'[Len(printed) + 1]) = {}
      BY <1>3, <2>2
    <2>4. Unprinted' = Range(out')
      <3>1. Batch' = <<>> /\ Len(Batch') = 0
        BY <2>2 DEF Batch
      <3>2. DOMAIN out' = 1..Len(out')
        BY <1>2
      <3> QED BY <1>1, <1>7, <3>1, <3>2 DEF Unprinted, Range
    <2>5. Gathered' = Gathered
      <3>1. dstat_tree'[finished] = {} /\ \A n \in 0..1 :
                n # finished => dstat_tree'[n] = dstat_tree[n]
        BY <1>1, <1>2, <1>7
      <3> QED BY <1>2, <1>4, <2>4, <3>1 DEF Gathered
    <2>6. \A k : GatheredIn(k)' = GatheredIn(k)
      BY <1>1, <2>5 DEF GatheredIn
    <2>7. \A k : RightDevice(k) => RightDevice(k)'
      BY <1>1, <1>5, <2>2, <2>3, <2>5 DEF RightDevice
    <2>8. ASSUME NEW k PROVE PrintedAt(k)' = PrintedAt(k)
      <3>1. ASSUME NEW x \in (1..Len(printed')) \X (1..MaxTraces),
                   x[2] \in DOMAIN printed'[x[1]]
            PROVE  x \in (1..Len(printed)) \X (1..MaxTraces)
                   /\ printed'[x[1]] = printed[x[1]]
        <4>1. x[1] \in 1..Len(printed)
          BY <2>2, <2>3, <3>1
        <4> QED BY <2>2, <4>1
      <3>2. ASSUME NEW x \in (1..Len(printed)) \X (1..MaxTraces)
            PROVE  x \in (1..Len(printed')) \X (1..MaxTraces)
                   /\ printed'[x[1]] = printed[x[1]]
        BY <2>2, <2>3
      <3> QED BY <3>1, <3>2 DEF PrintedAt
    <2>9. \A k : (OnePlace(k)' <=> OnePlace(k)) /\ (NoPlace(k)' <=> NoPlace(k))
      BY <2>6, <2>8 DEF OnePlace, NoPlace
    <2>10. ASSUME NEW k \in Nat \ {0}
        PROVE  /\ OnePlace(k)'
               /\ k > Len(pairs) \/ (k = pair' /\ gpc' \in {"get", "minmax"})
                      => NoPlace(k)'
               /\ k <= Len(pairs) /\ k \notin late' /\ (k = pair' => gpc' = "hist")
                      => ~NoPlace(k)'
               /\ k <= Len(pairs) => RightDevice(k)'
      BY <1>1, <2>7, <2>9 DEF PlaceInv
    <2> QED BY <1>1, <2>10, PlaceOfEach
  <1> QED BY <1>6, <1>7

\* A statistic that is printed is no longer gathered.
LEMMA PrintPlace ==
    ASSUME DstatInv, BookInv, CountInv, PlaceInv, PrintStat
    PROVE  PlaceInv'
  <1> DEFINE n == Len(printed)
             m == Len(Batch) + 1
             d == out[m]
  <1>1. /\ ipc = "print" /\ Len(Batch) < Len(out)
        /\ UNCHANGED <<dstat_tree, dstat_list, stat, gpc, pair, ipc, out, reads, pairs,
                       late>>
      BY DEF PrintStat, trees, ivars
  <1>2. /\ printed \in Seq(Seq(Stats)) /\ n \in 1..n /\ DOMAIN printed = 1..n
        /\ Batch \in Seq(Stats) /\ Len(Batch) \in Nat /\ printed[n] = Batch
        /\ n \in Nat
      BY <1>1, BatchIs DEF BookInv, Batch
  <1>3. /\ out \in Seq(Dstats) /\ DOMAIN out = 1..Len(out) /\ Len(out) \in Nat
        /\ Len(out) <= MaxTraces /\ MaxTraces \in Nat
      BY UnprintedIs, BlkiomonAssumption DEF CountInv
  <1>4. /\ m \in 1..Len(out) /\ m \in 1..MaxTraces /\ m \in Nat
        /\ d \in Dstats /\ stat[d] \in Stats
    <2>1. m \in 1..Len(out) /\ m \in 1..MaxTraces /\ m \in Nat
      BY <1>1, <1>2, <1>3
    <2>2. d \in Dstats
      BY <1>3, <2>1
    <2> QED BY <2>1, <2>2 DEF BookInv
  <1> DEFINE s == Append(Batch, stat[d])
  <1>5. /\ s \in Seq(Stats) /\ DOMAIN s = 1..m
        /\ \A i \in 1..Len(Batch) : s[i] = Batch[i]
        /\ s[m] = stat[d]
      BY <1>2, <1>4, AppendIs
  <1>6. printed' = [printed EXCEPT ![n] = s]
      BY DEF PrintStat, Batch
  <1> HIDE DEF s
  <1>7. /\ Len(printed') = n /\ DOMAIN printed' = 1..n /\ printed'[n] = s
        /\ \A l \in 1..n : l # n => printed'[l] = printed[l]
    <2>1. /\ printed' \in Seq(Seq(Stats)) /\ Len(printed') = n
          /\ \A l \in 1..n : printed'[l] = IF l = n THEN s ELSE printed[l]
      BY <1>2, <1>5, <1>6, ExceptSeq
    <2>2. DOMAIN printed' = 1..n
      BY <2>1
    <2> QED BY <1>2, <2>1, <2>2
  <1>8. /\ d \in Gathered /\ Gathered' = Gathered \ {d}
    <2>1. Unprinted = {out[i] : i \in m..Len(out)}
      BY <1>1 DEF Unprinted
    <2>2. Unprinted' = {out[i] : i \in m + 1..Len(out)}
      <3>1. Batch' = s /\ Len(s) = m
        <4>1. Len(s) = m
          BY <1>4, <1>5
        <4> QED BY <1>7, <4>1 DEF Batch
      <3> QED BY <1>1, <3>1 DEF Unprinted
    <2>3. \A i \in m..Len(out) : i = m \/ i \in m + 1..Len(out)
      BY <1>3, <1>4
    <2>4. m \in m..Len(out) /\ m + 1..Len(out) \subseteq m..Len(out)
          /\ m \notin m + 1..Len(out) /\ m..Len(out) \subseteq 1..Len(out)
      BY <1>3, <1>4
    <2>5. \A i, j \in 1..Len(out) : out[i] = out[j] => i = j
      BY <1>3 DEF DstatInv, DstatsApart, IsInjective
    <2>6. d \in Range(out)
      BY <1>3, <1>4 DEF Range
    <2>7. d \notin dstat_tree[0] \cup dstat_tree[1]
      BY <2>6 DEF DstatInv, DstatsApart, TreesAreLists
    <2> HIDE DEF m
    <2>8. d \in Unprinted
      BY <2>1, <2>4
    <2>9. Unprinted' = Unprinted \ {d}
      <3>1. \A i \in m + 1..Len(out) : out[i] # d
        BY <2>4, <2>5
      <3> QED BY <2>1, <2>2, <2>3, <2>4, <3>1
    <2> QED BY <1>1, <2>7, <2>8, <2>9 DEF Gathered
  <1>9. \A k : DeviceOf(k)' = DeviceOf(k)
      BY <1>1, DevicesStay
  <1>10. PICK N, M, D : N = n /\ M = m /\ D = d
      OBVIOUS
  <1>11. /\ DOMAIN printed = 1..N /\ DOMAIN printed' = 1..N /\ N \in 1..N
         /\ \A l \in 1..N : l # N => printed'[l] = printed[l]
         /\ DOMAIN (printed'[N]) = 1..M /\ M \in 1..M /\ M \in 1..MaxTraces
         /\ DOMAIN (printed[N]) = 1..Len(Batch)
         /\ \A i \in 1..M : i # M => i \in 1..Len(Batch)
         /\ M \notin 1..Len(Batch) /\ 1..Len(Batch) \subseteq 1..M
         /\ \A i \in 1..Len(Batch) : printed'[N][i] = printed[N][i]
         /\ printed'[N][M] = stat[D]
         /\ Len(printed) = N /\ Len(printed') = N
    <2>1. M \in 1..M /\ (\A i \in 1..M : i # M => i \in 1..Len(Batch))
          /\ M \notin 1..Len(Batch) /\ 1..Len(Batch) \subseteq 1..M
      BY <1>2, <1>4, <1>10
    <2> HIDE DEF n, m, d
    <2> QED BY <1>2, <1>4, <1>5, <1>7, <1>10, <2>1
  <1>12. D \in Gathered /\ Gathered' = Gathered \ {D} /\ stat' = stat
      BY <1>1, <1>8, <1>10
  <1> HIDE DEF n, m, d
  <1>13. ASSUME NEW k \in Nat \ {0}
         PROVE  /\ OnePlace(k)'
                /\ k > Len(pairs) \/ (k = pair' /\ gpc' \in {"get", "minmax"})
                       => NoPlace(k)'
                /\ k <= Len(pairs) /\ k \notin late' /\ (k = pair' => gpc' = "hist")
                       => ~NoPlace(k)'
                /\ k <= Len(pairs) => RightDevice(k)'
    <2>1. PrintedAt(k)' = PrintedAt(k) \cup
                              (IF k \in stat[D].minmax THEN {<<N, M>>} ELSE {})
      <3>1. ASSUME NEW x \in (1..N) \X (1..MaxTraces)
            PROVE  /\ x[2] \in DOMAIN printed'[x[1]] /\ k \in printed'[x[1]][x[2]].minmax
                   <=> \/ /\ x[2] \in DOMAIN printed[x[1]]
                          /\ k \in printed[x[1]][x[2]].minmax
                       \/ x = <<N, M>> /\ k \in stat[D].minmax
        <4>1. PICK i \in 1..N, j \in 1..MaxTraces : x = <<i, j>>
          OBVIOUS
        <4>2. x[1] = i /\ x[2] = j /\ (x = <<N, M>> <=> i = N /\ j = M)
          BY <4>1
        <4>3. CASE i # N
          BY <1>11, <4>2, <4>3
        <4>4. CASE i = N
          BY <1>11, <4>2, <4>4
        <4> QED BY <4>3, <4>4
      <3>2. <<N, M>> \in (1..N) \X (1..MaxTraces)
        BY <1>11
      <3> QED BY <1>11, <3>1, <3>2 DEF PrintedAt
    <2>2. GatheredIn(k)' = GatheredIn(k) \ {D}
      BY <1>12 DEF GatheredIn
    <2>3. D \in GatheredIn(k) <=> k \in stat[D].minmax
      BY <1>12 DEF GatheredIn
    <2>4. OnePlace(k)' /\ (NoPlace(k)' <=> NoPlace(k))
      <3>1. OnePlace(k)
        BY DEF PlaceInv
      <3> QED BY <2>1, <2>2, <2>3, <3>1 DEF OnePlace, NoPlace
    <2>5. RightDevice(k) => RightDevice(k)'
      <3> SUFFICES ASSUME RightDevice(k) PROVE RightDevice(k)'
        OBVIOUS
      <3>1. k \in stat[D].minmax => stat[D].device = DeviceOf(k)
        BY <1>12 DEF RightDevice
      <3>2. \A l \in DOMAIN printed' : \A i \in DOMAIN printed'[l] :
                k \in printed'[l][i].minmax => printed'[l][i].device = DeviceOf(k)
        <4> SUFFICES ASSUME NEW l \in 1..N, NEW i \in DOMAIN printed'[l],
                            k \in printed'[l][i].minmax
                     PROVE  printed'[l][i].device = DeviceOf(k)
          BY <1>11
        <4>1. CASE l # N
          BY <1>11, <4>1 DEF RightDevice
        <4>2. CASE l = N /\ i = M
          BY <1>11, <3>1, <4>2
        <4>3. CASE l = N /\ i # M
          <5>1. i \in DOMAIN printed[N] /\ printed'[N][i] = printed[N][i]
            BY <1>11, <4>3
          <5> QED BY <1>11, <4>3, <5>1 DEF RightDevice
        <4> QED BY <4>1, <4>2, <4>3
      <3>3. \A e \in Gathered' : k \in stat'[e].minmax => stat'[e].device = DeviceOf(k)
        BY <1>12 DEF RightDevice
      <3> QED BY <1>9, <3>2, <3>3 DEF RightDevice
    <2> QED BY <1>1, <2>4, <2>5 DEF PlaceInv
  <1> QED BY <1>1, <1>13, PlaceOfEach

LEMMA RecyclePlace ==
    ASSUME DstatInv, BookInv, PlaceInv, Recycle
    PROVE  PlaceInv'
  <1>1. /\ ipc = "print" /\ Len(Batch) = Len(out) /\ ipc' = "sleep"
        /\ UNCHANGED <<dstat_tree, stat, gpc, pair, reads, pairs, printed, late>>
      BY DEF Recycle
  <1>2. Unprinted = {} /\ Unprinted' = {}
    <2>1. Len(Batch) \in Nat
      BY <1>1, BatchIs
    <2>2. Len(Batch) + 1..Len(out) = {}
      BY <1>1, <2>1
    <2> QED BY <1>1, <2>2 DEF Unprinted
  <1>3. Gathered' = Gathered
      BY <1>1, <1>2 DEF Gathered
  <1>4. \A k : GatheredIn(k)' = GatheredIn(k)
      BY <1>1, <1>3 DEF GatheredIn
  <1>5. \A k : RightDevice(k) => RightDevice(k)'
      BY <1>1, <1>3, DevicesStay DEF RightDevice
  <1> QED BY <1>1, <1>4, <1>5, StillPlace

LEMMA RestPlace ==
    ASSUME BookInv, PlaceInv, Exit \/ SwapTrees \/ UNCHANGED vars
    PROVE  PlaceInv'
  <1>1. /\ UNCHANGED <<dstat_tree, stat, pair, reads, pairs, printed, out>>
        /\ late \subseteq late' /\ (gpc' = gpc \/ (gpc = "read" /\ gpc' = "exited"))
        /\ ipc' = ipc \/ (ipc # "print" /\ ipc' # "print")
    <2>1. CASE Exit
      BY <2>1 DEF Exit, trees, ivars
    <2>2. CASE SwapTrees
      BY <2>2 DEF SwapTrees
    <2>3. CASE UNCHANGED vars
      BY <2>3 DEF vars, trees, ivars
    <2> QED BY <2>1, <2>2, <2>3
  <1>2. Gathered' = Gathered
      BY <1>1 DEF Gathered, Unprinted, Batch
  <1>3. \A k : GatheredIn(k)' = GatheredIn(k)
      BY <1>1, <1>2 DEF GatheredIn
  <1>4. \A k : RightDevice(k) => RightDevice(k)'
      BY <1>1, <1>2, DevicesStay DEF RightDevice
  <1> QED BY <1>1, <1>3, <1>4, StillPlace

LEMMA NextPlace ==
    TraceInv /\ DstatInv /\ MemoryLeft /\ ReadInv /\ BookInv /\ CountInv /\ PlaceInv
        /\ [Next]_vars => PlaceInv'
    BY ReadPlace, GetPlace, MinmaxPlace, HistPlace, TakePlace, PrintPlace,
       RecyclePlace, RestPlace DEF Next, Gather, Interval

\* Counting the places.
LEMMA ReportedAsStated ==
    DstatInv /\ ReadInv /\ BookInv /\ CountInv /\ PlaceInv => PairsReportedOnce
  <1> SUFFICES ASSUME DstatInv, ReadInv, BookInv, CountInv, PlaceInv,
                      NEW k \in DOMAIN pairs
               PROVE
          LET has(s) == k \in s.minmax
              nprinted == Cardinality({x \in (1..Len(printed)) \X (1..MaxTraces) :
                              /\ x[2] \in DOMAIN printed[x[1]]
                              /\ has(printed[x[1]][x[2]])})
              ngathered == Cardinality({d \in Gathered : has(stat[d])})
          IN /\ nprinted + ngathered <= 1
             /\ k \notin late /\ k # pair /\ Up => nprinted + ngathered = 1
             /\ \A s \in PrintedStats \cup {stat[d] : d \in Gathered} :
                   has(s) => s.device = Device[reads[pairs[k].d].req]
      BY DEF PairsReportedOnce
  <1>1. k \in Nat \ {0} /\ k <= Len(pairs)
    <2>1. pairs \in Seq(Pair)
      BY DEF ReadInv
    <2> QED BY <2>1
  <1>2. /\ OnePlace(k) /\ RightDevice(k)
        /\ k \notin late /\ k # pair => ~NoPlace(k)
      BY <1>1 DEF PlaceInv
  <1>3. ASSUME NEW S, \A x, y \in S : x = y
        PROVE  (S = {} /\ Cardinality(S) = 0) \/ (S # {} /\ Cardinality(S) = 1)
    <2>1. CASE S = {}
      BY <2>1, FS_EmptySet
    <2>2. CASE S # {}
      <3>1. PICK x \in S : TRUE
        BY <2>2
      <3>2. S = {x}
        BY <1>3, <3>1
      <3> QED BY <2>2, <3>2, FS_Singleton
    <2> QED BY <2>1, <2>2
  <1>4. \/ PrintedAt(k) = {} /\ Cardinality(PrintedAt(k)) = 0
        \/ PrintedAt(k) # {} /\ Cardinality(PrintedAt(k)) = 1
      BY <1>2, <1>3 DEF OnePlace
  <1>5. \/ GatheredIn(k) = {} /\ Cardinality(GatheredIn(k)) = 0
        \/ GatheredIn(k) # {} /\ Cardinality(GatheredIn(k)) = 1
      BY <1>2, <1>3 DEF OnePlace
  <1>6. /\ Cardinality(PrintedAt(k)) + Cardinality(GatheredIn(k)) <= 1
        /\ k \notin late /\ k # pair
               => Cardinality(PrintedAt(k)) + Cardinality(GatheredIn(k)) = 1
      BY <1>2, <1>4, <1>5 DEF OnePlace, NoPlace
  <1>7. \A s \in PrintedStats \cup {stat[d] : d \in Gathered} :
           k \in s.minmax => s.device = Device[reads[pairs[k].d].req]
      BY <1>2 DEF RightDevice, DeviceOf, PrintedStats, Range
  <1> QED BY <1>6, <1>7 DEF PrintedAt, GatheredIn

\* As long as malloc finds memory, a request whose traces come in order has
\* the pairs of blkiomon_do_trace it should have, and a pair is counted in one
\* statistic, of its device: blkiomon_account loses one only when the interval
\* ends between its lookup and its update, and never counts one twice.
THEOREM ReportTrueHolds == Spec /\ []MemoryLeft => []ReportTrue
  <1> DEFINE Inv == /\ TraceInv /\ DstatInv /\ ReadInv /\ OrderInv
                    /\ BookInv /\ CountInv /\ PlaceInv
  <1>1. Init /\ MemoryLeft => Inv
      BY InitTraceInv, InitDstatInv, InitReads, InitBook, InitPlace
  <1>2. Inv /\ MemoryLeft /\ [Next]_vars => Inv'
      BY NextTraceInv, NextDstatInv, NextReads, NextBook, NextCount, NextPlace
  <1>3. Inv => ReportTrue
      BY PairedAsStated, ReportedAsStated DEF ReportTrue
  <1> QED
    <2> HIDE DEF Inv
    <2> QED BY <1>1, <1>2, <1>3, PTL DEF Spec
=============================================================================
