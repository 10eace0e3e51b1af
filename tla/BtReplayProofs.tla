--------------------------- MODULE BtReplayProofs ---------------------------
(***************************************************************************)
(* Proofs about btreplay and what it replays.  First BtReplay: its type    *)
(* invariant, that the counts of free and outstanding iocbs of every file  *)
(* are right, and that no assert fails.  Then BtRecord: the bunches of a   *)
(* file are the records of the trace, and the replay follows them.         *)
(***************************************************************************)
EXTENDS BtReplay, BtRecord, SequenceTheorems, FiniteSetTheorems,
        WellFoundedInduction, TLAPS

LEMMA NFilesNat == nfiles \in Nat \ {0}
  BY BtReplayAssumption, FS_CardinalityType, FS_EmptySet DEF nfiles
-----------------------------------------------------------------------------
(* The iocbs of a file.                                                    *)

\* The types the accounting needs; the counts may be any integers here.
CountTypes ==
    /\ naios_out \in [Files -> Int] /\ naios_free \in [Files -> Int]
    /\ ntodo \in [Files -> Int] /\ i \in [Files -> Nat]
    /\ nreap \in [Files -> Int] /\ ndone \in [Files -> Int]
    /\ flying \in [Files -> Int]
    /\ spc \in [Files -> SenderStates] /\ rpc \in [Files -> ReaperStates]
    /\ bunch \in [Files -> Nat \ {0}]

\* The sender is inside a bunch of its file.
InBunch(f) ==
    spc[f] \in {"process", "nfree", "asleep", "map", "submit", "count"}

\* What the sender of f holds, and what the reaper of f may take: each relies
\* on a count that the other thread can only change in its favour.
FileInv(f) ==
    /\ naios_free[f] \in Nat /\ naios_out[f] \in Nat /\ flying[f] \in Nat
    /\ InBunch(f) => bunch[f] <= Len(Bunches[f])
    /\ spc[f] \in {"nfree", "asleep"} => i[f] < npkts(f)
    /\ spc[f] = "map" => ntodo[f] \in 0..naios_free[f]
    /\ spc[f] \in {"submit", "count"} => ntodo[f] \in 0..NAios
    /\ rpc[f] = "get" => nreap[f] \in 1..naios_out[f]
    /\ rpc[f] = "reap" => /\ nreap[f] \in 1..naios_out[f]
                          /\ ndone[f] \in 1..nreap[f]
    /\ rpc[f] # "reap" => ndone[f] = 0

Submitted(f) == IF spc[f] = "count" THEN ntodo[f] ELSE 0
Mapped(f)    == IF spc[f] = "submit" THEN ntodo[f] ELSE Submitted(f)

FileCounts(f) ==
    /\ naios_free[f] + naios_out[f] + Mapped(f) = NAios
    /\ flying[f] + ndone[f] = naios_out[f] + Submitted(f)

CountInv ==
    CountTypes /\ \A f \in Files : FileInv(f) /\ FileCounts(f)

LEMMA InitCountInv == Init => CountInv
  BY BtReplayAssumption
     DEF Init, CountInv, CountTypes, FileInv, FileCounts, Submitted, Mapped,
         All, InBunch, SenderStates, ReaperStates
LEMMA BunchTypes ==
    \A f \in Files :
        /\ Len(Bunches[f]) \in Nat
        /\ \A k \in 1..Len(Bunches[f]) : Bunches[f][k] \in Nat \ {0}
  BY BtReplayAssumption

LEMMA NAiosNat == NAios \in Nat \ {0}
  BY BtReplayAssumption

\* What the two threads of f change.
Aios(f) == <<naios_out[f], naios_free[f], flying[f]>>
Send(f) == <<spc[f], bunch[f], i[f], ntodo[f]>>
Reap(f) == <<rpc[f], nreap[f], ndone[f]>>
Same(f) == Aios(f)' = Aios(f) /\ Send(f)' = Send(f) /\ Reap(f)' = Reap(f)

LEMMA SameInv ==
    ASSUME NEW f \in Files, Same(f), FileInv(f), FileCounts(f)
    PROVE  FileInv(f)' /\ FileCounts(f)'
  BY DEF Same, Aios, Send, Reap, FileInv, FileCounts, Submitted, Mapped,
     InBunch, npkts

LEMMA OthersSame ==
    ASSUME CountTypes, NEW f \in Files,
           SenderStep(f) \/ ReaperStep(f) \/ SpuriousWakeup(f)
    PROVE  \A g \in Files \ {f} : Same(g)
  <1> USE DEF CountTypes, Same, Aios, Send, Reap, GoS, GoR, cvs, mvars, aios,
              waits, dones, sender, reaper, WakeReaper, WakeSender
  <1>1. CASE SenderStep(f)
    BY <1>1, SMTT(20)
       DEF SenderStep, SetReplayReady, IterationLoop, WaitIterStart,
       NextBunch, ProcessBunch, NFreeCurrent, IocbsMap, Submit, Count,
       SetIterDone, SetSendDone, SetReplayDone
  <1>2. CASE ReaperStep(f)
    BY <1>2 DEF ReaperStep, ReapCheck, ReapWait, GetEvents, ReclaimIos,
       SetReclaimDone
  <1>3. CASE SpuriousWakeup(f)
    BY <1>3 DEF SpuriousWakeup
  <1> QED
    BY <1>1, <1>2, <1>3

\* The types after a step of f.
LEMMA TypesStep ==
    ASSUME CountTypes, NEW f \in Files, FileInv(f),
           SenderStep(f) \/ ReaperStep(f) \/ SpuriousWakeup(f)
    PROVE  CountTypes'
  <1>0. /\ ntodo[f] \in Int /\ (spc[f] = "nfree" => npkts(f) \in Int)
        /\ (spc[f] = "count" => ntodo[f] \in Nat)
    BY NAiosNat, BunchTypes DEF CountTypes, FileInv, InBunch, npkts
  <1> USE <1>0
      DEF CountTypes, SenderStates, ReaperStates, GoS, GoR, cvs, mvars, aios,
          waits, dones, sender, reaper
  <1>1. CASE SetReplayReady(f)
    BY <1>1 DEF SetReplayReady
  <1>2. CASE IterationLoop(f)
    BY <1>2 DEF IterationLoop
  <1>3. CASE WaitIterStart(f)
    BY <1>3 DEF WaitIterStart
  <1>4. CASE NextBunch(f)
    BY <1>4 DEF NextBunch
  <1>5. CASE ProcessBunch(f)
    BY <1>5 DEF ProcessBunch
  <1>6. CASE NFreeCurrent(f)
    BY <1>6 DEF NFreeCurrent, Smaller
  <1>7. CASE IocbsMap(f)
    BY <1>7 DEF IocbsMap
  <1>8. CASE Submit(f)
    BY <1>8 DEF Submit
  <1>9. CASE Count(f)
    BY <1>9 DEF Count, WakeReaper
  <1>10. CASE SetIterDone(f)
    BY <1>10 DEF SetIterDone
  <1>11. CASE SetSendDone(f)
    BY <1>11 DEF SetSendDone
  <1>12. CASE SetReplayDone(f)
    BY <1>12 DEF SetReplayDone
  <1>13. CASE ReapCheck(f)
    BY <1>13 DEF ReapCheck
  <1>14. CASE ReapWait(f)
    BY <1>14 DEF ReapWait
  <1>15. CASE GetEvents(f)
    BY <1>15 DEF GetEvents, Smaller
  <1>16. CASE ReclaimIos(f)
    BY <1>16 DEF ReclaimIos, WakeSender, Smaller
  <1>17. CASE SetReclaimDone(f)
    BY <1>17 DEF SetReclaimDone
  <1>18. CASE SpuriousWakeup(f)
    BY <1>18 DEF SpuriousWakeup
  <1> QED
    BY <1>1, <1>2, <1>3, <1>4, <1>5, <1>6, <1>7, <1>8, <1>9, <1>10, <1>11,
       <1>12, <1>13, <1>14, <1>15, <1>16, <1>17, <1>18
       DEF SenderStep, ReaperStep

\* The step of a file keeps what is said of it.
LEMMA StepInv ==
    ASSUME CountTypes, NEW f \in Files, FileInv(f), FileCounts(f),
           SenderStep(f) \/ ReaperStep(f) \/ SpuriousWakeup(f)
    PROVE  FileInv(f)' /\ FileCounts(f)'
  <1>0. /\ spc[f] \in {"process", "nfree"} => npkts(f) \in Nat
        /\ spc[f] = "nfree" => i[f] < npkts(f) /\ i[f] \in Nat
    BY BunchTypes DEF CountTypes, FileInv, InBunch, npkts
  <1>c. /\ ntodo[f] \in Int /\ i[f] \in Nat /\ bunch[f] \in Nat \ {0}
        /\ Len(Bunches[f]) \in Nat /\ naios_free[f] \in Nat
    BY BunchTypes DEF CountTypes, FileInv
  <1> USE NAiosNat
  <1>1. CASE SetReplayReady(f)
    <2>1. /\ spc[f] = "ready"
          /\ Aios(f)' = Aios(f)
          /\ Reap(f)' = Reap(f)
          /\ Send(f)' = <<"top", bunch[f], i[f], ntodo[f]>>
      BY <1>1 DEF SetReplayReady, CountTypes, Aios, Send, Reap, GoS, GoR, cvs,
         mvars, aios, waits, dones, sender, reaper
    <2> QED
      BY <2>1, <1>c DEF FileInv, FileCounts, Submitted, Mapped, InBunch, npkts,
         Aios, Send, Reap
  <1>2. CASE IterationLoop(f)
    <2>1. /\ spc[f] = "top"
          /\ Aios(f)' = Aios(f)
          /\ Reap(f)' = Reap(f)
          /\ \/ Send(f)' = <<"end", bunch[f], i[f], ntodo[f]>>
             \/ Send(f)' = <<"start", bunch[f], i[f], ntodo[f]>>
      BY <1>2 DEF IterationLoop, CountTypes, Aios, Send, Reap, GoS, GoR, cvs,
         mvars, aios, waits, dones, sender, reaper
    <2> QED
      BY <2>1, <1>c DEF FileInv, FileCounts, Submitted, Mapped, InBunch, npkts,
         Aios, Send, Reap
  <1>3. CASE WaitIterStart(f)
    <2>1. /\ spc[f] = "start"
          /\ Aios(f)' = Aios(f)
          /\ Reap(f)' = Reap(f)
          /\ Send(f)' = <<"bunch", 1, i[f], ntodo[f]>>
      BY <1>3 DEF WaitIterStart, CountTypes, Aios, Send, Reap, GoS, GoR, cvs,
         mvars, aios, waits, dones, sender, reaper
    <2> QED
      BY <2>1, <1>c DEF FileInv, FileCounts, Submitted, Mapped, InBunch, npkts,
         Aios, Send, Reap
  <1>4. CASE NextBunch(f)
    <2>1. /\ spc[f] = "bunch"
          /\ Aios(f)' = Aios(f)
          /\ Reap(f)' = Reap(f)
          /\ bunch'[f] = bunch[f] /\ i'[f] = 0 /\ ntodo'[f] = ntodo[f]
          /\ \/ spc'[f] = "iterdone"
             \/ spc'[f] = "process" /\ bunch[f] <= Len(Bunches[f])
      BY <1>4, <1>c DEF NextBunch, CountTypes, Aios, Send, Reap, GoS, GoR,
         cvs, mvars, aios, waits, dones, sender, reaper
    <2> QED
      BY <2>1, <1>c DEF FileInv, FileCounts, Submitted, Mapped, InBunch, npkts,
         Aios, Send, Reap
  <1>5. CASE ProcessBunch(f)
    <2>1. /\ spc[f] = "process"
          /\ Aios(f)' = Aios(f)
          /\ Reap(f)' = Reap(f)
          /\ i'[f] = i[f] /\ ntodo'[f] = ntodo[f]
          /\ \/ spc'[f] = "bunch" /\ bunch'[f] = bunch[f] + 1
             \/ spc'[f] = "nfree" /\ bunch'[f] = bunch[f] /\ i[f] < npkts(f)
      BY <1>5, <1>0, <1>c DEF ProcessBunch, CountTypes, Aios, Send, Reap, GoS,
         GoR, cvs, mvars, aios, waits, dones, sender, reaper
    <2>2. FileInv(f)'
      BY <2>1, <1>c DEF FileInv, InBunch, npkts, Aios, Send, Reap
    <2>3. FileCounts(f)'
      BY <2>1, <1>c DEF FileInv, FileCounts, Submitted, Mapped, Aios, Send,
         Reap
    <2> QED
      BY <2>2, <2>3
  <1>6. CASE NFreeCurrent(f)
    <2>1. /\ Aios(f)' = Aios(f)
          /\ Reap(f)' = Reap(f)
          /\ spc[f] = "nfree"
          /\ \/ Send(f)' = <<"asleep", bunch[f], i[f], ntodo[f]>>
             \/ \E n \in 0..naios_free[f] :
                    Send(f)' = <<"map", bunch[f], i[f], n>>
      BY <1>6, <1>0, <1>c DEF NFreeCurrent, Smaller, CountTypes, Aios, Send,
         Reap, GoS, GoR, cvs, mvars, aios, waits, dones, sender, reaper
    <2>2. FileInv(f)'
      BY <2>1, <1>c DEF FileInv, InBunch, npkts, Aios, Send, Reap
    <2>3. FileCounts(f)'
      BY <2>1, <1>c DEF FileInv, FileCounts, Submitted, Mapped, Aios, Send,
         Reap
    <2> QED
      BY <2>2, <2>3
  <1>7. CASE IocbsMap(f)
    <2>1. /\ spc[f] = "map"
          /\ naios_out'[f] = naios_out[f]
          /\ naios_free'[f] = naios_free[f] - ntodo[f]
          /\ flying'[f] = flying[f]
          /\ rpc'[f] = rpc[f] /\ nreap'[f] = nreap[f] /\ ndone'[f] = ndone[f]
          /\ spc'[f] = "submit" /\ bunch'[f] = bunch[f] /\ i'[f] = i[f]
          /\ ntodo'[f] = ntodo[f]
      BY <1>7 DEF IocbsMap, CountTypes, GoS, cvs, mvars, waits, dones, reaper
    <2>2. ntodo[f] \in 0..naios_free[f] /\ naios_free[f] <= NAios
      BY <2>1 DEF FileInv, FileCounts, Mapped, Submitted
    <2>3. FileInv(f)'
      BY <2>1, <2>2, <1>c DEF FileInv, InBunch, npkts
    <2>4. FileCounts(f)'
      BY <2>1, <2>2 DEF FileInv, FileCounts, Submitted, Mapped
    <2> QED
      BY <2>3, <2>4
  <1>8. CASE Submit(f)
    <2>1. /\ spc[f] = "submit"
          /\ Aios(f)' = <<naios_out[f], naios_free[f], flying[f] + ntodo[f]>>
          /\ Reap(f)' = Reap(f)
          /\ Send(f)' = <<"count", bunch[f], i[f], ntodo[f]>>
      BY <1>8 DEF Submit, CountTypes, Aios, Send, Reap, GoS, GoR, cvs, mvars,
         aios, waits, dones, sender, reaper
    <2>2. FileInv(f)'
      BY <2>1, <1>c DEF FileInv, InBunch, npkts, Aios, Send, Reap
    <2>3. FileCounts(f)'
      BY <2>1 DEF FileInv, FileCounts, Submitted, Mapped, Aios, Send, Reap
    <2> QED
      BY <2>2, <2>3
  <1>9. CASE Count(f)
    <2>1. /\ spc[f] = "count"
          /\ naios_out'[f] = naios_out[f] + ntodo[f]
          /\ naios_free'[f] = naios_free[f] /\ flying'[f] = flying[f]
          /\ spc'[f] = "process" /\ bunch'[f] = bunch[f]
          /\ ntodo'[f] = ntodo[f]
          /\ nreap'[f] = nreap[f] /\ ndone'[f] = ndone[f]
          /\ \/ rpc'[f] = rpc[f]
             \/ rpc[f] = "asleep" /\ rpc'[f] = "wait"
      BY <1>9 DEF Count, WakeReaper, CountTypes, GoS, GoR, cvs, mvars, dones
    <2>2. FileInv(f)'
      BY <2>1, <1>c DEF FileInv, InBunch
    <2>3. FileCounts(f)'
      BY <2>1 DEF FileInv, FileCounts, Submitted, Mapped
    <2> QED
      BY <2>2, <2>3
  <1>10. CASE SetIterDone(f)
    <2>1. /\ spc[f] = "iterdone"
          /\ Aios(f)' = Aios(f)
          /\ Reap(f)' = Reap(f)
          /\ Send(f)' = <<"top", bunch[f], i[f], ntodo[f]>>
      BY <1>10 DEF SetIterDone, CountTypes, Aios, Send, Reap, GoS, GoR, cvs,
         mvars, aios, waits, dones, sender, reaper
    <2> QED
      BY <2>1, <1>c DEF FileInv, FileCounts, Submitted, Mapped, InBunch, npkts,
         Aios, Send, Reap
  <1>11. CASE SetSendDone(f)
    <2>1. /\ spc[f] = "end"
          /\ Aios(f)' = Aios(f)
          /\ Reap(f)' = Reap(f)
          /\ Send(f)' = <<"done", bunch[f], i[f], ntodo[f]>>
      BY <1>11 DEF SetSendDone, CountTypes, Aios, Send, Reap, GoS, GoR, cvs,
         mvars, aios, waits, dones, sender, reaper
    <2> QED
      BY <2>1, <1>c DEF FileInv, FileCounts, Submitted, Mapped, InBunch, npkts,
         Aios, Send, Reap
  <1>12. CASE SetReplayDone(f)
    <2>1. /\ spc[f] = "done"
          /\ Aios(f)' = Aios(f)
          /\ Reap(f)' = Reap(f)
          /\ Send(f)' = <<"gone", bunch[f], i[f], ntodo[f]>>
      BY <1>12 DEF SetReplayDone, CountTypes, Aios, Send, Reap, GoS, GoR, cvs,
         mvars, aios, waits, dones, sender, reaper
    <2> QED
      BY <2>1, <1>c DEF FileInv, FileCounts, Submitted, Mapped, InBunch, npkts,
         Aios, Send, Reap
  <1>13. CASE ReapCheck(f)
    <2>1. /\ rpc[f] = "check"
          /\ Aios(f)' = Aios(f)
          /\ Send(f)' = Send(f)
          /\ \/ Reap(f)' = <<"finish", nreap[f], ndone[f]>>
             \/ Reap(f)' = <<"wait", nreap[f], ndone[f]>>
      BY <1>13 DEF ReapCheck, CountTypes, Aios, Send, Reap, GoS, GoR, cvs,
         mvars, aios, waits, dones, sender, reaper
    <2> QED
      BY <2>1, <1>c DEF FileInv, FileCounts, Submitted, Mapped, InBunch, npkts,
         Aios, Send, Reap
  <1>14. CASE ReapWait(f)
    <2>1. /\ rpc[f] = "wait"
          /\ Aios(f)' = Aios(f)
          /\ Send(f)' = Send(f)
          /\ ndone'[f] = ndone[f]
          /\ \/ rpc'[f] = "asleep"
             \/ /\ naios_out[f] # 0
                /\ rpc'[f] = "get" /\ nreap'[f] = naios_out[f]
      BY <1>14 DEF ReapWait, CountTypes, Aios, Send, Reap, GoS, GoR, cvs,
         mvars, aios, waits, dones, sender, reaper
    <2> QED
      BY <2>1, <1>c DEF FileInv, FileCounts, Submitted, Mapped, InBunch, npkts,
         Aios, Send, Reap
  <1>15. CASE GetEvents(f)
    <2>1. /\ rpc[f] = "get"
          /\ Send(f)' = Send(f)
          /\ \E n \in 1..nreap[f] :
                /\ n <= flying[f]
                /\ Aios(f)' = <<naios_out[f], naios_free[f], flying[f] - n>>
                /\ Reap(f)' = <<"reap", nreap[f], n>>
      BY <1>15 DEF GetEvents, Smaller, CountTypes, FileInv, Aios, Send, Reap,
         GoS, GoR, cvs, mvars, aios, waits, dones, sender, reaper
    <2>2. FileInv(f)'
      BY <2>1, <1>c DEF FileInv, InBunch, npkts, Aios, Send, Reap
    <2>3. FileCounts(f)'
      BY <2>1 DEF FileInv, FileCounts, Submitted, Mapped, Aios, Send, Reap
    <2> QED
      BY <2>2, <2>3
  <1>16. CASE ReclaimIos(f)
    <2>1. /\ rpc[f] = "reap"
          /\ naios_out'[f] = naios_out[f] - ndone[f]
          /\ naios_free'[f] = naios_free[f] + ndone[f]
          /\ flying'[f] = flying[f]
          /\ bunch'[f] = bunch[f] /\ i'[f] = i[f] /\ ntodo'[f] = ntodo[f]
          /\ \/ spc'[f] = spc[f]
             \/ spc[f] = "asleep" /\ spc'[f] = "nfree"
          /\ ndone'[f] = 0 /\ nreap'[f] \in 0..naios_out[f] - ndone[f]
          /\ \/ rpc'[f] = "check"
             \/ rpc'[f] = "get" /\ nreap'[f] # 0
      BY <1>16 DEF ReclaimIos, WakeSender, Smaller, CountTypes, FileInv, GoS,
         GoR, cvs, mvars, dones
    <2>2. /\ ndone[f] \in 1..naios_out[f] /\ naios_out[f] \in Nat
          /\ flying[f] \in Nat /\ naios_free[f] \in Nat
      BY <2>1 DEF FileInv
    <2>3. naios_out'[f] \in Nat /\ naios_free'[f] \in Nat /\ flying'[f] \in Nat
      BY <2>1, <2>2
    <2>4. /\ spc'[f] = "map" => ntodo'[f] \in 0..naios_free'[f]
          /\ spc'[f] \in {"submit", "count"} => ntodo'[f] \in 0..NAios
      BY <2>1, <2>2, <1>c DEF FileInv
    <2>5. spc'[f] \in {"nfree", "asleep"} => i'[f] < npkts(f)'
      BY <2>1 DEF FileInv, npkts
    <2>6. InBunch(f)' => bunch'[f] <= Len(Bunches[f])
      BY <2>1 DEF FileInv, InBunch
    <2>7. /\ rpc'[f] = "get" => nreap'[f] \in 1..naios_out'[f]
          /\ rpc'[f] # "reap" /\ ndone'[f] = 0
      BY <2>1, <2>2
    <2>8. FileInv(f)'
      BY <2>3, <2>4, <2>5, <2>6, <2>7 DEF FileInv
    <2>9. FileCounts(f)'
      <3>1. Mapped(f)' = Mapped(f) /\ Submitted(f)' = Submitted(f)
        BY <2>1 DEF Mapped, Submitted
      <3>2. Mapped(f) \in Int /\ Submitted(f) \in Int
        BY <1>c DEF Mapped, Submitted
      <3> QED
        BY <2>1, <2>2, <3>1, <3>2 DEF FileCounts
    <2> QED
      BY <2>8, <2>9
  <1>17. CASE SetReclaimDone(f)
    <2>1. /\ rpc[f] = "finish"
          /\ Aios(f)' = Aios(f)
          /\ Send(f)' = Send(f)
          /\ Reap(f)' = <<"gone", nreap[f], ndone[f]>>
      BY <1>17 DEF SetReclaimDone, CountTypes, Aios, Send, Reap, GoS, GoR,
         cvs, mvars, aios, waits, dones, sender, reaper
    <2> QED
      BY <2>1, <1>c DEF FileInv, FileCounts, Submitted, Mapped, InBunch, npkts,
         Aios, Send, Reap
  <1>18. CASE SpuriousWakeup(f)
    <2>1. /\ Aios(f)' = Aios(f)
          /\ bunch'[f] = bunch[f] /\ i'[f] = i[f] /\ ntodo'[f] = ntodo[f]
          /\ nreap'[f] = nreap[f] /\ ndone'[f] = ndone[f]
          /\ \/ /\ spc[f] = "asleep" /\ spc'[f] = "nfree"
                /\ rpc'[f] = rpc[f]
             \/ /\ rpc[f] = "asleep" /\ rpc'[f] = "wait"
                /\ spc'[f] = spc[f]
      BY <1>18 DEF SpuriousWakeup, CountTypes, Aios, Send, Reap, GoS, GoR,
         cvs, mvars, aios, waits, dones, sender, reaper
    <2> QED
      BY <2>1, <1>c DEF FileInv, FileCounts, Submitted, Mapped, InBunch, npkts,
         Aios, Send, Reap
  <1> QED
    BY <1>1, <1>2, <1>3, <1>4, <1>5, <1>6, <1>7, <1>8, <1>9, <1>10, <1>11,
       <1>12, <1>13, <1>14, <1>15, <1>16, <1>17, <1>18
       DEF SenderStep, ReaperStep

LEMMA NextCountInv == CountInv /\ [Next]_vars => CountInv'
  <1> SUFFICES ASSUME CountInv, [Next]_vars PROVE CountInv'
    OBVIOUS
  <1>1. ASSUME NEW f \in Files,
               SenderStep(f) \/ ReaperStep(f) \/ SpuriousWakeup(f)
        PROVE  CountInv'
    <2>1. \A g \in Files \ {f} : FileInv(g)' /\ FileCounts(g)'
      BY <1>1, OthersSame, SameInv DEF CountInv
    <2> QED
      BY <1>1, <2>1, StepInv, TypesStep DEF CountInv
  <1>2. CASE MainStep \/ SetSignalDone \/ UNCHANGED vars
    <2>1. UNCHANGED <<naios_out, naios_free, ntodo, i, nreap, ndone, flying,
                      spc, rpc, bunch>>
      BY <1>2 DEF vars, mvars, aios, waits, dones, sender, reaper, MainStep,
         MainReady, StartIter, WaitItersDone, WaitReplaysDone,
         WaitReclaimsDone, RemInputFiles, SetSignalDone
    <2>2. CountTypes' /\ \A f \in Files : Same(f)
      BY <2>1 DEF CountInv, CountTypes, Same, Aios, Send, Reap
    <2> QED
      BY <2>2, SameInv DEF CountInv
  <1> QED
    BY <1>1, <1>2 DEF Next, Ended

\* Every iocb of a file is free, outstanding, or in the sender's hands, and
\* every I/O in flight is outstanding or about to be counted (naios_free and
\* naios_out of btreplay, whichever thread is behind).
THEOREM AiosAccountedHolds == Spec => []AiosAccounted
  <1>1. CountInv => AiosAccounted
    BY DEF CountInv, FileCounts, Submitted, Mapped, AiosAccounted
  <1> QED
    BY <1>1, InitCountInv, NextCountInv, PTL DEF Spec
-----------------------------------------------------------------------------
(* The types of the rest.                                                  *)

LEMMA CountRanges ==
    ASSUME CountInv, NEW f \in Files
    PROVE  /\ naios_out[f] \in 0..NAios /\ naios_free[f] \in 0..NAios
           /\ flying[f] \in 0..NAios /\ ndone[f] \in 0..NAios
           /\ spc[f] = "map" => ntodo[f] \in 0..NAios
           /\ rpc[f] = "get" => nreap[f] \in 0..NAios
  <1>1. Mapped(f) \in Nat /\ Submitted(f) \in Nat /\ Submitted(f) <= Mapped(f)
    BY NAiosNat DEF CountInv, FileInv, Mapped, Submitted
  <1>2. /\ ndone[f] \in Nat /\ naios_out[f] \in Nat
        /\ naios_free[f] \in Nat /\ flying[f] \in Nat
    BY DEF CountInv, FileInv
  <1>3. /\ naios_free[f] + naios_out[f] + Mapped(f) = NAios
        /\ flying[f] + ndone[f] = naios_out[f] + Submitted(f)
    BY DEF CountInv, FileCounts
  <1>4. /\ naios_out[f] <= NAios /\ naios_free[f] <= NAios
        /\ flying[f] <= NAios /\ ndone[f] <= NAios
    BY <1>1, <1>2, <1>3, NAiosNat
  <1>5. /\ spc[f] = "map" => ntodo[f] \in 0..naios_free[f]
        /\ rpc[f] = "get" => nreap[f] \in 1..naios_out[f]
    BY DEF CountInv, FileInv
  <1> QED
    BY <1>2, <1>4, <1>5, NAiosNat

\* The variables CountInv does not speak of; a file's iterations are counted
\* below zero only by its last test of the loop.
RestInv ==
    /\ signal_done \in BOOLEAN /\ aborted \in BOOLEAN
    /\ mpc \in {"ready", "start", "iters", "replays", "reclaims", "release",
                "exited"}
    /\ round \in 0..Iterations /\ (mpc = "start" => round < Iterations)
    /\ n_replays_ready \in 0..nfiles /\ n_iters_done \in 0..nfiles
    /\ iter_start \in 0..nfiles /\ n_replays_done \in 0..nfiles
    /\ n_reclaims_done \in 0..nfiles
    /\ send_wait \in [Files -> BOOLEAN] /\ reap_wait \in [Files -> BOOLEAN]
    /\ send_done \in [Files -> BOOLEAN] /\ reap_done \in [Files -> BOOLEAN]
    /\ iterations \in [Files -> -1..Iterations]
    /\ \A f \in Files :
          /\ bunch[f] \in 1..Len(Bunches[f]) + 1
          /\ iterations[f] = -1 => spc[f] \in {"end", "done", "gone"}
    /\ ntodo \in [Files -> 0..NAios] /\ nreap \in [Files -> 0..NAios]

LEMMA IterationsNat == Iterations \in Nat
  BY BtReplayAssumption

LEMMA InitRestInv == Init => RestInv
  <1> SUFFICES ASSUME Init PROVE RestInv
    OBVIOUS
  <1> USE BunchTypes, NFilesNat, NAiosNat, IterationsNat DEF Init, All
  <1>1. \A f \in Files : /\ bunch[f] \in 1..Len(Bunches[f]) + 1
                         /\ iterations[f] # -1
    OBVIOUS
  <1>2. /\ iterations \in [Files -> -1..Iterations]
        /\ ntodo \in [Files -> 0..NAios] /\ nreap \in [Files -> 0..NAios]
    OBVIOUS
  <1>3. /\ send_wait \in [Files -> BOOLEAN] /\ reap_wait \in [Files -> BOOLEAN]
        /\ send_done \in [Files -> BOOLEAN] /\ reap_done \in [Files -> BOOLEAN]
    OBVIOUS
  <1>4. /\ round \in 0..Iterations
        /\ n_replays_ready \in 0..nfiles /\ n_iters_done \in 0..nfiles
        /\ iter_start \in 0..nfiles /\ n_replays_done \in 0..nfiles
        /\ n_reclaims_done \in 0..nfiles
    OBVIOUS
  <1>5. signal_done \in BOOLEAN /\ aborted \in BOOLEAN /\ mpc = "ready"
    OBVIOUS
  <1> QED
    BY <1>1, <1>2, <1>3, <1>4, <1>5 DEF RestInv

LEMMA ReclaimSame ==
    ASSUME CountTypes, NEW f \in Files, ReclaimIos(f)
    PROVE  /\ iterations' = iterations /\ bunch' = bunch /\ ntodo' = ntodo
           /\ \A g \in Files \ {f} : spc'[g] = spc[g]
           /\ \/ spc'[f] = spc[f]
              \/ spc'[f] = "nfree" /\ spc[f] = "asleep"
  <1>1. \/ spc' = spc
        \/ spc[f] = "asleep" /\ spc' = [spc EXCEPT ![f] = "nfree"]
    BY DEF ReclaimIos, WakeSender, GoS
  <1> QED
    BY <1>1 DEF ReclaimIos, CountTypes

LEMMA NextRestInv == CountInv /\ RestInv /\ [Next]_vars => RestInv'
  <1> SUFFICES ASSUME CountInv, RestInv, [Next]_vars PROVE RestInv'
    OBVIOUS
  <1>0. spc \in [Files -> SenderStates] /\ bunch \in [Files -> Nat \ {0}]
    BY DEF CountInv, CountTypes
  <1>a. \A f \in Files : /\ InBunch(f) => bunch[f] <= Len(Bunches[f])
                         /\ spc[f] = "nfree" => npkts(f) - i[f] \in Nat
                         /\ naios_out[f] \in 0..NAios
                         /\ naios_free[f] \in 0..NAios
                         /\ ndone[f] \in Nat
                         /\ rpc[f] = "reap" => ndone[f] <= naios_out[f]
    BY BunchTypes, CountRanges DEF CountInv, CountTypes, FileInv, InBunch,
       npkts
  <1> USE <1>0, <1>a, BunchTypes, NFilesNat, NAiosNat, IterationsNat
      DEF RestInv, SenderStates, GoS, GoR, Asserted, SetCv, Incremented, cvs,
          mvars, aios, waits, dones, sender, reaper, InBunch
  <1>1. ASSUME NEW f \in Files, SetReplayReady(f) PROVE RestInv'
    BY <1>1 DEF SetReplayReady
  <1>2. ASSUME NEW f \in Files, IterationLoop(f) PROVE RestInv'
    <2>1. \/ iterations' = iterations /\ GoS(f, "end")
          \/ /\ iterations' = [iterations EXCEPT ![f] = @ - 1]
             /\ iterations[f] = 0 => GoS(f, "end")
      BY <1>2, Zenon DEF IterationLoop
    <2>2. iterations[f] \in 0..Iterations
      <3>1. iterations[f] \in -1..Iterations
        OBVIOUS
      <3>2. iterations[f] # -1
        BY <1>2 DEF IterationLoop
      <3> QED
        BY <3>1, <3>2
    <2>3. iterations' \in [Files -> -1..Iterations]
      <3>1. iterations[f] - 1 \in -1..Iterations
        BY <2>2
      <3> QED
        BY <2>1, <3>1
    <2>4. ASSUME NEW g \in Files, iterations'[g] = -1
          PROVE  spc'[g] \in {"end", "done", "gone"}
      <3>1. CASE g = f
        <4>1. GoS(f, "end")
          BY <2>1, <2>2, <2>4, <3>1
        <4> QED
          BY <3>1, <4>1
      <3>2. CASE g # f
        BY <1>2, <2>1, <2>4, <3>2 DEF IterationLoop
      <3> QED
        BY <3>1, <3>2
    <2> QED
      BY <1>2, <2>3, <2>4 DEF IterationLoop
  <1>3. ASSUME NEW f \in Files, WaitIterStart(f) PROVE RestInv'
    BY <1>3, SMTT(20) DEF WaitIterStart
  <1>4. ASSUME NEW f \in Files, NextBunch(f) PROVE RestInv'
    BY <1>4 DEF NextBunch
  <1>5. ASSUME NEW f \in Files, ProcessBunch(f) PROVE RestInv'
    <2>1. bunch' = bunch \/ bunch' = [bunch EXCEPT ![f] = @ + 1]
      BY <1>5 DEF ProcessBunch
    <2>2. \A g \in Files : bunch'[g] \in 1..Len(Bunches[g]) + 1
      BY <1>5, <2>1, SMTT(20) DEF ProcessBunch
    <2>3. /\ spc[f] = "process" /\ iterations' = iterations
          /\ \A g \in Files \ {f} : spc'[g] = spc[g]
      BY <1>5 DEF ProcessBunch
    <2>4. \A g \in Files :
              iterations'[g] = -1 => spc'[g] \in {"end", "done", "gone"}
      <3>1. iterations[f] # -1
        BY <2>3
      <3> QED
        BY <2>3, <3>1
    <2> QED
      BY <1>5, <2>2, <2>4 DEF ProcessBunch
  <1>6. ASSUME NEW f \in Files, NFreeCurrent(f) PROVE RestInv'
    <2>1. \/ ntodo' = ntodo
          \/ \E k \in 0..NAios : ntodo' = [ntodo EXCEPT ![f] = k]
      BY <1>6 DEF NFreeCurrent, Smaller
    <2>2. ntodo' \in [Files -> 0..NAios]
      BY <2>1
    <2>3. send_wait' \in [Files -> BOOLEAN]
      BY <1>6 DEF NFreeCurrent
    <2>4. \A g \in Files :
              iterations'[g] = -1 => spc'[g] \in {"end", "done", "gone"}
      BY <1>6 DEF NFreeCurrent
    <2> QED
      BY <1>6, <2>2, <2>3, <2>4 DEF NFreeCurrent
  <1>7. ASSUME NEW f \in Files, IocbsMap(f) PROVE RestInv'
    BY <1>7 DEF IocbsMap
  <1>8. ASSUME NEW f \in Files, Submit(f) PROVE RestInv'
    BY <1>8 DEF Submit
  <1>9. ASSUME NEW f \in Files, Count(f) PROVE RestInv'
    BY <1>9 DEF Count, WakeReaper
  <1>10. ASSUME NEW f \in Files, SetIterDone(f) PROVE RestInv'
    BY <1>10 DEF SetIterDone
  <1>11. ASSUME NEW f \in Files, SetSendDone(f) PROVE RestInv'
    BY <1>11 DEF SetSendDone
  <1>12. ASSUME NEW f \in Files, SetReplayDone(f) PROVE RestInv'
    BY <1>12 DEF SetReplayDone
  <1>13. ASSUME NEW f \in Files, ReapCheck(f) PROVE RestInv'
    BY <1>13 DEF ReapCheck
  <1>14. ASSUME NEW f \in Files, ReapWait(f) PROVE RestInv'
    BY <1>14 DEF ReapWait
  <1>15. ASSUME NEW f \in Files, GetEvents(f) PROVE RestInv'
    BY <1>15 DEF GetEvents
  <1>16. ASSUME NEW f \in Files, ReclaimIos(f) PROVE RestInv'
    <2>1. /\ iterations' = iterations /\ bunch' = bunch /\ ntodo' = ntodo
          /\ \A g \in Files :
                   spc'[g] = spc[g] \/ (spc[g] = "asleep" /\ spc'[g] = "nfree")
      BY <1>16, ReclaimSame DEF CountInv
    <2>2. nreap' \in [Files -> 0..NAios]
      BY <1>16 DEF ReclaimIos, Smaller
    <2>3. send_wait' \in [Files -> BOOLEAN]
      BY <1>16 DEF ReclaimIos, WakeSender
    <2>4. \A g \in Files :
              iterations'[g] = -1 => spc'[g] \in {"end", "done", "gone"}
      BY <2>1
    <2> QED
      BY <1>16, <2>1, <2>2, <2>3, <2>4 DEF ReclaimIos
  <1>17. ASSUME NEW f \in Files, SetReclaimDone(f) PROVE RestInv'
    BY <1>17 DEF SetReclaimDone
  <1>18. ASSUME NEW f \in Files, SpuriousWakeup(f) PROVE RestInv'
    BY <1>18 DEF SpuriousWakeup
  <1>19. CASE MainReady
    BY <1>19 DEF MainReady, AfterRound
  <1>20. CASE StartIter
    BY <1>20 DEF StartIter
  <1>21. CASE WaitItersDone
    BY <1>21 DEF WaitItersDone, AfterRound
  <1>22. CASE WaitReplaysDone
    BY <1>22 DEF WaitReplaysDone
  <1>23. CASE WaitReclaimsDone
    BY <1>23 DEF WaitReclaimsDone
  <1>24. CASE RemInputFiles
    BY <1>24 DEF RemInputFiles
  <1>25. CASE SetSignalDone
    BY <1>25 DEF SetSignalDone
  <1>26. CASE UNCHANGED vars
    BY <1>26 DEF vars
  <1> QED
    BY <1>1, <1>2, <1>3, <1>4, <1>5, <1>6, <1>7, <1>8, <1>9, <1>10, <1>11,
       <1>12, <1>13, <1>14, <1>15, <1>16, <1>17, <1>18, <1>19, <1>20, <1>21,
       <1>22, <1>23, <1>24, <1>25, <1>26
       DEF Next, MainStep, SenderStep, ReaperStep, Ended

\* The type invariant of BtReplay; in particular no count of iocbs is ever
\* negative, although naios_out is raised after the I/Os are submitted.
THEOREM TypeCorrect == Spec => []TypeOK
  <1>1. CountInv /\ RestInv => TypeOK
    <2> SUFFICES ASSUME CountInv, RestInv PROVE TypeOK
      OBVIOUS
    <2>1. /\ naios_out \in [Files -> 0..NAios]
          /\ naios_free \in [Files -> 0..NAios]
          /\ ndone \in [Files -> 0..NAios] /\ flying \in [Files -> 0..NAios]
      BY CountRanges DEF CountInv, CountTypes
    <2> QED
      BY <2>1 DEF RestInv, CountInv, CountTypes, TypeOK
  <1> QED
    BY <1>1, InitCountInv, NextCountInv, InitRestInv, NextRestInv, PTL DEF Spec

\* The iocbs of a file are accounted for between its two threads.
THEOREM IosAccountedHolds == Spec => []IosAccounted
  BY TypeCorrect, AiosAccountedHolds, PTL DEF IosAccounted
-----------------------------------------------------------------------------
(* The sleeps of the two threads of a file.                                *)

\* Who sleeps has asked to be woken, and sleeps for want of iocbs: the other
\* thread wakes it with the next iocb it hands over.
SleepInv ==
    /\ send_wait \in [Files -> BOOLEAN] /\ reap_wait \in [Files -> BOOLEAN]
    /\ \A f \in Files :
          /\ spc[f] = "asleep" => send_wait[f] /\ naios_free[f] = 0
          /\ rpc[f] = "asleep" => reap_wait[f] /\ naios_out[f] = 0

LEMMA InitSleepInv == Init => SleepInv
  BY DEF Init, SleepInv, All

LEMMA NextSleepInv == CountInv /\ SleepInv /\ [Next]_vars => SleepInv'
  <1> SUFFICES ASSUME CountInv, SleepInv, [Next]_vars PROVE SleepInv'
    OBVIOUS
  <1> USE DEF CountInv, CountTypes, SleepInv, GoS, GoR
  <1>1. ASSUME NEW f \in Files, SetReplayReady(f) PROVE SleepInv'
    BY <1>1 DEF SetReplayReady, aios, waits, reaper
  <1>2. ASSUME NEW f \in Files, IterationLoop(f) PROVE SleepInv'
    BY <1>2 DEF IterationLoop, aios, waits, reaper
  <1>3. ASSUME NEW f \in Files, WaitIterStart(f) PROVE SleepInv'
    BY <1>3 DEF WaitIterStart, aios, waits, reaper
  <1>4. ASSUME NEW f \in Files, NextBunch(f) PROVE SleepInv'
    BY <1>4 DEF NextBunch, aios, waits, reaper
  <1>5. ASSUME NEW f \in Files, ProcessBunch(f) PROVE SleepInv'
    BY <1>5 DEF ProcessBunch, aios, waits, reaper
  <1>6. ASSUME NEW f \in Files, NFreeCurrent(f) PROVE SleepInv'
    BY <1>6 DEF NFreeCurrent, aios, reaper
  <1>7. ASSUME NEW f \in Files, IocbsMap(f) PROVE SleepInv'
    BY <1>7 DEF IocbsMap, waits, reaper
  <1>8. ASSUME NEW f \in Files, Submit(f) PROVE SleepInv'
    BY <1>8 DEF Submit, aios, waits, reaper
  <1>9. ASSUME NEW f \in Files, Count(f) PROVE SleepInv'
    BY <1>9 DEF Count, WakeReaper
  <1>10. ASSUME NEW f \in Files, SetIterDone(f) PROVE SleepInv'
    BY <1>10 DEF SetIterDone, aios, waits, reaper
  <1>11. ASSUME NEW f \in Files, SetSendDone(f) PROVE SleepInv'
    BY <1>11 DEF SetSendDone, aios, waits, reaper
  <1>12. ASSUME NEW f \in Files, SetReplayDone(f) PROVE SleepInv'
    BY <1>12 DEF SetReplayDone, aios, waits, reaper
  <1>13. ASSUME NEW f \in Files, ReapCheck(f) PROVE SleepInv'
    BY <1>13 DEF ReapCheck, aios, waits, sender
  <1>14. ASSUME NEW f \in Files, ReapWait(f) PROVE SleepInv'
    BY <1>14 DEF ReapWait, aios, sender
  <1>15. ASSUME NEW f \in Files, GetEvents(f) PROVE SleepInv'
    BY <1>15 DEF GetEvents, aios, waits, sender
  <1>16. ASSUME NEW f \in Files, ReclaimIos(f) PROVE SleepInv'
    BY <1>16 DEF ReclaimIos, WakeSender
  <1>17. ASSUME NEW f \in Files, SetReclaimDone(f) PROVE SleepInv'
    BY <1>17 DEF SetReclaimDone, aios, waits, sender
  <1>18. ASSUME NEW f \in Files, SpuriousWakeup(f) PROVE SleepInv'
    BY <1>18 DEF SpuriousWakeup, aios, waits
  <1>19. CASE MainStep \/ SetSignalDone \/ UNCHANGED vars
    BY <1>19 DEF vars, mvars, aios, waits, dones, sender, reaper, MainStep,
       MainReady, StartIter, WaitItersDone, WaitReplaysDone,
       WaitReclaimsDone, RemInputFiles, SetSignalDone
  <1> QED
    BY <1>1, <1>2, <1>3, <1>4, <1>5, <1>6, <1>7, <1>8, <1>9, <1>10, <1>11,
       <1>12, <1>13, <1>14, <1>15, <1>16, <1>17, <1>18, <1>19
       DEF Next, SenderStep, ReaperStep, Ended

\* Sender and reaper never sleep together: one of them would sleep for iocbs
\* that are free and the other for iocbs that are out, and the file has some.
THEOREM NeverBothAsleepHolds == Spec => []NeverBothAsleep
  <1>1. CountInv /\ SleepInv => NeverBothAsleep
    BY NAiosNat
       DEF CountInv, FileCounts, Mapped, Submitted, SleepInv, NeverBothAsleep
  <1> QED
    BY <1>1, InitCountInv, NextCountInv, InitSleepInv, NextSleepInv,
       PTL DEF Spec
-----------------------------------------------------------------------------
(* The counters of the main thread, and the asserts.                       *)

Started == {f \in Files : spc[f] # "ready"}
Inside  == {f \in Files : InBunch(f) \/ spc[f] \in {"bunch", "iterdone"}}
Left    == {f \in Files : spc[f] = "gone"}
Reaped  == {f \in Files : rpc[f] = "gone"}

LEMMA FileSets ==
    ASSUME NEW S \in SUBSET Files
    PROVE  /\ IsFiniteSet(S) /\ Cardinality(S) \in 0..nfiles
           /\ Cardinality(S) = nfiles <=> S = Files
           /\ Cardinality(S) = 0 <=> S = {}
           /\ \A f \in Files \ S : Cardinality(S \cup {f}) = Cardinality(S) + 1
           /\ \A f \in S : Cardinality(S \ {f}) = Cardinality(S) - 1
  <1>1. IsFiniteSet(S) /\ Cardinality(S) <= nfiles
        /\ (nfiles = Cardinality(S) => Files = S)
    BY BtReplayAssumption, FS_Subset DEF nfiles
  <1>2. Cardinality(S) \in Nat /\ (Cardinality(S) = 0 <=> S = {})
    BY <1>1, FS_CardinalityType, FS_EmptySet
  <1>3. /\ \A f \in Files \ S : Cardinality(S \cup {f}) = Cardinality(S) + 1
        /\ \A f \in S : Cardinality(S \ {f}) = Cardinality(S) - 1
    BY <1>1, FS_AddElement, FS_RemoveElement
  <1> QED
    BY <1>1, <1>2, <1>3, NFilesNat DEF nfiles

\* Each counter main waits on is the number of files that have got there,
\* until main has waited for it; and the starts of an iteration go round: they
\* wait to be taken, are used, or have been counted as done.
MeetInv ==
    /\ IF mpc = "ready" THEN n_replays_ready = Cardinality(Started)
       ELSE Started = Files
    /\ iter_start + Cardinality(Inside) + n_iters_done =
           IF mpc = "iters" THEN nfiles ELSE 0
    /\ IF mpc \in {"reclaims", "release", "exited"} THEN Left = Files
       ELSE n_replays_done = Cardinality(Left)
    /\ IF mpc \in {"release", "exited"} THEN Reaped = Files
       ELSE n_reclaims_done = Cardinality(Reaped)

\* What the two threads of f have noted of their ends, and that a sender that
\* maps has something to map unless it was told to quit.
FlagInv ==
    \A f \in Files :
        /\ send_done[f] <=> spc[f] \in {"done", "gone"}
        /\ rpc[f] \in {"finish", "gone"} => send_done[f] /\ naios_out[f] = 0
        /\ rpc[f] = "gone" => reap_done[f]
        /\ spc[f] = "map" => signal_done \/ ntodo[f] > 0

LEMMA InitMeetInv == Init => MeetInv /\ FlagInv
  <1> SUFFICES ASSUME Init PROVE MeetInv /\ FlagInv
    OBVIOUS
  <1>1. Started = {} /\ Inside = {} /\ Left = {} /\ Reaped = {}
    BY DEF Init, All, Started, Inside, Left, Reaped, InBunch
  <1>2. Cardinality({}) = 0
    BY FS_EmptySet
  <1> QED
    BY <1>1, <1>2 DEF Init, All, MeetInv, FlagInv

\* The counters change with the files that get somewhere, one at a time, and
\* main resets a counter when all have.
LEMMA NextMeetInv ==
    CountInv /\ RestInv /\ MeetInv /\ [Next]_vars => MeetInv'
  <1> SUFFICES ASSUME CountInv, RestInv, MeetInv, [Next]_vars PROVE MeetInv'
    OBVIOUS
  <1>0. /\ spc \in [Files -> SenderStates] /\ rpc \in [Files -> ReaperStates]
        /\ Started \in SUBSET Files /\ Inside \in SUBSET Files
        /\ Left \in SUBSET Files /\ Reaped \in SUBSET Files
        /\ n_replays_ready \in Nat /\ n_iters_done \in Nat /\ iter_start \in Nat
        /\ n_replays_done \in Nat /\ n_reclaims_done \in Nat
    BY NFilesNat
       DEF CountInv, CountTypes, Started, Inside, Left, Reaped, RestInv
  <1>n. /\ Cardinality(Started) \in 0..nfiles /\ Cardinality(Inside) \in 0..nfiles
        /\ Cardinality(Left) \in 0..nfiles /\ Cardinality(Reaped) \in 0..nfiles
        /\ nfiles \in Nat \ {0}
    BY <1>0, FileSets, NFilesNat
  <1>s. ASSUME UNCHANGED <<mpc, cvs>>, Started' = Started, Inside' = Inside,
               Left' = Left, Reaped' = Reaped
        PROVE  MeetInv'
    BY <1>s DEF MeetInv, cvs
  <1>1. ASSUME NEW f \in Files, SetReplayReady(f) PROVE MeetInv'
    <2>1. /\ f \in Files \ Started /\ Started' = Started \cup {f}
          /\ UNCHANGED <<mpc, n_iters_done, iter_start, n_replays_done,
                         n_reclaims_done, Inside, Left, Reaped>>
      BY <1>0, <1>1 DEF SetReplayReady, GoS, mvars, reaper, Started, Inside, Left,
         Reaped, InBunch
    <2>2. mpc = "ready" /\ n_replays_ready = Cardinality(Started)
      BY <2>1 DEF MeetInv
    <2>3. Cardinality(Started') = n_replays_ready + 1
      BY <1>0, <2>1, <2>2, FileSets
    <2>4. Cardinality(Started') \in 0..nfiles
      BY <1>0, <2>1, FileSets
    <2>5. n_replays_ready' = n_replays_ready + 1
      BY <1>0, <1>1, <1>n, <2>3, <2>4 DEF SetReplayReady, SetCv, Incremented
    <2> QED
      BY <2>1, <2>2, <2>3, <2>5 DEF MeetInv
  <1>2. ASSUME NEW f \in Files, WaitIterStart(f) PROVE MeetInv'
    <2>1. /\ f \in Files \ Inside /\ Inside' = Inside \cup {f}
          /\ iter_start' = iter_start - 1
          /\ UNCHANGED <<mpc, n_replays_ready, n_iters_done, n_replays_done,
                         n_reclaims_done, Started, Left, Reaped>>
      BY <1>0, <1>2 DEF WaitIterStart, GoS, mvars, reaper, Started, Inside, Left,
         Reaped, InBunch
    <2>2. Cardinality(Inside') = Cardinality(Inside) + 1
      BY <1>0, <2>1, FileSets
    <2> QED
      BY <1>0, <1>n, <2>1, <2>2 DEF MeetInv
  <1>3. ASSUME NEW f \in Files, SetIterDone(f) PROVE MeetInv'
    <2>1. /\ f \in Inside /\ Inside' = Inside \ {f}
          /\ UNCHANGED <<mpc, n_replays_ready, iter_start, n_replays_done,
                         n_reclaims_done, Started, Left, Reaped>>
      BY <1>0, <1>3 DEF SetIterDone, GoS, mvars, reaper, Started, Inside, Left,
         Reaped, InBunch
    <2>2. Cardinality(Inside') = Cardinality(Inside) - 1 /\ Cardinality(Inside) > 0
      BY <1>0, <1>n, <2>1, FileSets
    <2>3. n_iters_done < nfiles
      BY <1>0, <1>n, <2>2 DEF MeetInv
    <2>4. n_iters_done' = n_iters_done + 1
      BY <1>3, <2>3 DEF SetIterDone, SetCv, Incremented
    <2> QED
      BY <1>0, <1>n, <2>1, <2>2, <2>4 DEF MeetInv
  <1>4. ASSUME NEW f \in Files, SetReplayDone(f) PROVE MeetInv'
    <2>1. /\ f \in Files \ Left /\ Left' = Left \cup {f}
          /\ UNCHANGED <<mpc, n_replays_ready, n_iters_done, iter_start,
                         n_reclaims_done, Started, Inside, Reaped>>
      BY <1>0, <1>4 DEF SetReplayDone, GoS, mvars, reaper, Started, Inside, Left,
         Reaped, InBunch
    <2>2. /\ mpc \notin {"reclaims", "release", "exited"}
          /\ n_replays_done = Cardinality(Left)
      BY <2>1 DEF MeetInv
    <2>3. Cardinality(Left') = n_replays_done + 1
      BY <1>0, <2>1, <2>2, FileSets
    <2>4. Cardinality(Left') \in 0..nfiles
      BY <1>0, <2>1, FileSets
    <2>5. n_replays_done' = n_replays_done + 1
      BY <1>0, <1>4, <1>n, <2>3, <2>4 DEF SetReplayDone, SetCv, Incremented
    <2> QED
      BY <2>1, <2>2, <2>3, <2>5 DEF MeetInv
  <1>5. ASSUME NEW f \in Files, SetReclaimDone(f) PROVE MeetInv'
    <2>1. /\ f \in Files \ Reaped /\ Reaped' = Reaped \cup {f}
          /\ UNCHANGED <<mpc, n_replays_ready, n_iters_done, iter_start,
                         n_replays_done, Started, Inside, Left>>
      BY <1>0, <1>5 DEF SetReclaimDone, GoR, mvars, sender, Started, Inside, Left,
         Reaped, InBunch
    <2>2. /\ mpc \notin {"release", "exited"}
          /\ n_reclaims_done = Cardinality(Reaped)
      BY <2>1 DEF MeetInv
    <2>3. Cardinality(Reaped') = n_reclaims_done + 1
      BY <1>0, <2>1, <2>2, FileSets
    <2>4. Cardinality(Reaped') \in 0..nfiles
      BY <1>0, <2>1, FileSets
    <2>5. n_reclaims_done' = n_reclaims_done + 1
      BY <1>0, <1>5, <1>n, <2>3, <2>4 DEF SetReclaimDone, Incremented
    <2> QED
      BY <2>1, <2>2, <2>3, <2>5 DEF MeetInv
  <1>6. ASSUME NEW f \in Files,
               \/ IterationLoop(f) \/ NextBunch(f) \/ ProcessBunch(f)
               \/ NFreeCurrent(f) \/ IocbsMap(f) \/ Submit(f) \/ SetSendDone(f)
        PROVE  MeetInv'
    <2>1. UNCHANGED <<mpc, cvs, rpc>>
      BY <1>6 DEF IterationLoop, NextBunch, ProcessBunch, NFreeCurrent, IocbsMap,
         Submit, SetSendDone, mvars, reaper
    <2>2. \A g \in Files :
              /\ spc'[g] = "ready" <=> spc[g] = "ready"
              /\ spc'[g] = "gone" <=> spc[g] = "gone"
              /\ InBunch(g)' \/ spc'[g] \in {"bunch", "iterdone"}
                     <=> InBunch(g) \/ spc[g] \in {"bunch", "iterdone"}
      BY <1>0, <1>6 DEF IterationLoop, NextBunch, ProcessBunch, NFreeCurrent,
         IocbsMap, Submit, SetSendDone, GoS, InBunch
    <2>3. UNCHANGED <<Started, Inside, Left, Reaped>>
      BY <2>1, <2>2 DEF Started, Inside, Left, Reaped
    <2> QED
      BY <1>s, <2>1, <2>3
  <1>7. ASSUME NEW f \in Files,
               \/ Count(f) \/ ReapCheck(f) \/ ReapWait(f) \/ GetEvents(f)
               \/ ReclaimIos(f) \/ SpuriousWakeup(f)
        PROVE  MeetInv'
    <2>1. UNCHANGED <<mpc, cvs>>
      BY <1>7 DEF Count, ReapCheck, ReapWait, GetEvents, ReclaimIos,
         SpuriousWakeup, mvars
    <2>2. \A g \in Files :
              /\ spc'[g] = "ready" <=> spc[g] = "ready"
              /\ spc'[g] = "gone" <=> spc[g] = "gone"
              /\ InBunch(g)' \/ spc'[g] \in {"bunch", "iterdone"}
                     <=> InBunch(g) \/ spc[g] \in {"bunch", "iterdone"}
      BY <1>0, <1>7 DEF Count, ReapCheck, ReapWait, GetEvents, ReclaimIos,
         SpuriousWakeup, WakeSender, GoS, InBunch, sender
    <2>3. \A g \in Files : rpc'[g] = "gone" <=> rpc[g] = "gone"
      BY <1>0, <1>7 DEF Count, ReapCheck, ReapWait, GetEvents, ReclaimIos,
         SpuriousWakeup, WakeReaper, GoR
    <2>4. UNCHANGED <<Started, Inside, Left, Reaped>>
      BY <2>2, <2>3 DEF Started, Inside, Left, Reaped
    <2> QED
      BY <1>s, <2>1, <2>4
  <1>8. CASE MainStep
    <2>1. UNCHANGED <<Started, Inside, Left, Reaped>>
      BY <1>8 DEF MainStep, MainReady, StartIter, WaitItersDone, WaitReplaysDone,
         WaitReclaimsDone, RemInputFiles, sender, reaper, Started, Inside, Left,
         Reaped, InBunch
    <2> USE <1>0, <1>n, FileSets DEF MeetInv
    <2>2. CASE MainReady
      BY <2>1, <2>2 DEF MainReady, AfterRound
    <2>3. CASE StartIter
      BY <2>1, <2>3 DEF StartIter
    <2>4. CASE WaitItersDone
      <3>1. /\ mpc = "iters" /\ n_iters_done >= nfiles /\ n_iters_done' = 0
            /\ mpc' \in {"start", "replays"}
            /\ UNCHANGED <<n_replays_ready, iter_start, n_replays_done,
                           n_reclaims_done>>
        BY <2>4 DEF WaitItersDone, AfterRound
      <3>2. iter_start = 0 /\ Cardinality(Inside) = 0
        BY <3>1
      <3> QED
        BY <2>1, <3>1, <3>2
    <2>5. CASE WaitReplaysDone
      BY <2>1, <2>5 DEF WaitReplaysDone
    <2>6. CASE WaitReclaimsDone
      BY <2>1, <2>6 DEF WaitReclaimsDone
    <2>7. CASE RemInputFiles
      BY <2>1, <2>7 DEF RemInputFiles, cvs
    <2> QED
      BY <1>8, <2>2, <2>3, <2>4, <2>5, <2>6, <2>7 DEF MainStep
  <1>9. CASE SetSignalDone \/ UNCHANGED vars
    BY <1>9, <1>s DEF SetSignalDone, vars, mvars, cvs, sender, reaper, Started,
       Inside, Left, Reaped, InBunch
  <1> QED
    BY <1>1, <1>2, <1>3, <1>4, <1>5, <1>6, <1>7, <1>8, <1>9
       DEF Next, SenderStep, ReaperStep, Ended

LEMMA NextFlagInv ==
    CountInv /\ RestInv /\ FlagInv /\ [Next]_vars => FlagInv'
  <1> SUFFICES ASSUME CountInv, RestInv, FlagInv, [Next]_vars PROVE FlagInv'
    OBVIOUS
  <1>0. ASSUME NEW f \in Files
        PROVE  /\ spc[f] = "nfree" => npkts(f) - i[f] \in Nat \ {0}
               /\ naios_free[f] \in Nat /\ naios_out[f] \in Nat
               /\ spc[f] = "count" => ~send_done[f]
               /\ rpc[f] = "reap" => naios_out[f] # 0
    <2>1. CountTypes /\ FileInv(f)
      BY DEF CountInv
    <2>2. spc[f] = "nfree" => npkts(f) \in Nat /\ i[f] < npkts(f) /\ i[f] \in Nat
      BY <2>1, BunchTypes DEF CountTypes, FileInv, InBunch, npkts
    <2>3. /\ naios_free[f] \in Nat /\ naios_out[f] \in Nat
          /\ rpc[f] = "reap" => naios_out[f] # 0
      BY <2>1 DEF FileInv
    <2> QED
      BY <2>2, <2>3 DEF FlagInv
  <1>m. ASSUME NEW f \in Files, NEW s \in SenderStates \ {"map", "done", "gone"},
               spc[f] \notin {"done", "gone"}, spc' = [spc EXCEPT ![f] = s],
               UNCHANGED <<signal_done, send_done, reap_done, rpc, naios_out, ntodo>>
        PROVE  FlagInv'
    <2>1. spc'[f] = s /\ \A g \in Files \ {f} : spc'[g] = spc[g]
      BY <1>m DEF CountInv, CountTypes
    <2>2. ~send_done[f]
      BY <1>m DEF FlagInv
    <2> QED
      BY <1>m, <2>1, <2>2 DEF FlagInv
  <1>w. ASSUME NEW f \in Files, ReclaimIos(f)
        PROVE  \A g \in Files :
                   spc'[g] = spc[g] \/ (spc[g] = "asleep" /\ spc'[g] = "nfree")
    <2>1. /\ \A g \in Files \ {f} : spc'[g] = spc[g]
          /\ \/ spc'[f] = spc[f]
             \/ spc'[f] = "nfree" /\ spc[f] = "asleep"
      BY <1>w, ReclaimSame DEF CountInv
    <2>2. ASSUME NEW g \in Files
          PROVE  spc'[g] = spc[g] \/ (spc[g] = "asleep" /\ spc'[g] = "nfree")
      <3>1. CASE g = f
        BY <2>1, <3>1
      <3>2. CASE g # f
        BY <2>1, <3>2
      <3> QED
        BY <3>1, <3>2
    <2> QED
      BY <2>2
  <1> USE DEF CountInv, CountTypes, RestInv, FlagInv, GoS, GoR, cvs, mvars, aios,
              waits, dones, sender, reaper
  <1>1. ASSUME NEW f \in Files, SetReplayReady(f) PROVE FlagInv'
    BY <1>1 DEF SetReplayReady
  <1>2. ASSUME NEW f \in Files, IterationLoop(f) PROVE FlagInv'
    <2>1. /\ \E s \in {"end", "start"} : spc' = [spc EXCEPT ![f] = s]
          /\ spc[f] = "top"
          /\ UNCHANGED <<signal_done, send_done, reap_done, rpc, naios_out, ntodo>>
      BY <1>2 DEF IterationLoop
    <2> QED
      BY <1>m, <2>1 DEF SenderStates
  <1>3. ASSUME NEW f \in Files, WaitIterStart(f) PROVE FlagInv'
    BY <1>3 DEF WaitIterStart
  <1>4. ASSUME NEW f \in Files, NextBunch(f) PROVE FlagInv'
    BY <1>4 DEF NextBunch
  <1>5. ASSUME NEW f \in Files, ProcessBunch(f) PROVE FlagInv'
    <2>1. /\ \E s \in {"bunch", "nfree"} : spc' = [spc EXCEPT ![f] = s]
          /\ spc[f] = "process"
          /\ UNCHANGED <<signal_done, send_done, reap_done, rpc, naios_out, ntodo>>
      BY <1>5 DEF ProcessBunch
    <2> QED
      BY <1>m, <2>1 DEF SenderStates
  <1>6. ASSUME NEW f \in Files, NFreeCurrent(f) PROVE FlagInv'
    <2>1. /\ spc[f] = "nfree" /\ ~send_done[f]
          /\ \A g \in Files \ {f} : spc'[g] = spc[g] /\ ntodo'[g] = ntodo[g]
          /\ UNCHANGED <<signal_done, send_done, reap_done, rpc, naios_out>>
      BY <1>6 DEF NFreeCurrent
    <2>2. \/ spc'[f] = "asleep"
          \/ spc'[f] = "map" /\ (signal_done \/ ntodo'[f] > 0)
      BY <1>0, <1>6, <2>1, SMTT(30) DEF NFreeCurrent, SendDone, Smaller
    <2> QED
      BY <2>1, <2>2
  <1>7. ASSUME NEW f \in Files, IocbsMap(f) PROVE FlagInv'
    BY <1>7 DEF IocbsMap
  <1>8. ASSUME NEW f \in Files, Submit(f) PROVE FlagInv'
    BY <1>8 DEF Submit
  <1>9. ASSUME NEW f \in Files, Count(f) PROVE FlagInv'
    <2>1. /\ spc[f] = "count" /\ ~send_done[f]
          /\ spc' = [spc EXCEPT ![f] = "process"]
          /\ rpc' = rpc \/ rpc' = [rpc EXCEPT ![f] = "wait"]
          /\ \A g \in Files \ {f} : naios_out'[g] = naios_out[g]
          /\ UNCHANGED <<signal_done, send_done, reap_done, ntodo>>
      BY <1>0, <1>9 DEF Count, WakeReaper
    <2> QED
      BY <2>1
  <1>10. ASSUME NEW f \in Files, SetIterDone(f) PROVE FlagInv'
    BY <1>10 DEF SetIterDone
  <1>11. ASSUME NEW f \in Files, SetSendDone(f) PROVE FlagInv'
    BY <1>11 DEF SetSendDone
  <1>12. ASSUME NEW f \in Files, SetReplayDone(f) PROVE FlagInv'
    BY <1>12 DEF SetReplayDone
  <1>13. ASSUME NEW f \in Files, ReapCheck(f) PROVE FlagInv'
    BY <1>13 DEF ReapCheck, ReapDone
  <1>14. ASSUME NEW f \in Files, ReapWait(f) PROVE FlagInv'
    BY <1>14 DEF ReapWait
  <1>15. ASSUME NEW f \in Files, GetEvents(f) PROVE FlagInv'
    BY <1>15 DEF GetEvents
  <1>16. ASSUME NEW f \in Files, ReclaimIos(f) PROVE FlagInv'
    <2>1. /\ rpc[f] = "reap"
          /\ \A g \in Files :
                   spc'[g] = spc[g] \/ (spc[g] = "asleep" /\ spc'[g] = "nfree")
          /\ \E s \in {"get", "check"} : rpc' = [rpc EXCEPT ![f] = s]
          /\ \A g \in Files \ {f} : naios_out'[g] = naios_out[g]
          /\ UNCHANGED <<signal_done, send_done, reap_done, ntodo>>
      <3>1. \E s \in {"get", "check"} : rpc' = [rpc EXCEPT ![f] = s]
        BY <1>16 DEF ReclaimIos
      <3>2. \A g \in Files :
                   spc'[g] = spc[g] \/ (spc[g] = "asleep" /\ spc'[g] = "nfree")
        BY <1>16, <1>w
      <3>3. /\ rpc[f] = "reap" /\ \A g \in Files \ {f} : naios_out'[g] = naios_out[g]
            /\ UNCHANGED <<signal_done, send_done, reap_done, ntodo>>
        BY <1>16 DEF ReclaimIos
      <3> QED
        BY <3>1, <3>2, <3>3
    <2> QED
      BY <2>1
  <1>17. ASSUME NEW f \in Files, SetReclaimDone(f) PROVE FlagInv'
    BY <1>17 DEF SetReclaimDone
  <1>18. ASSUME NEW f \in Files, SpuriousWakeup(f) PROVE FlagInv'
    BY <1>18 DEF SpuriousWakeup
  <1>19. CASE MainStep \/ SetSignalDone \/ UNCHANGED vars
    BY <1>19 DEF vars, MainStep, MainReady, StartIter, WaitItersDone,
       WaitReplaysDone, WaitReclaimsDone, RemInputFiles, SetSignalDone
  <1> QED
    BY <1>1, <1>2, <1>3, <1>4, <1>5, <1>6, <1>7, <1>8, <1>9, <1>10, <1>11,
       <1>12, <1>13, <1>14, <1>15, <1>16, <1>17, <1>18, <1>19
       DEF Next, SenderStep, ReaperStep, Ended

\* Every assert holds at the step that makes it; that of iocbs_map, unless the
\* sender was told to quit.
LEMMA NextAssertsHold ==
    CountInv /\ RestInv /\ MeetInv /\ FlagInv /\ AssertsHold /\ [Next]_vars
        => AssertsHold'
  <1> SUFFICES ASSUME CountInv, RestInv, MeetInv, FlagInv, AssertsHold, [Next]_vars
               PROVE  AssertsHold'
    OBVIOUS
  <1>0. /\ spc \in [Files -> SenderStates] /\ rpc \in [Files -> ReaperStates]
        /\ Started \in SUBSET Files /\ Inside \in SUBSET Files
        /\ Left \in SUBSET Files /\ Reaped \in SUBSET Files
        /\ n_iters_done \in Nat /\ iter_start \in 0..nfiles
        /\ nfiles \in Nat \ {0}
    BY NFilesNat
       DEF CountInv, CountTypes, Started, Inside, Left, Reaped, RestInv
  <1>t. ASSUME NEW S \in SUBSET Files, S # Files PROVE Cardinality(S) < nfiles
    BY <1>0, <1>t, FileSets
  <1> USE DEF AssertsHold, Asserted
  <1>1. ASSUME NEW f \in Files, SetReplayReady(f) PROVE ~aborted'
    BY <1>0, <1>1, <1>t DEF SetReplayReady, SetCv, MeetInv, Started
  <1>2. ASSUME NEW f \in Files, WaitIterStart(f) PROVE ~aborted'
    <2>1. iter_start \in 1..nfiles
      BY <1>0, <1>2 DEF WaitIterStart
    <2> QED
      BY <1>2, <2>1 DEF WaitIterStart
  <1>3. ASSUME NEW f \in Files, SetIterDone(f) PROVE ~aborted'
    <2>1. Cardinality(Inside) \in Nat \ {0} /\ spc[f] = "iterdone"
      BY <1>0, <1>3, FileSets DEF SetIterDone, Inside
    <2>2. n_iters_done < nfiles
      BY <1>0, <2>1 DEF MeetInv
    <2> QED
      BY <1>3, <2>2 DEF SetIterDone, SetCv
  <1>4. ASSUME NEW f \in Files, SetReplayDone(f) PROVE ~aborted'
    BY <1>0, <1>4, <1>t DEF SetReplayDone, SetCv, MeetInv, Left
  <1>5. ASSUME NEW f \in Files, SetReclaimDone(f) PROVE ~aborted'
    BY <1>0, <1>5, <1>t DEF SetReclaimDone, MeetInv, FlagInv, Reaped
  <1>6. ASSUME NEW f \in Files, IocbsMap(f) PROVE AssertsHold'
    <2>1. signal_done \/ (0 < ntodo[f] /\ ntodo[f] <= naios_free[f])
      BY <1>6 DEF IocbsMap, CountInv, FileInv, FlagInv
    <2> QED
      BY <1>6, <2>1 DEF IocbsMap
  <1>7. ASSUME NEW f \in Files, Count(f) PROVE ~aborted'
    <2>1. naios_out'[f] = naios_out[f] + ntodo[f] /\ spc[f] = "count"
      BY <1>7 DEF Count, CountInv, CountTypes
    <2>2. naios_out[f] + ntodo[f] <= NAios
      BY <2>1, NAiosNat DEF CountInv, FileInv, FileCounts, Mapped, Submitted
    <2> QED
      BY <1>7, <2>1, <2>2 DEF Count
  <1>8. CASE StartIter
    <2>1. iter_start = 0
      BY <1>0, <1>8, FileSets DEF StartIter, MeetInv
    <2> QED
      BY <1>8, <2>1 DEF StartIter
  <1>9. CASE RemInputFiles
    <2>1. ASSUME NEW f \in Files
          PROVE  send_done[f] /\ reap_done[f] /\ naios_free[f] = NAios
      <3>1. spc[f] = "gone" /\ rpc[f] = "gone"
        BY <1>9 DEF RemInputFiles
      <3>2. send_done[f] /\ reap_done[f] /\ naios_out[f] = 0
        BY <3>1 DEF FlagInv
      <3> QED
        BY <3>1, <3>2, NAiosNat
           DEF CountInv, FileInv, FileCounts, Mapped, Submitted
    <2> QED
      BY <1>9, <2>1 DEF RemInputFiles
  <1>10. ASSUME NEW f \in Files,
                \/ IterationLoop(f) \/ NextBunch(f) \/ ProcessBunch(f)
                \/ NFreeCurrent(f) \/ Submit(f) \/ SetSendDone(f)
                \/ ReapCheck(f) \/ ReapWait(f) \/ GetEvents(f) \/ ReclaimIos(f)
                \/ SpuriousWakeup(f)
         PROVE  AssertsHold'
    BY <1>10 DEF IterationLoop, NextBunch, ProcessBunch, NFreeCurrent, Submit,
       SetSendDone, ReapCheck, ReapWait, GetEvents, ReclaimIos, SpuriousWakeup
  <1>11. CASE \/ MainReady \/ WaitItersDone \/ WaitReplaysDone
              \/ WaitReclaimsDone \/ SetSignalDone \/ UNCHANGED vars
    BY <1>11 DEF MainReady, WaitItersDone, WaitReplaysDone, WaitReclaimsDone,
       SetSignalDone, vars
  <1> QED
    BY <1>1, <1>2, <1>3, <1>4, <1>5, <1>6, <1>7, <1>8, <1>9, <1>10, <1>11
       DEF Next, MainStep, SenderStep, ReaperStep, Ended

\* Until a signal comes no assert fails, for any number of files, iocbs,
\* bunches and iterations: no counter goes past the number of files, although
\* a fast sender may take the start of another, and all iocbs are back when
\* the files are released.
THEOREM AssertsHoldAlways == Spec => []AssertsHold
  <1>1. Init => AssertsHold
    BY DEF Init, AssertsHold
  <1> QED
    BY <1>1, InitCountInv, NextCountInv, InitRestInv, NextRestInv, InitMeetInv,
       NextMeetInv, NextFlagInv, NextAssertsHold, PTL DEF Spec
-----------------------------------------------------------------------------
(* Induction.                                                              *)

\* A set of naturals that is not empty has a least element.
LEMMA LeastOf ==
    ASSUME NEW T, T \subseteq Nat, T # {}
    PROVE  \E x \in T : \A y \in T : ~(y < x)
<1> DEFINE R == OpToRel(<, Nat)
<1>1. IsWellFoundedOn(R, Nat)
    BY NatLessThanWellFounded, Zenon
<1>2. \E x \in T : \A y \in T : <<y, x>> \notin R
  <2> HIDE DEF R
  <2> QED BY <1>1, WFMin
<1>3. \A x, y \in Nat : y < x => <<y, x>> \in R
    BY SMT DEF OpToRel
<1> QED BY <1>2, <1>3

\* Induction up to m: a set that holds 0 and, with each n below m, n + 1.
LEMMA InductionUpTo ==
    ASSUME NEW S, NEW m \in Nat, 0 \in S, \A n \in 0..m - 1 : n \in S
        => n + 1 \in S
    PROVE  0..m \subseteq S
<1> SUFFICES ASSUME 0..m \ S # {} PROVE FALSE
    OBVIOUS
<1>1. PICK x \in 0..m \ S : \A y \in 0..m \ S : ~(y < x)
  <2>1. 0..m \ S \subseteq Nat
    OBVIOUS
  <2> QED BY <2>1, LeastOf
<1>2. x - 1 \in 0..m - 1 /\ x - 1 < x
    BY <1>1
<1>3. x - 1 \in S
    BY <1>1, <1>2
<1> QED BY <1>1, <1>2, <1>3

-----------------------------------------------------------------------------
(* What a file of bunches is.                                              *)

Queues  == [time : 1..MaxTime, rw : {"R", "W"}]
Packets == [id : Nat, rw : {"R", "W"}]
BunchRecords == [time_stamp : Nat, pkts : Seq(Packets)]

\* The place of a bunch's first packet among the Q records of the file.
FirstId(b) == b.pkts[1].id

\* The bunch b holds the records of q from FirstId(b) on, all within the
\* limits.
BunchOf(b, q) ==
    /\ b \in BunchRecords
    /\ Len(b.pkts) \in 1..max_pkts_per_bunch
    /\ FirstId(b) \in 1..Len(q)
    /\ b.time_stamp = q[FirstId(b)].time
    /\ \A k \in 1..Len(b.pkts) :
          /\ FirstId(b) + k - 1 \in 1..Len(q)
          /\ b.pkts[k].id = FirstId(b) + k - 1
          /\ b.pkts[k].rw = q[FirstId(b) + k - 1].rw
          /\ q[FirstId(b) + k - 1].time - b.time_stamp \in 0..max_bunch_tm

\* The next packet would have broken a limit of the bunch a: b is another.
Follows(a, b, q) ==
    /\ FirstId(b) = FirstId(a) + Len(a.pkts)
    /\ \/ Len(a.pkts) = max_pkts_per_bunch
       \/ q[FirstId(b)].time > a.time_stamp + max_bunch_tm

\* The bunches bs are the records q.
ChainOf(bs, q) ==
    /\ bs \in Seq(BunchRecords) /\ q \in Seq(Queues)
    /\ \A k \in 1..Len(bs) : BunchOf(bs[k], q)
    /\ \A k \in 1..Len(bs) - 1 : Follows(bs[k], bs[k + 1], q)
    /\ bs = <<>> => q = <<>>
    /\ bs # <<>> => /\ FirstId(bs[1]) = 1
                    /\ FirstId(bs[Len(bs)]) + Len(bs[Len(bs)].pkts)
                          = Len(q) + 1
-----------------------------------------------------------------------------
(* The invariant of recording and replay.                                  *)

RecTypes ==
    /\ ended \in {"no", "fatal", "assert"} /\ cpu \in 0..NFiles
    /\ genesis \in Nat /\ cur \in BunchRecords
    /\ start_time \in Nat /\ last_time \in Nat
    /\ ofile \in [Cpus -> [hdr : [genesis : Nat, nbunches : Nat,
                                  total_pkts : Nat],
                           bunches : Seq(BunchRecords)]]
    /\ bunches \in Nat /\ pkts \in Nat
    /\ queued \in [Cpus -> Seq(Queues)]
    /\ files \subseteq Cpus /\ first \in Nat /\ clock \in Nat
    /\ at_bunch \in [Cpus -> Nat \ {0}] /\ at_pkt \in [Cpus -> Nat]
    /\ issued \in [Cpus -> Seq([id : Nat, rw : {"R", "W"}, at : Nat])]

\* The bunches of file c when the current one is flushed.
Collected(c) ==
    IF c = cpu THEN Flushed(ofile[c]).bunches ELSE ofile[c].bunches

\* The time of the first record, and of the last.
FirstTime(q) == IF q = <<>> THEN 0 ELSE q[1].time
LastTime(q)  == IF q = <<>> THEN 0 ELSE q[Len(q)].time

\* The fields of struct io_stream go with the records read.
StreamInv ==
    /\ cur.pkts # <<>> => start_time = cur.time_stamp
    /\ cpu \in Cpus =>
          /\ cur.pkts = <<>> => queued[cpu] = <<>>
          /\ genesis = FirstTime(queued[cpu])
          /\ last_time = LastTime(queued[cpu])
    /\ cpu \notin Cpus => cur.pkts = <<>>

RecordedInv(c) ==
    /\ ChainOf(Collected(c), queued[c])
    /\ \A k \in 1..Len(queued[c]) : queued[c][k].time >= queued[c][1].time
    /\ c < cpu /\ queued[c] # <<>>
          => ofile[c].hdr.genesis = queued[c][1].time
    /\ c > cpu => queued[c] = <<>>

\* Nothing is replayed before the recording is over.
Unread(c) == at_bunch[c] = 1 /\ at_pkt[c] = 0 /\ issued[c] = <<>>

\* The sender of file c stands behind what it has submitted.
AtInv(c) ==
    at_bunch[c] <= Len(ofile[c].bunches) =>
        LET b == ofile[c].bunches[at_bunch[c]]
        IN  /\ at_pkt[c] < Len(b.pkts)
            /\ Len(issued[c]) = FirstId(b) + at_pkt[c] - 1

OnTime(c) ==
    \A k \in 1..Len(issued[c]) :
        \E b \in Range(ofile[c].bunches) :
            /\ issued[c][k].id \in {p.id : p \in Range(b.pkts)}
            /\ issued[c][k].at * acc_factor + acc_factor
                  > b.time_stamp - first
            /\ b.time_stamp >= first

InOrder(c) ==
    \A k \in 1..Len(issued[c]) :
        /\ k \in 1..Len(queued[c])
        /\ issued[c][k].id = k
        /\ issued[c][k].rw = IF write_enabled THEN queued[c][k].rw ELSE "R"

ReplayInv(c) ==
    /\ AtInv(c) /\ OnTime(c) /\ InOrder(c)
    /\ c \notin files => issued[c] = <<>>
    /\ c \in files => first <= ofile[c].hdr.genesis

RecInv ==
    /\ RecTypes
    /\ ended # "no" => BunchesAsLargeAsAllowed
    /\ ended = "no" => StreamInv /\ \A c \in Cpus : RecordedInv(c)
    /\ ended # "no" => cpu # NFiles
    /\ cpu # NFiles => files = {} /\ \A c \in Cpus : Unread(c)
    /\ cpu = NFiles => \A c \in Cpus : ReplayInv(c)
-----------------------------------------------------------------------------
(* The chain of bunches.                                                   *)

LEMMA RecConstants ==
    /\ NFiles \in Nat \ {0} /\ MaxTime \in Nat \ {0}
    /\ acc_factor \in Nat \ {0} /\ naios \in Nat \ {0}
    /\ max_bunch_tm \in Nat \ {0} /\ max_pkts_per_bunch \in Nat \ {0}
    /\ Directions \subseteq {"R", "W"} /\ write_enabled \in BOOLEAN
  BY BtRecordAssumption DEF ValidArguments, BT_MAX_PKTS

\* The types of what a bunch is made of.
LEMMA BunchOfTypes ==
    ASSUME NEW q \in Seq(Queues), NEW b, BunchOf(b, q)
    PROVE  /\ FirstId(b) \in Nat \ {0} /\ FirstId(b) \in 1..Len(q)
           /\ Len(b.pkts) \in Nat \ {0} /\ Len(q) \in Nat
           /\ b.pkts \in Seq(Packets) /\ b.time_stamp \in Nat
<1>1. /\ b \in BunchRecords /\ Len(b.pkts) \in 1..max_pkts_per_bunch
      /\ FirstId(b) \in 1..Len(q)
  BY DEF BunchOf
<1>2. b.pkts \in Seq(Packets) /\ b.time_stamp \in Nat
  BY <1>1 DEF BunchRecords
<1>3. Len(q) \in Nat
  OBVIOUS
<1> QED BY <1>1, <1>2, <1>3, RecConstants

\* What is said of a bunch and of its successor speaks of the records the
\* bunches hold, so another record changes nothing.
LEMMA BunchGrows ==
    ASSUME NEW q \in Seq(Queues), NEW r \in Queues, NEW b, BunchOf(b, q)
    PROVE  BunchOf(b, Append(q, r))
<1> DEFINE qr == Append(q, r)
<1>1. /\ Len(q) \in Nat /\ Len(qr) = Len(q) + 1
      /\ \A n \in 1..Len(q) : qr[n] = q[n]
  OBVIOUS
<1> HIDE DEF qr
<1>2. FirstId(b) \in Int
  BY DEF BunchOf
<1>3. \A n \in 1..Len(q) : n \in 1..Len(qr)
  BY <1>1
<1> QED BY <1>1, <1>2, <1>3 DEF BunchOf

LEMMA FollowsGrows ==
    ASSUME NEW q \in Seq(Queues), NEW r \in Queues, NEW a, NEW b,
           BunchOf(b, q), Follows(a, b, q)
    PROVE  Follows(a, b, Append(q, r))
<1>1. FirstId(b) \in 1..Len(q)
  BY DEF BunchOf
<1>2. Append(q, r)[FirstId(b)] = q[FirstId(b)]
  BY <1>1
<1> QED BY <1>2 DEF Follows

\* Without records there are no bunches.
LEMMA ChainOfNothing ==
    ASSUME NEW bs, NEW q, ChainOf(bs, q), q = <<>>
    PROVE  bs = <<>>
<1> SUFFICES ASSUME bs # <<>> PROVE FALSE
  OBVIOUS
<1>1. bs \in Seq(BunchRecords) /\ \A k \in 1..Len(bs) : BunchOf(bs[k], q)
  BY DEF ChainOf
<1>2. 1 \in 1..Len(bs)
  BY <1>1, EmptySeq
<1>3. FirstId(bs[1]) \in 1..Len(q)
  BY <1>1, <1>2 DEF BunchOf
<1> QED BY <1>3

\* A bunch for the next record.
NewBunch(q, r) ==
    [time_stamp |-> r.time, pkts |-> <<[id |-> Len(q) + 1, rw |-> r.rw]>>]

LEMMA NewBunchOf ==
    ASSUME NEW q \in Seq(Queues), NEW r \in Queues
    PROVE  /\ BunchOf(NewBunch(q, r), Append(q, r))
           /\ FirstId(NewBunch(q, r)) = Len(q) + 1
           /\ Len(NewBunch(q, r).pkts) = 1
<1> DEFINE b == NewBunch(q, r)
           p == [id |-> Len(q) + 1, rw |-> r.rw]
           qr == Append(q, r)
<1>1. /\ r.time \in 1..MaxTime /\ r.rw \in {"R", "W"}
      /\ Len(q) \in Nat /\ Len(qr) = Len(q) + 1 /\ qr[Len(q) + 1] = r
  BY DEF Queues
<1>2. p \in Packets
  BY <1>1 DEF Packets
<1>3. /\ b.pkts = <<p>> /\ b.time_stamp = r.time /\ b.pkts \in Seq(Packets)
      /\ Len(b.pkts) = 1 /\ b.pkts[1] = p
  BY <1>2 DEF NewBunch
<1>4. b \in BunchRecords
  BY <1>1, <1>2, RecConstants DEF NewBunch, BunchRecords
<1>5. FirstId(b) = Len(q) + 1
  BY <1>3 DEF FirstId
<1>6. BunchOf(b, qr)
  <2> HIDE DEF b, p, qr
  <2>1. 1..Len(b.pkts) = {1} /\ FirstId(b) + 1 - 1 = Len(q) + 1
        /\ FirstId(b) \in 1..Len(qr)
    BY <1>1, <1>3, <1>5
  <2>2. p.id = Len(q) + 1 /\ p.rw = r.rw
    BY DEF p
  <2>3. qr[Len(q) + 1].time - b.time_stamp \in 0..max_bunch_tm
    BY <1>1, <1>3, RecConstants
  <2>4. Len(b.pkts) \in 1..max_pkts_per_bunch
    BY <1>3, RecConstants
  <2>5. b.time_stamp = qr[FirstId(b)].time
    BY <1>1, <1>3, <1>5
  <2>6. \A k \in {1} :
          /\ FirstId(b) + k - 1 \in 1..Len(qr)
          /\ b.pkts[k].id = FirstId(b) + k - 1
          /\ b.pkts[k].rw = qr[FirstId(b) + k - 1].rw
          /\ qr[FirstId(b) + k - 1].time - b.time_stamp \in 0..max_bunch_tm
    BY <1>1, <1>3, <1>5, <2>1, <2>2, <2>3
  <2> QED BY <1>4, <2>1, <2>4, <2>5, <2>6 DEF BunchOf
<1> QED BY <1>3, <1>5, <1>6

\* The record starts a bunch, because the last one is done.
LEMMA AppendBunch ==
    ASSUME NEW bs, NEW q, NEW r \in Queues, ChainOf(bs, q),
           bs # <<>> => \/ Len(bs[Len(bs)].pkts) = max_pkts_per_bunch
                        \/ r.time > bs[Len(bs)].time_stamp + max_bunch_tm
    PROVE  ChainOf(Append(bs, NewBunch(q, r)), Append(q, r))
<1> DEFINE b == NewBunch(q, r)
           qr == Append(q, r)
           cs == Append(bs, b)
<1>1. /\ bs \in Seq(BunchRecords) /\ q \in Seq(Queues)
      /\ \A k \in 1..Len(bs) : BunchOf(bs[k], q)
      /\ \A k \in 1..Len(bs) - 1 : Follows(bs[k], bs[k + 1], q)
  BY DEF ChainOf
<1>2. /\ BunchOf(b, qr) /\ FirstId(b) = Len(q) + 1 /\ Len(b.pkts) = 1
  BY <1>1, NewBunchOf
<1>3. b \in BunchRecords
  BY <1>2 DEF BunchOf
<1>4. /\ Len(q) \in Nat /\ Len(qr) = Len(q) + 1 /\ qr[Len(q) + 1] = r
      /\ qr \in Seq(Queues)
  BY <1>1
<1>5. /\ Len(bs) \in Nat /\ Len(cs) = Len(bs) + 1 /\ cs[Len(bs) + 1] = b
      /\ \A k \in 1..Len(bs) : cs[k] = bs[k]
      /\ cs \in Seq(BunchRecords)
      /\ bs = <<>> <=> Len(bs) = 0
  <2> HIDE DEF b
  <2> QED BY <1>1, <1>3, EmptySeq
<1>6. \A k \in 1..Len(bs) : BunchOf(bs[k], qr)
  BY <1>1, BunchGrows
<1>7. \A k \in 1..Len(bs) - 1 : Follows(bs[k], bs[k + 1], qr)
  <2> SUFFICES ASSUME NEW k \in 1..Len(bs) - 1
               PROVE  Follows(bs[k], bs[k + 1], qr)
    OBVIOUS
  <2>1. k + 1 \in 1..Len(bs)
    BY <1>5
  <2> QED BY <1>1, <2>1, FollowsGrows
<1>8. bs # <<>> => /\ FirstId(bs[1]) = 1
                   /\ FirstId(bs[Len(bs)]) + Len(bs[Len(bs)].pkts)
                         = Len(q) + 1
  BY DEF ChainOf
<1>9. bs = <<>> => q = <<>>
  BY DEF ChainOf
<1> HIDE DEF b, qr, cs
<1>10. \A k \in 1..Len(cs) : BunchOf(cs[k], qr)
  <2> SUFFICES ASSUME NEW k \in 1..Len(cs) PROVE BunchOf(cs[k], qr)
    OBVIOUS
  <2>1. k \in 1..Len(bs) \/ k = Len(bs) + 1
    BY <1>5
  <2> QED BY <2>1, <1>2, <1>5, <1>6
<1>11. \A k \in 1..Len(cs) - 1 : Follows(cs[k], cs[k + 1], qr)
  <2> SUFFICES ASSUME NEW k \in 1..Len(cs) - 1
               PROVE  Follows(cs[k], cs[k + 1], qr)
    OBVIOUS
  <2>1. CASE k \in 1..Len(bs) - 1
    <3>1. k \in 1..Len(bs) /\ k + 1 \in 1..Len(bs)
      BY <1>5, <2>1
    <3> QED BY <2>1, <3>1, <1>5, <1>7
  <2>2. CASE k = Len(bs)
    <3>1. bs # <<>> /\ cs[k] = bs[Len(bs)] /\ cs[k + 1] = b
          /\ k \in 1..Len(bs)
      BY <1>5, <2>2
    <3>2. qr[FirstId(b)].time = r.time
      BY <1>2, <1>4
    <3> QED BY <1>2, <1>8, <3>1, <3>2 DEF Follows
  <2>3. k \in 1..Len(bs) - 1 \/ k = Len(bs)
    BY <1>5
  <2> QED BY <2>1, <2>2, <2>3
<1>12. FirstId(cs[1]) = 1
  <2>1. CASE bs = <<>>
    BY <1>2, <1>5, <1>9, <2>1
  <2>2. CASE bs # <<>>
    BY <1>5, <1>8, <2>2
  <2> QED BY <2>1, <2>2
<1>13. FirstId(cs[Len(cs)]) + Len(cs[Len(cs)].pkts) = Len(qr) + 1
  BY <1>2, <1>4, <1>5
<1> QED
  <2>1. cs # <<>>
    BY <1>5, EmptySeq
  <2> QED
    BY <2>1, <1>4, <1>5, <1>10, <1>11, <1>12, <1>13 DEF ChainOf, b, qr, cs

\* The bunch b, with the next record put into it.
Extended(b, q, r) ==
    [b EXCEPT !.pkts = Append(@, [id |-> Len(q) + 1, rw |-> r.rw])]

LEMMA ExtendedBunchOf ==
    ASSUME NEW q \in Seq(Queues), NEW r \in Queues, NEW b, BunchOf(b, q),
           FirstId(b) + Len(b.pkts) = Len(q) + 1,
           Len(b.pkts) < max_pkts_per_bunch,
           r.time - b.time_stamp \in 0..max_bunch_tm
    PROVE  /\ BunchOf(Extended(b, q, r), Append(q, r))
           /\ FirstId(Extended(b, q, r)) = FirstId(b)
           /\ Len(Extended(b, q, r).pkts) = Len(b.pkts) + 1
           /\ Extended(b, q, r).time_stamp = b.time_stamp
<1> DEFINE e == Extended(b, q, r)
           p == [id |-> Len(q) + 1, rw |-> r.rw]
           qr == Append(q, r)
<1>1. /\ r.time \in 1..MaxTime /\ r.rw \in {"R", "W"}
      /\ Len(q) \in Nat /\ Len(qr) = Len(q) + 1 /\ qr[Len(q) + 1] = r
  BY DEF Queues
<1>2. p \in Packets /\ p.id = Len(q) + 1 /\ p.rw = r.rw
  BY <1>1 DEF Packets
<1>3. b \in BunchRecords /\ BunchOf(b, qr)
  BY BunchGrows DEF BunchOf
<1> HIDE DEF p, qr
<1>4. /\ b.pkts \in Seq(Packets) /\ b.time_stamp \in Nat
      /\ Len(b.pkts) \in 1..max_pkts_per_bunch /\ FirstId(b) \in 1..Len(q)
  BY <1>3 DEF BunchRecords, BunchOf
<1>5. /\ e.pkts = Append(b.pkts, p) /\ e.time_stamp = b.time_stamp
      /\ e = [time_stamp |-> b.time_stamp, pkts |-> Append(b.pkts, p)]
  <2>1. e = [b EXCEPT !.pkts = Append(b.pkts, p)]
    BY DEF Extended, p
  <2>2. b \in [time_stamp : Nat, pkts : Seq(Packets)]
    BY <1>3 DEF BunchRecords
  <2> HIDE DEF e
  <2> QED BY <2>1, <2>2
<1>6. /\ e.pkts \in Seq(Packets) /\ Len(e.pkts) = Len(b.pkts) + 1
      /\ e.pkts[Len(b.pkts) + 1] = p
      /\ \A k \in 1..Len(b.pkts) : e.pkts[k] = b.pkts[k]
  BY <1>2, <1>4, <1>5
<1>7. e \in BunchRecords
  BY <1>4, <1>5, <1>6 DEF BunchRecords
<1>8. FirstId(e) = FirstId(b)
  BY <1>4, <1>6 DEF FirstId
<1> HIDE DEF e
<1>9. BunchOf(e, qr)
  <2>1. Len(e.pkts) \in 1..max_pkts_per_bunch
    BY <1>4, <1>6, RecConstants
  <2>2. \A k \in 1..Len(b.pkts) :
          /\ FirstId(b) + k - 1 \in 1..Len(qr)
          /\ b.pkts[k].id = FirstId(b) + k - 1
          /\ b.pkts[k].rw = qr[FirstId(b) + k - 1].rw
          /\ qr[FirstId(b) + k - 1].time - b.time_stamp \in 0..max_bunch_tm
    BY <1>3 DEF BunchOf
  <2>3. FirstId(b) \in 1..Len(qr) /\ b.time_stamp = qr[FirstId(b)].time
    BY <1>3 DEF BunchOf
  <2>4. FirstId(b) + (Len(b.pkts) + 1) - 1 = Len(q) + 1
    BY <1>1, <1>4
  <2>5. ASSUME NEW k \in 1..Len(e.pkts)
        PROVE  /\ FirstId(e) + k - 1 \in 1..Len(qr)
               /\ e.pkts[k].id = FirstId(e) + k - 1
               /\ e.pkts[k].rw = qr[FirstId(e) + k - 1].rw
               /\ qr[FirstId(e) + k - 1].time - e.time_stamp
                     \in 0..max_bunch_tm
    <3>1. CASE k \in 1..Len(b.pkts)
      BY <3>1, <2>2, <1>5, <1>6, <1>8
    <3>2. CASE k = Len(b.pkts) + 1
      BY <3>2, <2>4, <1>1, <1>2, <1>5, <1>6, <1>8
    <3> QED BY <3>1, <3>2, <1>4, <1>6
  <2> QED BY <2>1, <2>3, <2>5, <1>5, <1>7, <1>8 DEF BunchOf
<1> QED BY <1>5, <1>6, <1>8, <1>9 DEF e, qr

\* The record goes into the last bunch.
LEMMA ExtendBunch ==
    ASSUME NEW bs \in Seq(BunchRecords), NEW b \in BunchRecords, NEW q,
           NEW r \in Queues, ChainOf(Append(bs, b), q),
           Len(b.pkts) < max_pkts_per_bunch,
           r.time - b.time_stamp \in 0..max_bunch_tm
    PROVE  ChainOf(Append(bs, Extended(b, q, r)), Append(q, r))
<1> DEFINE old == Append(bs, b)
           e  == Extended(b, q, r)
           cs == Append(bs, e)
           qr == Append(q, r)
<1>1. /\ q \in Seq(Queues)
      /\ \A k \in 1..Len(old) : BunchOf(old[k], q)
      /\ \A k \in 1..Len(old) - 1 : Follows(old[k], old[k + 1], q)
  BY DEF ChainOf
<1>2. /\ Len(bs) \in Nat /\ Len(old) = Len(bs) + 1 /\ old[Len(bs) + 1] = b
      /\ \A k \in 1..Len(bs) : old[k] = bs[k]
  OBVIOUS
<1>3. /\ FirstId(old[1]) = 1
      /\ FirstId(b) + Len(b.pkts) = Len(q) + 1
  <2>1. old # <<>>
    <3> HIDE DEF old
    <3> QED BY <1>2, EmptySeq
  <2> QED BY <2>1, <1>2 DEF ChainOf
<1>4. BunchOf(b, q)
  BY <1>1, <1>2
<1>5. /\ BunchOf(e, qr) /\ FirstId(e) = FirstId(b)
      /\ Len(e.pkts) = Len(b.pkts) + 1 /\ e.time_stamp = b.time_stamp
  BY <1>1, <1>3, <1>4, ExtendedBunchOf
<1>6. e \in BunchRecords
  BY <1>5 DEF BunchOf
<1>7. /\ Len(q) \in Nat /\ Len(qr) = Len(q) + 1 /\ qr \in Seq(Queues)
      /\ \A n \in 1..Len(q) : qr[n] = q[n]
  BY <1>1
<1> HIDE DEF old, e, qr
<1>8. /\ Len(cs) = Len(bs) + 1 /\ cs[Len(bs) + 1] = e
      /\ \A k \in 1..Len(bs) : cs[k] = bs[k]
      /\ cs \in Seq(BunchRecords)
  BY <1>6
<1>9. cs # <<>>
  BY <1>2, <1>8, EmptySeq
<1> HIDE DEF cs
<1>10. ASSUME NEW k \in 1..Len(cs) PROVE BunchOf(cs[k], qr)
  <2>1. CASE k \in 1..Len(bs)
    BY <2>1, <1>1, <1>2, <1>8, BunchGrows DEF qr
  <2>2. CASE k = Len(bs) + 1
    BY <2>2, <1>5, <1>8
  <2> QED BY <2>1, <2>2, <1>2, <1>8
<1>11. ASSUME NEW k \in 1..Len(cs) - 1
       PROVE  Follows(cs[k], cs[k + 1], qr)
  <2>1. k \in 1..Len(old) - 1 /\ k \in 1..Len(old) /\ k + 1 \in 1..Len(old)
        /\ k \in 1..Len(bs)
    BY <1>2, <1>8
  <2>2. Follows(old[k], old[k + 1], q) /\ BunchOf(old[k + 1], q)
    BY <1>1, <2>1
  <2>3. Follows(old[k], old[k + 1], qr)
    BY <1>1, <2>2, FollowsGrows DEF qr
  <2>4. CASE k + 1 \in 1..Len(bs)
    BY <2>1, <2>3, <2>4, <1>2, <1>8
  <2>5. CASE k = Len(bs)
    <3>1. cs[k] = old[k] /\ cs[k + 1] = e /\ old[k + 1] = b
      BY <2>1, <2>5, <1>2, <1>8
    <3> QED BY <2>3, <3>1, <1>5 DEF Follows
  <2> QED BY <2>1, <2>4, <2>5, <1>2
<1>12. FirstId(cs[1]) = 1
  <2>1. CASE Len(bs) = 0
    <3>1. old[1] = b
      <4>1. Len(bs) + 1 = 1 /\ old[Len(bs) + 1] = b
        BY <2>1, <1>2
      <4> QED BY <4>1
    <3>2. cs[1] = e
      BY <2>1, <1>8
    <3> QED BY <3>1, <3>2, <1>3, <1>5
  <2>2. CASE Len(bs) # 0
    <3>1. 1 \in 1..Len(bs)
      BY <2>2, <1>2
    <3>2. old[1] = bs[1]
      BY <3>1, <1>2
    <3>3. cs[1] = bs[1]
      BY <3>1, <1>8
    <3> QED BY <3>2, <3>3, <1>3
  <2> QED BY <2>1, <2>2
<1>13. FirstId(cs[Len(cs)]) + Len(cs[Len(cs)].pkts) = Len(qr) + 1
  <2>1. FirstId(b) \in Int /\ Len(b.pkts) \in Int
    BY <1>4 DEF BunchOf
  <2> QED BY <2>1, <1>2, <1>3, <1>5, <1>7, <1>8
<1> QED
  BY <1>7, <1>8, <1>9, <1>10, <1>11, <1>12, <1>13
     DEF ChainOf, old, e, cs, qr
-----------------------------------------------------------------------------
(* The packets of all bunches.                                             *)

\* The first n elements of the sequence s.
LEMMA Prefix ==
    ASSUME NEW S, NEW s \in Seq(S), NEW n \in 0..Len(s)
    PROVE  /\ SubSeq(s, 1, n) \in Seq(S) /\ Len(SubSeq(s, 1, n)) = n
           /\ \A m \in 1..n : SubSeq(s, 1, n)[m] = s[m]
<1>1. \A m \in 1..n : s[m] \in S
  OBVIOUS
<1>2. /\ SubSeq(s, 1, n) \in Seq(S)
      /\ Len(SubSeq(s, 1, n)) = IF 1 <= n THEN n - 1 + 1 ELSE 0
      /\ \A m \in 1..n - 1 + 1 : SubSeq(s, 1, n)[m] = s[1 + m - 1]
  BY <1>1, SubSeqProperties
<1> QED BY <1>2

LEMMA WholePrefix ==
    ASSUME NEW S, NEW s \in Seq(S)
    PROVE  SubSeq(s, 1, Len(s)) = s
<1> DEFINE u == SubSeq(s, 1, Len(s))
<1>1. u \in Seq(S) /\ Len(u) = Len(s) /\ \A m \in 1..Len(u) : u[m] = s[m]
  <2>1. Len(s) \in 0..Len(s)
    OBVIOUS
  <2> QED BY <2>1, Prefix
<1> HIDE DEF u
<1>2. u = s
  BY <1>1, SeqEqual
<1> QED BY <1>2 DEF u

\* And what comes next.
LEMMA PrefixAndPiece ==
    ASSUME NEW S, NEW s \in Seq(S), NEW t \in Seq(S), NEW n \in Nat,
           NEW e \in 0..Len(s), e = n + Len(t),
           \A m \in 1..Len(t) : t[m] = s[n + m]
    PROVE  SubSeq(s, 1, n) \o t = SubSeq(s, 1, e)
<1> DEFINE a == SubSeq(s, 1, n)
           b == SubSeq(s, 1, e)
<1>1. Len(t) \in Nat /\ n \in 0..Len(s) /\ n + Len(t) \in 0..Len(s)
  OBVIOUS
<1>2. /\ a \in Seq(S) /\ Len(a) = n /\ \A m \in 1..n : a[m] = s[m]
      /\ b \in Seq(S) /\ Len(b) = n + Len(t)
      /\ \A m \in 1..n + Len(t) : b[m] = s[m]
  BY <1>1, Prefix
<1> HIDE DEF a, b
<1> DEFINE u == a \o t
<1>3. /\ u \in Seq(S) /\ Len(u) = n + Len(t)
      /\ \A m \in 1..n + Len(t) :
            u[m] = IF m <= n THEN a[m] ELSE t[m - n]
  BY <1>1, <1>2, ConcatProperties
<1> HIDE DEF u
<1>4. ASSUME NEW m \in 1..n + Len(t) PROVE u[m] = b[m]
  <2>1. CASE m <= n
    <3>1. m \in 1..n
      BY <2>1, <1>1
    <3>2. u[m] = a[m]
      BY <2>1, <1>3
    <3> QED BY <3>1, <3>2, <1>2
  <2>2. CASE m > n
    <3>1. m - n \in 1..Len(t) /\ n + (m - n) = m
      BY <2>2, <1>1
    <3>2. t[m - n] = s[m]
      BY <3>1
    <3> QED BY <2>2, <3>2, <1>1, <1>2, <1>3
  <2> QED BY <2>1, <2>2, <1>1
<1>5. u = b
  <2>1. Len(u) = Len(b) /\ \A m \in 1..Len(u) : u[m] = b[m]
    BY <1>2, <1>3, <1>4
  <2> QED BY <2>1, <1>2, <1>3, SeqEqual
<1> QED BY <1>5 DEF a, b, u

\* The N pieces ss of the sequence s, one after the other: end[k] is how far
\* the first k of them reach.
ArePieces(ss, N, end, s) ==
    /\ end[0] = 0
    /\ \A k \in 1..N : /\ end[k] = end[k - 1] + Len(ss[k])
                       /\ \A m \in 1..Len(ss[k]) :
                             ss[k][m] = s[end[k - 1] + m]

\* FlattenSeq, which is defined by recursion, of pieces of the sequence s.
LEMMA FlattenPieces ==
    ASSUME NEW S, NEW s \in Seq(S), NEW N \in Nat \ {0},
           NEW ss \in [1..N -> Seq(S)],
           NEW end \in [0..N -> 0..Len(s)], ArePieces(ss, N, end, s)
    PROVE  FlattenSeq(ss) = SubSeq(s, 1, end[N])
<1> DEFINE Step(g) == [k \in 1..N |-> IF k = 1 THEN ss[k]
                                               ELSE g[k - 1] \o ss[k]]
           flat == CHOOSE g : g = Step(g)
           h == [k \in 1..N |-> SubSeq(s, 1, end[k])]
<1>0. /\ end[0] = 0
      /\ \A k \in 1..N : /\ end[k] = end[k - 1] + Len(ss[k])
                         /\ \A m \in 1..Len(ss[k]) :
                               ss[k][m] = s[end[k - 1] + m]
  BY DEF ArePieces
<1>1. Len(ss) = N
  OBVIOUS
<1>2. FlattenSeq(ss) = flat[N]
  BY <1>1 DEF FlattenSeq
<1> HIDE DEF Step, flat, h
<1>3. ASSUME NEW k \in 1..N
      PROVE  SubSeq(s, 1, end[k - 1]) \o ss[k] = SubSeq(s, 1, end[k])
  <2>1. /\ end[k - 1] \in Nat /\ end[k] \in 0..Len(s)
        /\ ss[k] \in Seq(S)
        /\ end[k] = end[k - 1] + Len(ss[k])
        /\ \A m \in 1..Len(ss[k]) : ss[k][m] = s[end[k - 1] + m]
    <3>1. k - 1 \in 0..N /\ k \in 0..N
      OBVIOUS
    <3>2. end[k - 1] \in 0..Len(s) /\ end[k] \in 0..Len(s)
      BY <3>1
    <3> QED BY <3>2, <1>0
  <2>2. \A t \in Seq(S), n \in Nat, e \in 0..Len(s) :
           /\ e = n + Len(t)
           /\ \A m \in 1..Len(t) : t[m] = s[n + m]
           => SubSeq(s, 1, n) \o t = SubSeq(s, 1, e)
    BY PrefixAndPiece, Zenon
  <2> QED BY <2>1, <2>2
<1>4. ASSUME NEW k \in 1..N, k = 1
      PROVE  ss[k] = SubSeq(s, 1, end[k])
  <2>1. SubSeq(s, 1, end[k - 1]) = <<>>
    BY <1>0, <1>4, SubSeqEmpty
  <2>2. <<>> \o ss[k] = ss[k]
    BY ConcatEmptySeq
  <2> QED BY <1>3, <2>1, <2>2
<1>5. h = Step(h)
  <2>1. ASSUME NEW k \in 1..N
        PROVE  h[k] = IF k = 1 THEN ss[k] ELSE h[k - 1] \o ss[k]
    <3>1. CASE k = 1
      BY <3>1, <1>4 DEF h
    <3>2. CASE k # 1
      <4>1. k - 1 \in 1..N
        BY <3>2
      <4>2. h[k - 1] = SubSeq(s, 1, end[k - 1]) /\ h[k] = SubSeq(s, 1, end[k])
        BY <4>1 DEF h
      <4> QED BY <3>2, <4>2, <1>3
    <3> QED BY <3>1, <3>2
  <2>2. h = [k \in 1..N |-> h[k]]
    BY DEF h
  <2> QED BY <2>1, <2>2 DEF Step
<1>6. flat = Step(flat)
  <2>1. \E g : g = Step(g)
    BY <1>5
  <2> QED BY <2>1 DEF flat
<1> DEFINE K == {0} \cup {k \in 1..N : flat[k] = SubSeq(s, 1, end[k])}
<1>7. ASSUME NEW k \in 0..N - 1, k \in K
      PROVE  k + 1 \in K
  <2>1. k + 1 \in 1..N /\ (k + 1) - 1 = k
    OBVIOUS
  <2>2. flat[k + 1] = IF k + 1 = 1 THEN ss[k + 1] ELSE flat[k] \o ss[k + 1]
    BY <1>6, <2>1 DEF Step
  <2>3. flat[k + 1] = SubSeq(s, 1, end[k + 1])
    <3>1. CASE k = 0
      <4>1. flat[k + 1] = ss[k + 1]
        BY <3>1, <2>2
      <4> QED BY <3>1, <4>1, <1>4, <2>1
    <3>2. CASE k # 0
      <4>1. flat[k] = SubSeq(s, 1, end[k])
        BY <3>2, <1>7
      <4>2. flat[k + 1] = SubSeq(s, 1, end[k]) \o ss[k + 1]
        <5>1. k + 1 # 1
          BY <3>2
        <5> QED BY <5>1, <2>2, <4>1
      <4>3. SubSeq(s, 1, end[(k + 1) - 1]) \o ss[k + 1]
               = SubSeq(s, 1, end[k + 1])
        BY <2>1, <1>3
      <4> QED BY <4>2, <4>3, <2>1
    <3> QED BY <3>1, <3>2
  <2> QED BY <2>1, <2>3
<1>8. 0..N \subseteq K
  <2>1. 0 \in K
    OBVIOUS
  <2> HIDE DEF K
  <2> QED BY <2>1, <1>7, InductionUpTo
<1>9. N \in K /\ N # 0
  BY <1>8
<1> QED BY <1>2, <1>9

\* The packets the records q are to become: Recorded of the file.
PacketsOf(q) == [k \in 1..Len(q) |-> [id |-> k, rw |-> q[k].rw]]

LEMMA PacketsOfType ==
    ASSUME NEW q \in Seq(Queues)
    PROVE  PacketsOf(q) \in Seq(Packets) /\ Len(PacketsOf(q)) = Len(q)
<1>1. ASSUME NEW k \in 1..Len(q)
      PROVE  [id |-> k, rw |-> q[k].rw] \in Packets
  <2>1. q[k] \in Queues
    OBVIOUS
  <2>2. q[k].rw \in {"R", "W"}
    BY <2>1 DEF Queues
  <2> QED BY <2>2 DEF Packets
<1>2. Len(q) \in Nat
  OBVIOUS
<1> QED BY <1>1, <1>2 DEF PacketsOf

\* The packet k of a bunch is the packet of its record.
LEMMA BunchPacket ==
    ASSUME NEW q \in Seq(Queues), NEW b, BunchOf(b, q),
           NEW k \in 1..Len(b.pkts)
    PROVE  b.pkts[k] = PacketsOf(q)[FirstId(b) - 1 + k]
<1>1. b.pkts \in Seq(Packets)
  BY DEF BunchOf, BunchRecords
<1>2. /\ FirstId(b) \in Int /\ FirstId(b) + k - 1 \in 1..Len(q)
      /\ b.pkts[k].id = FirstId(b) + k - 1
      /\ b.pkts[k].rw = q[FirstId(b) + k - 1].rw
  <2>1. FirstId(b) \in 1..Len(q)
    BY DEF BunchOf
  <2>2. FirstId(b) \in Int
    BY <2>1
  <2>3. /\ FirstId(b) + k - 1 \in 1..Len(q)
        /\ b.pkts[k].id = FirstId(b) + k - 1
        /\ b.pkts[k].rw = q[FirstId(b) + k - 1].rw
    BY DEF BunchOf
  <2> QED BY <2>2, <2>3
<1>3. b.pkts[k] \in Packets
  BY <1>1
<1>4. b.pkts[k] = [id |-> FirstId(b) + k - 1,
                   rw |-> q[FirstId(b) + k - 1].rw]
  BY <1>2, <1>3 DEF Packets
<1>5. FirstId(b) - 1 + k = FirstId(b) + k - 1 /\ k \in Int
  BY <1>2
<1> QED BY <1>2, <1>4, <1>5 DEF PacketsOf

\* The packets of the first n bunches are those of the first records.
LEMMA FirstBunches ==
    ASSUME NEW bs, NEW q, ChainOf(bs, q), NEW n \in 1..Len(bs)
    PROVE  FlattenSeq([k \in 1..n |-> bs[k].pkts])
              = SubSeq(PacketsOf(q), 1, FirstId(bs[n]) + Len(bs[n].pkts) - 1)
<1> DEFINE ss == [k \in 1..n |-> bs[k].pkts]
           end == [k \in 0..n |-> IF k = 0 THEN 0
                                  ELSE FirstId(bs[k]) + Len(bs[k].pkts) - 1]
           s == PacketsOf(q)
<1>1. /\ bs \in Seq(BunchRecords) /\ q \in Seq(Queues) /\ Len(bs) \in Nat
      /\ \A k \in 1..Len(bs) : BunchOf(bs[k], q)
      /\ \A k \in 1..Len(bs) - 1 : Follows(bs[k], bs[k + 1], q)
  BY DEF ChainOf
<1>2. s \in Seq(Packets) /\ Len(s) = Len(q)
  BY <1>1, PacketsOfType
<1>3. n \in Nat \ {0} /\ n <= Len(bs)
  BY <1>1
<1>4. FirstId(bs[1]) = 1
  <2>1. bs # <<>>
    BY <1>1, <1>3, EmptySeq
  <2> QED BY <2>1 DEF ChainOf
<1>5. ASSUME NEW k \in 1..n
      PROVE  /\ bs[k].pkts \in Seq(Packets)
             /\ Len(bs[k].pkts) \in Nat \ {0}
             /\ FirstId(bs[k]) \in 1..Len(q)
             /\ FirstId(bs[k]) + Len(bs[k].pkts) - 1 \in 1..Len(q)
             /\ \A m \in 1..Len(bs[k].pkts) :
                   bs[k].pkts[m] = s[FirstId(bs[k]) - 1 + m]
  <2>1. k \in 1..Len(bs)
    BY <1>3
  <2>2. BunchOf(bs[k], q)
    BY <1>1, <2>1
  <2>3. \A m \in 1..Len(bs[k].pkts) :
           bs[k].pkts[m] = s[FirstId(bs[k]) - 1 + m]
    BY <1>1, <2>2, BunchPacket
  <2>4. Len(bs[k].pkts) \in 1..Len(bs[k].pkts)
    BY <2>2, RecConstants DEF BunchOf
  <2>5. FirstId(bs[k]) + Len(bs[k].pkts) - 1 \in 1..Len(q)
    BY <2>2, <2>4 DEF BunchOf
  <2> QED BY <2>2, <2>3, <2>5, RecConstants DEF BunchOf, BunchRecords
<1>6. ss \in [1..n -> Seq(Packets)] /\ \A k \in 1..n : ss[k] = bs[k].pkts
  BY <1>5
<1>7. end \in [0..n -> 0..Len(s)]
  <2>1. ASSUME NEW k \in 0..n
        PROVE  (IF k = 0 THEN 0 ELSE FirstId(bs[k]) + Len(bs[k].pkts) - 1)
                  \in 0..Len(s)
    BY <1>2, <1>5
  <2> QED BY <2>1
<1>8. /\ end[0] = 0
      /\ \A k \in 1..n : end[k] = FirstId(bs[k]) + Len(bs[k].pkts) - 1
  BY <1>3
<1> HIDE DEF ss, end, s
<1>9. ASSUME NEW k \in 1..n
      PROVE  /\ end[k - 1] = FirstId(bs[k]) - 1
             /\ end[k] = FirstId(bs[k]) + Len(bs[k].pkts) - 1
  <2>1. CASE k = 1
    BY <2>1, <1>4, <1>8
  <2>2. CASE k # 1
    <3>1. k - 1 \in 1..Len(bs) - 1 /\ (k - 1) + 1 = k /\ k - 1 \in 1..n
      BY <2>2, <1>3
    <3>2. Follows(bs[k - 1], bs[k], q)
      BY <3>1, <1>1
    <3>3. FirstId(bs[k]) = FirstId(bs[k - 1]) + Len(bs[k - 1].pkts)
      BY <3>2 DEF Follows
    <3>4. end[k - 1] = FirstId(bs[k - 1]) + Len(bs[k - 1].pkts) - 1
      BY <3>1, <1>8
    <3>5. FirstId(bs[k - 1]) \in Nat /\ Len(bs[k - 1].pkts) \in Nat
      BY <3>1, <1>5
    <3> QED BY <3>3, <3>4, <3>5, <1>8
  <2> QED BY <2>1, <2>2
<1>10. ASSUME NEW k \in 1..n
       PROVE  /\ end[k] = end[k - 1] + Len(ss[k])
              /\ \A m \in 1..Len(ss[k]) : ss[k][m] = s[end[k - 1] + m]
  <2>1. ss[k] = bs[k].pkts
    BY <1>6
  <2>2. FirstId(bs[k]) \in Nat /\ Len(bs[k].pkts) \in Nat
    BY <1>5
  <2>3. end[k] = end[k - 1] + Len(ss[k])
    <3>1. /\ end[k - 1] = FirstId(bs[k]) - 1
          /\ end[k] = FirstId(bs[k]) + Len(bs[k].pkts) - 1
      BY <1>9
    <3> QED BY <2>1, <2>2, <3>1
  <2>4. \A m \in 1..Len(ss[k]) : ss[k][m] = s[end[k - 1] + m]
    BY <2>1, <1>5, <1>9
  <2> QED BY <2>3, <2>4
<1>11. FlattenSeq(ss) = SubSeq(s, 1, end[n])
  <2>1. \A k \in 1..n :
          /\ end[k] = end[k - 1] + Len(ss[k])
          /\ \A m \in 1..Len(ss[k]) : ss[k][m] = s[end[k - 1] + m]
    BY <1>10
  <2>2. ArePieces(ss, n, end, s)
    BY <1>8, <2>1 DEF ArePieces
  <2>3. n \in Nat \ {0} /\ s \in Seq(Packets)
        /\ ss \in [1..n -> Seq(Packets)] /\ end \in [0..n -> 0..Len(s)]
    BY <1>2, <1>3, <1>6, <1>7
  <2>4. \A f \in [1..n -> Seq(Packets)] :
          \A e \in [0..n -> 0..Len(s)] :
            ArePieces(f, n, e, s) => FlattenSeq(f) = SubSeq(s, 1, e[n])
    BY <2>3, FlattenPieces
  <2> QED BY <2>2, <2>3, <2>4
<1>12. end[n] = FirstId(bs[n]) + Len(bs[n].pkts) - 1
  BY <1>3, <1>9
<1> QED BY <1>11, <1>12 DEF ss, s

\* All bunches hold all packets.
LEMMA AllPktsOfChain ==
    ASSUME NEW bs, NEW q, ChainOf(bs, q)
    PROVE  AllPkts(bs) = PacketsOf(q)
<1>1. /\ bs \in Seq(BunchRecords) /\ q \in Seq(Queues)
  BY DEF ChainOf
<1>2. CASE bs = <<>>
  <2>1. q = <<>>
    BY <1>2 DEF ChainOf
  <2>2. [k \in DOMAIN bs |-> bs[k].pkts] = <<>> /\ PacketsOf(q) = <<>>
    BY <1>2, <2>1 DEF PacketsOf
  <2>3. FlattenSeq(<<>>) = <<>>
    BY DEF FlattenSeq
  <2> QED BY <2>2, <2>3 DEF AllPkts
<1>3. CASE bs # <<>>
  <2>1. Len(bs) \in 1..Len(bs) /\ DOMAIN bs = 1..Len(bs)
    BY <1>1, <1>3, EmptySeq
  <2>2. FirstId(bs[Len(bs)]) + Len(bs[Len(bs)].pkts) = Len(q) + 1
    BY <1>3 DEF ChainOf
  <2>3. AllPkts(bs) = SubSeq(PacketsOf(q), 1, FirstId(bs[Len(bs)])
                                             + Len(bs[Len(bs)].pkts) - 1)
    BY <2>1, FirstBunches DEF AllPkts
  <2>4. (Len(q) + 1) - 1 = Len(PacketsOf(q)) /\ PacketsOf(q) \in Seq(Packets)
    BY <1>1, PacketsOfType
  <2>5. SubSeq(PacketsOf(q), 1, Len(PacketsOf(q))) = PacketsOf(q)
    BY <2>4, WholePrefix
  <2>6. BunchOf(bs[Len(bs)], q)
    BY <2>1 DEF ChainOf
  <2>7. FirstId(bs[Len(bs)]) \in Nat /\ Len(bs[Len(bs)].pkts) \in Nat
        /\ Len(q) \in Nat
    BY <1>1, <2>6, RecConstants DEF BunchOf
  <2>8. FirstId(bs[Len(bs)]) + Len(bs[Len(bs)].pkts) - 1
           = Len(PacketsOf(q))
    BY <2>2, <2>4, <2>7
  <2> QED BY <2>3, <2>5, <2>8
<1> QED BY <1>2, <1>3

\* And when the last bunch is not in the file yet.
LEMMA AllPktsBefore ==
    ASSUME NEW bs \in Seq(BunchRecords), NEW b \in BunchRecords, NEW q,
           ChainOf(Append(bs, b), q)
    PROVE  AllPkts(bs) \o b.pkts = PacketsOf(q)
<1> DEFINE cs == Append(bs, b)
           n == Len(bs)
           s == PacketsOf(q)
<1>1. /\ n \in Nat /\ Len(cs) = n + 1 /\ cs[n + 1] = b
      /\ \A k \in 1..n : cs[k] = bs[k]
  OBVIOUS
<1>2. cs # <<>>
  <2> HIDE DEF cs
  <2> QED BY <1>1, EmptySeq
<1>3. /\ q \in Seq(Queues) /\ BunchOf(b, q)
      /\ FirstId(cs[1]) = 1
      /\ FirstId(b) + Len(b.pkts) = Len(q) + 1
  <2> HIDE DEF cs, n
  <2>1. Len(cs) \in 1..Len(cs)
    BY <1>1
  <2> QED BY <1>1, <1>2, <2>1 DEF ChainOf, cs
<1>4. /\ s \in Seq(Packets) /\ Len(s) = Len(q) /\ Len(q) \in Nat
  BY <1>3, PacketsOfType
<1>5. /\ b.pkts \in Seq(Packets) /\ Len(b.pkts) \in Nat
      /\ FirstId(b) \in 1..Len(q)
      /\ \A m \in 1..Len(b.pkts) : b.pkts[m] = s[FirstId(b) - 1 + m]
  <2>1. \A m \in 1..Len(b.pkts) : b.pkts[m] = s[FirstId(b) - 1 + m]
    BY <1>3, BunchPacket
  <2>2. FirstId(b) \in 1..Len(q) /\ b \in BunchRecords
    BY <1>3 DEF BunchOf
  <2>3. b.pkts \in Seq(Packets)
    BY <2>2 DEF BunchRecords
  <2> QED BY <2>1, <2>2, <2>3
<1> HIDE DEF cs, s
<1>6. AllPkts(bs) = SubSeq(s, 1, FirstId(b) - 1)
  <2>1. CASE n = 0
    <3>1. bs = <<>>
      BY <2>1, EmptySeq
    <3>2. FirstId(b) = 1
      <4>1. cs[1] = b
        BY <2>1, <1>1
      <4> QED BY <4>1, <1>3
    <3>3. [k \in DOMAIN bs |-> bs[k].pkts] = <<>>
      BY <3>1
    <3>4. FlattenSeq(<<>>) = <<>>
      BY DEF FlattenSeq
    <3>5. SubSeq(s, 1, 1 - 1) = <<>>
      BY SubSeqEmpty
    <3> QED BY <3>2, <3>3, <3>4, <3>5 DEF AllPkts
  <2>2. CASE n # 0
    <3>1. n \in 1..Len(cs) /\ n \in 1..Len(cs) - 1 /\ n \in 1..n
      BY <2>2, <1>1
    <3> DEFINE f == [k \in 1..n |-> cs[k].pkts]
    <3>2. FlattenSeq(f)
             = SubSeq(s, 1, FirstId(cs[n]) + Len(cs[n].pkts) - 1)
      BY <3>1, FirstBunches DEF cs, s
    <3>3. f = [k \in DOMAIN bs |-> bs[k].pkts]
      <4>1. DOMAIN bs = 1..n
        OBVIOUS
      <4> QED BY <4>1, <1>1
    <3>4. Follows(cs[n], b, q)
      <4>1. Follows(cs[n], cs[n + 1], q)
        BY <3>1 DEF ChainOf, cs
      <4> QED BY <4>1, <1>1
    <3>5. FirstId(b) = FirstId(cs[n]) + Len(cs[n].pkts)
      BY <3>4 DEF Follows
    <3>6. AllPkts(bs) = FlattenSeq(f)
      BY <3>3 DEF AllPkts
    <3> HIDE DEF f
    <3>7. FirstId(b) - 1 = FirstId(cs[n]) + Len(cs[n].pkts) - 1
      <4>1. BunchOf(cs[n], q)
        BY <3>1 DEF ChainOf, cs
      <4>2. FirstId(cs[n]) \in Nat /\ Len(cs[n].pkts) \in Nat
        BY <4>1, <1>4, RecConstants DEF BunchOf
      <4> QED BY <4>2, <3>5
    <3> HIDE DEF n
    <3> QED BY <3>2, <3>6, <3>7
  <2> QED BY <2>1, <2>2
<1>7. /\ FirstId(b) - 1 \in Nat /\ Len(s) \in 0..Len(s)
      /\ Len(s) = FirstId(b) - 1 + Len(b.pkts)
  BY <1>3, <1>4, <1>5
<1>8. SubSeq(s, 1, FirstId(b) - 1) \o b.pkts = SubSeq(s, 1, Len(s))
  <2>1. \A t \in Seq(Packets), k \in Nat, e \in 0..Len(s) :
           /\ e = k + Len(t)
           /\ \A m \in 1..Len(t) : t[m] = s[k + m]
           => SubSeq(s, 1, k) \o t = SubSeq(s, 1, e)
    BY <1>4, PrefixAndPiece, Zenon
  <2> QED BY <1>5, <1>7, <2>1
<1>9. SubSeq(s, 1, Len(s)) = s
  BY <1>4, WholePrefix
<1> QED BY <1>6, <1>8, <1>9 DEF s
-----------------------------------------------------------------------------
(* The limits of the bunches, as BunchesAsLargeAsAllowed states them.      *)

Large(bs, q) ==
    \A k \in DOMAIN bs :
        LET b == bs[k]
            T(p) == q[p.id].time
        IN /\ Len(b.pkts) \in 1..max_pkts_per_bunch
           /\ b.time_stamp = T(b.pkts[1])
           /\ \A p \in Range(b.pkts) : T(p) - b.time_stamp \in 0..max_bunch_tm
           /\ k < Len(bs) =>
                 \/ Len(b.pkts) = max_pkts_per_bunch
                 \/ T(bs[k + 1].pkts[1]) > b.time_stamp + max_bunch_tm

LEMMA LargeMeans ==
    BunchesAsLargeAsAllowed
        <=> \A c \in Cpus : Large(ofile[c].bunches, queued[c])
  BY DEF BunchesAsLargeAsAllowed, Large

LEMMA BunchIsLarge ==
    ASSUME NEW q, NEW b, BunchOf(b, q)
    PROVE  /\ Len(b.pkts) \in 1..max_pkts_per_bunch
           /\ b.time_stamp = q[b.pkts[1].id].time
           /\ \A p \in Range(b.pkts) :
                 q[p.id].time - b.time_stamp \in 0..max_bunch_tm
<1>1. b.pkts \in Seq(Packets) /\ Len(b.pkts) \in 1..max_pkts_per_bunch
  BY DEF BunchOf, BunchRecords
<1>2. b.time_stamp = q[b.pkts[1].id].time
  BY DEF BunchOf, FirstId
<1>3. ASSUME NEW p \in Range(b.pkts)
      PROVE  q[p.id].time - b.time_stamp \in 0..max_bunch_tm
  <2>1. PICK k \in 1..Len(b.pkts) : p = b.pkts[k]
    BY <1>1 DEF Range
  <2> QED BY <2>1 DEF BunchOf
<1> QED BY <1>1, <1>2, <1>3

LEMMA FirstBunchesLarge ==
    ASSUME NEW cs, NEW q, ChainOf(cs, q), NEW bs \in Seq(BunchRecords),
           Len(bs) <= Len(cs), \A k \in 1..Len(bs) : bs[k] = cs[k]
    PROVE  Large(bs, q)
<1>1. /\ DOMAIN bs = 1..Len(bs) /\ Len(bs) \in Nat /\ Len(cs) \in Nat
  BY DEF ChainOf
<1>2. ASSUME NEW k \in 1..Len(bs)
      PROVE  /\ Len(bs[k].pkts) \in 1..max_pkts_per_bunch
             /\ bs[k].time_stamp = q[bs[k].pkts[1].id].time
             /\ \A p \in Range(bs[k].pkts) :
                   q[p.id].time - bs[k].time_stamp \in 0..max_bunch_tm
  <2>1. BunchOf(bs[k], q)
    BY <1>1 DEF ChainOf
  <2> QED BY <2>1, BunchIsLarge
<1>3. ASSUME NEW k \in 1..Len(bs), k < Len(bs)
      PROVE  \/ Len(bs[k].pkts) = max_pkts_per_bunch
             \/ q[bs[k + 1].pkts[1].id].time
                   > bs[k].time_stamp + max_bunch_tm
  <2>1. k \in 1..Len(cs) - 1 /\ k + 1 \in 1..Len(bs)
    BY <1>1, <1>3
  <2>2. Follows(cs[k], cs[k + 1], q)
    BY <2>1 DEF ChainOf
  <2>3. Follows(bs[k], bs[k + 1], q)
    BY <2>1, <2>2
  <2> QED BY <2>3 DEF Follows, FirstId
<1> QED BY <1>1, <1>2, <1>3 DEF Large
-----------------------------------------------------------------------------
(* btrecord's steps.                                                       *)

LEMMA InitRecInv == RecInit => RecInv
<1> SUFFICES ASSUME RecInit PROVE RecInv
  OBVIOUS
<1> USE DEF RecInit
<1>1. NoBunch \in BunchRecords /\ NoBunch.pkts = <<>>
  BY DEF NoBunch, BunchRecords
<1>2. RecTypes
  BY <1>1, RecConstants DEF RecTypes, Cpus, NoHdr
<1>3. StreamInv
  BY <1>1 DEF StreamInv, FirstTime, LastTime
<1>4. ASSUME NEW c \in Cpus PROVE RecordedInv(c)
  <2>1. Collected(c) = <<>> /\ queued[c] = <<>>
    BY <1>1 DEF Collected, Flushed
  <2>2. ChainOf(<<>>, <<>>)
    BY DEF ChainOf
  <2> QED BY <2>1, <2>2 DEF RecordedInv
<1>5. cpu # NFiles
  BY RecConstants
<1>6. \A c \in Cpus : Unread(c)
  BY DEF Unread
<1> QED BY <1>2, <1>3, <1>4, <1>5, <1>6 DEF RecInv

\* The state between two steps of btrecord.
LEMMA RecordingState ==
    ASSUME RecInv, Recording
    PROVE  /\ RecTypes /\ StreamInv /\ \A c \in Cpus : RecordedInv(c)
           /\ cpu \in Cpus /\ cpu # NFiles /\ ended = "no"
           /\ files = {} /\ \A c \in Cpus : Unread(c)
<1>1. cpu \in Cpus /\ cpu # NFiles /\ ended = "no"
  <2>1. cpu \in 0..NFiles /\ cpu < NFiles /\ ended = "no"
    BY DEF RecInv, Recording, RecTypes
  <2> QED BY <2>1, RecConstants DEF Cpus
<1> QED BY <1>1 DEF RecInv

\* next_io may pass over records, and find the end.
LEMMA ReadingInv ==
    ASSUME RecInv,
           UNCHANGED <<ended, cpu, genesis, cur, stream, ofile, queued, replay>>
    PROVE  RecInv'
<1>1. RecTypes'
  BY DEF RecInv, RecTypes, stream, replay
<1>2. (ended # "no" => BunchesAsLargeAsAllowed)'
  BY DEF RecInv, BunchesAsLargeAsAllowed
<1>3. StreamInv => StreamInv'
  BY DEF StreamInv, stream
<1>4. ASSUME NEW c \in Cpus, RecordedInv(c) PROVE RecordedInv(c)'
  <2>1. Collected(c)' = Collected(c)
    BY DEF Collected, Flushed
  <2> QED BY <1>4, <2>1 DEF RecordedInv
<1>5. ASSUME NEW c \in Cpus PROVE /\ Unread(c) => Unread(c)'
                                  /\ ReplayInv(c) => ReplayInv(c)'
  <2>1. Unread(c) => Unread(c)'
    BY DEF Unread, replay
  <2>2. AtInv(c) => AtInv(c)'
    BY DEF AtInv, replay
  <2>3. OnTime(c) => OnTime(c)'
    BY DEF OnTime, replay
  <2>4. InOrder(c) => InOrder(c)'
    BY DEF InOrder, replay
  <2> QED BY <2>1, <2>2, <2>3, <2>4 DEF ReplayInv, replay
<1> QED BY <1>1, <1>2, <1>3, <1>4, <1>5 DEF RecInv, replay

\* The bunches of every file are within their limits as long as they form a
\* chain with the one in hand.
LEMMA CollectedLarge ==
    ASSUME RecTypes, NEW c \in Cpus, RecordedInv(c)
    PROVE  Large(ofile[c].bunches, queued[c])
<1>1. /\ ofile[c].bunches \in Seq(BunchRecords)
      /\ cur \in BunchRecords
  BY DEF RecTypes
<1>2. ChainOf(Collected(c), queued[c])
  BY DEF RecordedInv
<1>3. \/ Collected(c) = ofile[c].bunches
      \/ Collected(c) = Append(ofile[c].bunches, cur)
  <2>1. ofile[c] \in [hdr : [genesis : Nat, nbunches : Nat,
                             total_pkts : Nat],
                      bunches : Seq(BunchRecords)]
    BY DEF RecTypes
  <2> QED BY <2>1 DEF Collected, Flushed
<1> DEFINE bs == ofile[c].bunches
           cs == Collected(c)
<1>4. Len(bs) <= Len(cs) /\ \A k \in 1..Len(bs) : bs[k] = cs[k]
  BY <1>1, <1>3
<1> HIDE DEF bs, cs
<1>5. Large(bs, queued[c])
  <2>1. bs \in Seq(BunchRecords) /\ ChainOf(cs, queued[c])
    BY <1>1, <1>2 DEF bs, cs
  <2> QED BY <1>4, <2>1, FirstBunchesLarge
<1> QED BY <1>5 DEF bs

LEMMA TimeInversionInv ==
    ASSUME RecInv, NEW t \in 1..MaxTime, TimeInversion(t)
    PROVE  RecInv'
<1>1. /\ UNCHANGED <<cpu, genesis, cur, stream, ofile, queued, replay>>
      /\ ended' = "fatal" /\ Recording
  BY DEF TimeInversion, recvars
<1>2. BunchesAsLargeAsAllowed
  BY <1>1, RecordingState, CollectedLarge, LargeMeans
<1>3. BunchesAsLargeAsAllowed'
  BY <1>1, <1>2 DEF BunchesAsLargeAsAllowed
<1>4. RecTypes'
  BY <1>1, RecordingState DEF RecTypes, stream, replay
<1>5. files' = {} /\ \A c \in Cpus : Unread(c)'
  BY <1>1, RecordingState DEF Unread, replay
<1> QED BY <1>1, <1>3, <1>4, <1>5, RecordingState DEF RecInv

\* The last packet of the current bunch is the last record.
LEMMA LastTimeOfChain ==
    ASSUME RecTypes, StreamInv, cpu \in Cpus, RecordedInv(cpu), cur.pkts # <<>>
    PROVE  /\ last_time \in Nat \ {0} /\ cur.time_stamp <= last_time
           /\ Len(cur.pkts) <= max_pkts_per_bunch
<1> DEFINE q == queued[cpu]
           F == ofile[cpu].bunches
           cs == Append(F, cur)
<1>1. /\ q \in Seq(Queues) /\ F \in Seq(BunchRecords) /\ cur \in BunchRecords
  BY DEF RecTypes
<1>2. ChainOf(cs, q)
  <2>1. ofile[cpu] \in [hdr : [genesis : Nat, nbunches : Nat,
                               total_pkts : Nat],
                        bunches : Seq(BunchRecords)]
    BY DEF RecTypes
  <2>2. Flushed(ofile[cpu]).bunches = cs
    BY <2>1 DEF Flushed
  <2> QED BY <2>2 DEF RecordedInv, Collected
<1>3. Len(cs) = Len(F) + 1 /\ Len(F) \in Nat /\ cs[Len(F) + 1] = cur
  BY <1>1
<1>4. cs # <<>>
  <2> HIDE DEF cs
  <2> QED BY <1>3, EmptySeq
<1> HIDE DEF cs
<1>5. BunchOf(cur, q) /\ FirstId(cur) + Len(cur.pkts) = Len(q) + 1
  <2>1. Len(cs) \in 1..Len(cs)
    BY <1>3
  <2> QED BY <1>2, <1>3, <1>4, <2>1 DEF ChainOf
<1>6. /\ Len(cur.pkts) \in 1..max_pkts_per_bunch
      /\ FirstId(cur) \in 1..Len(q) /\ Len(q) \in Nat
      /\ FirstId(cur) + Len(cur.pkts) - 1 = Len(q)
  <2>1. Len(cur.pkts) \in 1..max_pkts_per_bunch /\ FirstId(cur) \in 1..Len(q)
    BY <1>5 DEF BunchOf
  <2>2. Len(q) \in Nat
    BY <1>1
  <2> HIDE DEF q
  <2> QED BY <1>5, <2>1, <2>2, RecConstants
<1>7. q[Len(q)].time - cur.time_stamp \in 0..max_bunch_tm
  <2>1. Len(cur.pkts) \in 1..Len(cur.pkts)
    BY <1>6
  <2>2. q[FirstId(cur) + Len(cur.pkts) - 1].time - cur.time_stamp
           \in 0..max_bunch_tm
    BY <1>5, <2>1 DEF BunchOf
  <2> QED BY <2>2, <1>6
<1>8. Len(q) \in 1..Len(q) /\ q # <<>>
  BY <1>1, <1>6, EmptySeq
<1>9. q[Len(q)] \in Queues
  BY <1>1, <1>8
<1>10. q[Len(q)].time \in Nat \ {0} /\ cur.time_stamp \in Nat
  BY <1>1, <1>9, RecConstants DEF Queues, BunchRecords
<1>11. last_time = q[Len(q)].time
  BY <1>8 DEF StreamInv, LastTime
<1>12. /\ last_time \in Nat \ {0}
       /\ last_time - cur.time_stamp \in 0..max_bunch_tm
  BY <1>7, <1>10, <1>11
<1>13. cur.time_stamp <= last_time
  BY <1>10, <1>12, RecConstants
<1>14. Len(cur.pkts) <= max_pkts_per_bunch
  BY <1>6, RecConstants
<1> QED BY <1>12, <1>13, <1>14

\* A Q record goes on the chain: to the current bunch, or to a new one.
LEMMA StreamAddIoChain ==
    ASSUME RecInv, NEW t \in 1..MaxTime, NEW rw \in Directions,
           StreamAddIo(t, rw), ended' = "no"
    PROVE  /\ ChainOf(Collected(cpu)', queued[cpu]')
           /\ cur' \in BunchRecords /\ cur'.pkts # <<>>
           /\ start_time' = cur'.time_stamp
<1> DEFINE q == queued[cpu]
           F == ofile[cpu]
           r == [time |-> t, rw |-> rw]
           fresh == cur.pkts = <<>> \/ BunchDone(t)
<1>1. /\ RecTypes /\ StreamInv /\ RecordedInv(cpu) /\ cpu \in Cpus
      /\ cpu' = cpu /\ Recording
  BY RecordingState DEF StreamAddIo
<1>2. /\ q \in Seq(Queues) /\ F.bunches \in Seq(BunchRecords)
      /\ cur \in BunchRecords
      /\ F \in [hdr : [genesis : Nat, nbunches : Nat, total_pkts : Nat],
                bunches : Seq(BunchRecords)]
      /\ cur.pkts \in Seq(Packets) /\ cur.time_stamp \in Nat
  BY <1>1 DEF RecTypes, BunchRecords
<1>3. r \in Queues /\ r.time = t /\ r.rw = rw /\ t \in Nat
  BY RecConstants DEF Queues
<1>4. last_time = 0 \/ last_time <= t
  BY DEF StreamAddIo, Recording
<1>5. /\ cur' = WithPacket(IF fresh THEN [NoBunch EXCEPT !.time_stamp = t]
                                   ELSE cur, rw)
      /\ queued' = [queued EXCEPT ![cpu] = Append(q, r)]
      /\ start_time' = IF fresh THEN t ELSE start_time
      /\ IF fresh THEN ofile' = [ofile EXCEPT ![cpu] = Flushed(F)]
                  ELSE ofile' = ofile
  BY <1>4 DEF StreamAddIo
<1>6. queued'[cpu] = Append(q, r) /\ queued[cpu]' = Append(q, r)
  BY <1>1, <1>5 DEF RecTypes
<1>7. ChainOf(Flushed(F).bunches, q)
  BY <1>1 DEF RecordedInv, Collected
<1>8. /\ cur.pkts = <<>> => Flushed(F).bunches = F.bunches
      /\ cur.pkts # <<>> => Flushed(F).bunches = Append(F.bunches, cur)
  BY <1>2 DEF Flushed
<1> HIDE DEF r
<1>9. CASE fresh
  <2>1. cur' = NewBunch(q, r)
    <3>1. cur' = WithPacket([NoBunch EXCEPT !.time_stamp = t], rw)
      BY <1>5, <1>9
    <3>2. [NoBunch EXCEPT !.time_stamp = t] = [time_stamp |-> t, pkts |-> <<>>]
      BY DEF NoBunch
    <3>3. cur' = [time_stamp |-> t,
                  pkts |-> Append(<<>>, [id |-> Len(q) + 1, rw |-> rw])]
      BY <3>1, <3>2 DEF WithPacket
    <3>4. Append(<<>>, [id |-> Len(q) + 1, rw |-> rw])
             = <<[id |-> Len(q) + 1, rw |-> rw]>>
      OBVIOUS
    <3> QED BY <3>3, <3>4, <1>3 DEF NewBunch
  <2>2. ofile'[cpu] = Flushed(F)
    BY <1>1, <1>5, <1>9 DEF RecTypes
  <2>3. cur' \in BunchRecords /\ Len(cur'.pkts) = 1 /\ cur'.time_stamp = t
    BY <1>2, <1>3, <2>1, NewBunchOf DEF BunchOf, NewBunch
  <2>4. cur'.pkts # <<>>
    BY <2>3, EmptySeq
  <2>5. Flushed(F).bunches # <<>> =>
           LET bs == Flushed(F).bunches
           IN  \/ Len(bs[Len(bs)].pkts) = max_pkts_per_bunch
               \/ r.time > bs[Len(bs)].time_stamp + max_bunch_tm
    <3>1. CASE cur.pkts = <<>>
      <4>1. q = <<>>
        BY <3>1, <1>1 DEF StreamInv
      <4>2. Flushed(F).bunches = <<>>
        BY <4>1, <1>7, ChainOfNothing
      <4> QED BY <4>2
    <3>2. CASE cur.pkts # <<>>
      <4>1. start_time = cur.time_stamp
        BY <3>2, <1>1 DEF StreamInv
      <4>2. /\ last_time \in Nat \ {0} /\ cur.time_stamp <= last_time
            /\ Len(cur.pkts) <= max_pkts_per_bunch
        BY <3>2, <1>1, LastTimeOfChain
      <4>3. \/ Len(cur.pkts) >= max_pkts_per_bunch
            \/ t - start_time > max_bunch_tm
        BY <3>2, <1>2, <1>3, <1>4, <1>9, <4>1, <4>2 DEF BunchDone
      <4>4. \/ Len(cur.pkts) = max_pkts_per_bunch
            \/ t > cur.time_stamp + max_bunch_tm
        BY <1>2, <1>3, <4>1, <4>2, <4>3, RecConstants
      <4>5. /\ Len(F.bunches) \in Nat
            /\ Len(Append(F.bunches, cur)) = Len(F.bunches) + 1
            /\ Append(F.bunches, cur)[Len(F.bunches) + 1] = cur
        BY <1>2
      <4> QED BY <3>2, <4>4, <4>5, <1>3, <1>8
    <3> QED BY <3>1, <3>2
  <2>6. ChainOf(Append(Flushed(F).bunches, NewBunch(q, r)), Append(q, r))
    BY <1>3, <1>7, <2>5, AppendBunch
  <2>7. Collected(cpu)' = Append(Flushed(F).bunches, cur')
    <3>1. Flushed(F) \in [hdr : [genesis : Nat, nbunches : Nat,
                                 total_pkts : Nat],
                          bunches : Seq(BunchRecords)]
      <4>1. Append(F.bunches, cur) \in Seq(BunchRecords)
        BY <1>2
      <4> QED BY <1>2, <4>1 DEF Flushed
    <3> QED BY <3>1, <1>1, <2>2, <2>4 DEF Collected, Flushed
  <2>8. start_time' = t
    BY <1>5, <1>9
  <2> QED BY <1>6, <2>1, <2>3, <2>4, <2>6, <2>7, <2>8
<1>10. CASE ~fresh
  <2>1. cur.pkts # <<>> /\ ~BunchDone(t)
    BY <1>10
  <2>2. /\ Len(cur.pkts) < max_pkts_per_bunch
        /\ t - cur.time_stamp \in 0..max_bunch_tm
    <3>1. start_time = cur.time_stamp
      BY <2>1, <1>1 DEF StreamInv
    <3>2. Len(cur.pkts) \in Nat
      BY <1>2
    <3> QED BY <2>1, <3>1, <3>2, <1>2, <1>3, RecConstants DEF BunchDone
  <2>3. cur' = Extended(cur, q, r)
    BY <1>3, <1>5, <1>10 DEF WithPacket, Extended
  <2>4. ChainOf(Append(F.bunches, cur), q)
    BY <1>7, <1>8, <2>1
  <2>5. ChainOf(Append(F.bunches, Extended(cur, q, r)), Append(q, r))
    BY <1>2, <1>3, <2>2, <2>4, ExtendBunch
  <2>6. /\ cur' = [time_stamp |-> cur.time_stamp,
                   pkts |-> Append(cur.pkts, [id |-> Len(q) + 1, rw |-> rw])]
    <3>1. cur' = [cur EXCEPT !.pkts =
                     Append(cur.pkts, [id |-> Len(q) + 1, rw |-> rw])]
      BY <1>3, <2>3 DEF Extended
    <3>2. cur \in [time_stamp : Nat, pkts : Seq(Packets)]
      BY <1>2 DEF BunchRecords
    <3> QED BY <3>1, <3>2
  <2>7. [id |-> Len(q) + 1, rw |-> rw] \in Packets
    BY <1>2, RecConstants DEF Packets
  <2>8. /\ cur' \in BunchRecords /\ cur'.pkts # <<>>
        /\ cur'.time_stamp = cur.time_stamp
    <3>1. /\ Append(cur.pkts, [id |-> Len(q) + 1, rw |-> rw]) \in Seq(Packets)
          /\ Append(cur.pkts, [id |-> Len(q) + 1, rw |-> rw]) # <<>>
      <4>1. \A p \in Packets : /\ Append(cur.pkts, p) \in Seq(Packets)
                               /\ Append(cur.pkts, p) # <<>>
        BY <1>2, AppendProperties
      <4> QED BY <2>7, <4>1, Zenon
    <3> QED BY <3>1, <2>6, <1>2 DEF BunchRecords
  <2>9. Collected(cpu)' = Append(F.bunches, cur')
    <3>1. ofile' = ofile
      BY <1>5, <1>10
    <3> QED BY <3>1, <1>1, <1>2, <2>8 DEF Collected, Flushed
  <2>10. start_time' = cur'.time_stamp
    BY <1>1, <1>5, <1>10, <2>1, <2>8 DEF StreamInv
  <2> QED BY <1>6, <2>3, <2>5, <2>8, <2>9, <2>10
<1> QED BY <1>9, <1>10

\* What stream_add_io leaves of the types, whether or not its assert holds.
LEMMA StreamAddIoTypes ==
    ASSUME RecInv, NEW t \in 1..MaxTime, NEW rw \in Directions,
           StreamAddIo(t, rw)
    PROVE  RecTypes'
<1>1. /\ RecTypes /\ cpu \in Cpus
  BY RecordingState DEF StreamAddIo
<1>2. t \in Nat /\ rw \in {"R", "W"}
  BY RecConstants
<1>3. /\ UNCHANGED <<cpu, reading, replay>>
      /\ genesis' = IF genesis = 0 THEN t ELSE genesis
      /\ start_time' \in {t, start_time}
      /\ ofile' = ofile \/ ofile' = [ofile EXCEPT ![cpu] = Flushed(ofile[cpu])]
      /\ bunches' \in {bunches, bunches + 1}
      /\ pkts' \in {pkts, pkts + Len(cur.pkts)}
  BY DEF StreamAddIo
<1>4. Len(cur.pkts) \in Nat
  BY <1>1 DEF RecTypes, BunchRecords
<1>5. /\ genesis' \in Nat /\ start_time' \in Nat /\ bunches' \in Nat
      /\ pkts' \in Nat
  <2>1. /\ genesis \in Nat /\ start_time \in Nat /\ bunches \in Nat
        /\ pkts \in Nat
    BY <1>1 DEF RecTypes
  <2>2. genesis' \in Nat /\ start_time' \in Nat
    BY <2>1, <1>2, <1>3
  <2>3. bunches' \in Nat
    BY <2>1, <1>3
  <2>4. pkts' \in Nat
    <3> DEFINE m == Len(cur.pkts)
    <3>1. pkts' \in {pkts, pkts + m} /\ m \in Nat
      BY <1>3, <1>4
    <3> HIDE DEF m
    <3> QED BY <2>1, <3>1
  <2> QED BY <2>2, <2>3, <2>4
<1>6. ofile' \in [Cpus -> [hdr : [genesis : Nat, nbunches : Nat,
                                  total_pkts : Nat],
                           bunches : Seq(BunchRecords)]]
  <2>1. /\ ofile[cpu] \in [hdr : [genesis : Nat, nbunches : Nat,
                                  total_pkts : Nat],
                           bunches : Seq(BunchRecords)]
        /\ Append(ofile[cpu].bunches, cur) \in Seq(BunchRecords)
    BY <1>1 DEF RecTypes
  <2>2. Flushed(ofile[cpu]) \in [hdr : [genesis : Nat, nbunches : Nat,
                                        total_pkts : Nat],
                                 bunches : Seq(BunchRecords)]
    BY <2>1 DEF Flushed
  <2> QED BY <1>1, <1>3, <2>2 DEF RecTypes
<1>7. /\ ended' \in {"no", "fatal", "assert"} /\ last_time' \in Nat
      /\ queued' \in [Cpus -> Seq(Queues)]
      /\ cur' \in BunchRecords
  <2>1. CASE ended' = "no"
    <3>1. /\ last_time' = t
          /\ queued' = [queued EXCEPT ![cpu] =
                           Append(@, [time |-> t, rw |-> rw])]
      BY <2>1 DEF StreamAddIo
    <3>2. [time |-> t, rw |-> rw] \in Queues
      BY <1>2 DEF Queues
    <3>3. queued' \in [Cpus -> Seq(Queues)]
      BY <1>1, <3>1, <3>2 DEF RecTypes
    <3>4. cur' \in BunchRecords
      BY <2>1, StreamAddIoChain
    <3> QED BY <1>2, <2>1, <3>1, <3>3, <3>4
  <2>2. CASE ended' # "no"
    <3>1. ended' = "assert" /\ UNCHANGED <<cur, last_time, queued>>
      BY <2>2 DEF StreamAddIo, Recording
    <3> QED BY <1>1, <3>1 DEF RecTypes
  <2> QED BY <2>1, <2>2
<1> QED BY <1>1, <1>3, <1>5, <1>6, <1>7 DEF RecTypes, replay

LEMMA StreamAddIoInv ==
    ASSUME RecInv, NEW t \in 1..MaxTime, NEW rw \in Directions,
           StreamAddIo(t, rw)
    PROVE  RecInv'
<1> DEFINE q == queued[cpu]
           r == [time |-> t, rw |-> rw]
<1>1. /\ RecTypes /\ StreamInv /\ cpu \in Cpus /\ cpu # NFiles
      /\ \A c \in Cpus : RecordedInv(c)
      /\ files = {} /\ \A c \in Cpus : Unread(c)
  BY RecordingState DEF StreamAddIo
<1>2. RecTypes'
  BY StreamAddIoTypes
<1>3. /\ cpu' = cpu /\ UNCHANGED replay
      /\ \A c \in Cpus : c # cpu => ofile'[c] = ofile[c]
  BY <1>1 DEF StreamAddIo, RecTypes
<1>4. files' = {} /\ \A c \in Cpus : Unread(c)'
  BY <1>1, <1>3 DEF Unread, replay
<1>5. CASE ended' = "no"
  <2>1. /\ queued' = [queued EXCEPT ![cpu] = Append(q, r)]
        /\ last_time' = t
        /\ genesis' = IF genesis = 0 THEN t ELSE genesis
        /\ t >= genesis
    BY <1>5 DEF StreamAddIo
  <2>2. r \in Queues /\ r.time = t /\ t \in Nat \ {0}
    BY RecConstants DEF Queues
  <2>3. /\ q \in Seq(Queues) /\ Len(q) \in Nat /\ queued'[cpu] = Append(q, r)
        /\ \A c \in Cpus : c # cpu => queued'[c] = queued[c]
    BY <1>1, <2>1 DEF RecTypes
  <2> HIDE DEF r
  <2>4. /\ Append(q, r) \in Seq(Queues) /\ Len(Append(q, r)) = Len(q) + 1
        /\ Append(q, r)[Len(q) + 1] = r
        /\ \A k \in 1..Len(q) : Append(q, r)[k] = q[k]
    BY <2>2, <2>3
  <2>5. /\ ChainOf(Collected(cpu)', queued'[cpu])
        /\ cur'.pkts # <<>> /\ start_time' = cur'.time_stamp
    BY <1>3, <1>5, <2>3, StreamAddIoChain
  <2>6. Append(q, r) # <<>> /\ (q = <<>> <=> Len(q) = 0)
    BY <2>3, <2>4, EmptySeq
  <2>7. q # <<>> => q[1].time \in Nat \ {0} /\ genesis = q[1].time
    <3> SUFFICES ASSUME q # <<>>
                 PROVE  q[1].time \in Nat \ {0} /\ genesis = q[1].time
      OBVIOUS
    <3>1. q[1] \in Queues
      BY <2>3, <2>6
    <3> QED BY <3>1, <1>1, RecConstants DEF Queues, StreamInv, FirstTime
  <2>8. genesis' = Append(q, r)[1].time
    <3>1. CASE q = <<>>
      <4>1. genesis = 0 /\ Append(q, r)[1] = r
        BY <3>1, <1>1, <2>4, <2>6 DEF StreamInv, FirstTime
      <4> QED BY <4>1, <2>1, <2>2
    <3>2. CASE q # <<>>
      <4>1. Append(q, r)[1] = q[1]
        BY <3>2, <2>3, <2>4, <2>6
      <4> QED BY <3>2, <4>1, <2>1, <2>7
    <3> QED BY <3>1, <3>2
  <2>9. StreamInv'
    <3>1. genesis' = FirstTime(queued[cpu])'
      BY <1>3, <2>3, <2>6, <2>8 DEF FirstTime
    <3>2. last_time' = LastTime(queued[cpu])'
      BY <1>3, <2>1, <2>2, <2>3, <2>4, <2>6 DEF LastTime
    <3> QED BY <1>1, <1>3, <2>5, <3>1, <3>2 DEF StreamInv
  <2>10. ASSUME NEW c \in Cpus PROVE RecordedInv(c)'
    <3>1. CASE c = cpu
      <4>1. ASSUME NEW k \in 1..Len(Append(q, r))
            PROVE  Append(q, r)[k].time >= Append(q, r)[1].time
        <5>1. CASE k \in 1..Len(q)
          <6>1. /\ 1 \in 1..Len(q) /\ Append(q, r)[1] = q[1]
                /\ Append(q, r)[k] = q[k]
            BY <5>1, <2>3, <2>4
          <6>2. q[k].time >= q[1].time
            BY <1>1, <5>1 DEF RecordedInv
          <6> QED BY <6>1, <6>2
        <5>2. CASE k = Len(q) + 1
          <6>1. t >= genesis'
            BY <2>1, <2>2
          <6> QED BY <5>2, <6>1, <2>2, <2>4, <2>8
        <5> QED BY <5>1, <5>2, <2>3, <2>4
      <4> QED
        BY <3>1, <4>1, <1>3, <2>3, <2>5 DEF RecordedInv, Cpus
    <3>2. CASE c # cpu
      <4>1. Collected(c)' = Collected(c)
        BY <3>2, <1>3 DEF Collected
      <4> QED BY <1>1, <1>3, <2>3, <3>2, <4>1 DEF RecordedInv
    <3> QED BY <3>1, <3>2
  <2> QED
    BY <1>1, <1>2, <1>3, <1>4, <1>5, <2>9, <2>10 DEF RecInv
<1>6. CASE ended' # "no"
  <2>1. UNCHANGED <<cur, last_time, queued>>
    BY <1>6 DEF StreamAddIo, Recording
  <2>2. /\ ofile'[cpu] = ofile[cpu] \/ ofile'[cpu] = Flushed(ofile[cpu])
    BY <1>1 DEF StreamAddIo, RecTypes
  <2>3. ASSUME NEW c \in Cpus
        PROVE  Large(ofile'[c].bunches, queued'[c])
    <3>1. CASE ofile'[c] = ofile[c]
      BY <1>1, <2>1, <3>1, CollectedLarge
    <3>2. CASE c = cpu /\ ofile'[c] = Flushed(ofile[c])
      <4>1. ChainOf(Collected(c), queued[c])
        BY <1>1 DEF RecordedInv
      <4>2. Collected(c) = ofile'[c].bunches
        BY <3>2 DEF Collected
      <4>3. Large(Collected(c), queued[c])
        <5> DEFINE cs == Collected(c)
        <5>1. cs \in Seq(BunchRecords) /\ Len(cs) \in Nat
          BY <4>1 DEF ChainOf
        <5> HIDE DEF cs
        <5>2. ChainOf(cs, queued[c])
          BY <4>1 DEF cs
        <5>3. Large(cs, queued[c])
          BY <5>1, <5>2, FirstBunchesLarge
        <5> QED BY <5>3 DEF cs
      <4> QED BY <2>1, <4>2, <4>3
    <3> QED BY <3>1, <3>2, <1>3, <2>2
  <2>4. BunchesAsLargeAsAllowed'
    BY <2>3 DEF BunchesAsLargeAsAllowed, Large
  <2> QED BY <1>1, <1>2, <1>3, <1>4, <1>6, <2>4 DEF RecInv
<1> QED BY <1>5, <1>6

LEMMA StreamCloseInv == RecInv /\ StreamClose => RecInv'
<1> SUFFICES ASSUME RecInv, StreamClose PROVE RecInv'
  OBVIOUS
<1> DEFINE F == ofile[cpu]
           H == [genesis |-> genesis, nbunches |-> bunches,
                 total_pkts |-> pkts]
           FileTypes == [hdr : [genesis : Nat, nbunches : Nat,
                                total_pkts : Nat],
                         bunches : Seq(BunchRecords)]
<1>1. /\ RecTypes /\ StreamInv /\ cpu \in Cpus /\ cpu # NFiles
      /\ \A c \in Cpus : RecordedInv(c) /\ Unread(c)
      /\ files = {} /\ ended = "no"
  BY RecordingState DEF StreamClose
<1>2. /\ cpu' = cpu + 1 /\ genesis' = 0 /\ cur' = NoBunch
      /\ start_time' = 0 /\ last_time' = 0 /\ bunches' = 0 /\ pkts' = 0
      /\ ended' = "no" /\ UNCHANGED <<queued, replay>>
      /\ ofile' = [ofile EXCEPT ![cpu] = [Flushed(F) EXCEPT !.hdr = H]]
  BY <1>1 DEF StreamClose
<1>3. NoBunch \in BunchRecords /\ NoBunch.pkts = <<>>
  BY DEF NoBunch, BunchRecords
<1>4. Flushed(F) \in FileTypes
  <2>1. F \in FileTypes /\ Append(F.bunches, cur) \in Seq(BunchRecords)
    BY <1>1 DEF RecTypes
  <2> QED BY <2>1 DEF Flushed
<1>5. H \in [genesis : Nat, nbunches : Nat, total_pkts : Nat]
  BY <1>1 DEF RecTypes
<1>6. /\ ofile'[cpu] \in FileTypes
      /\ ofile'[cpu].bunches = Flushed(F).bunches
      /\ ofile'[cpu].hdr.genesis = genesis
      /\ \A c \in Cpus : c # cpu => ofile'[c] = ofile[c]
      /\ ofile' \in [Cpus -> FileTypes]
  <2>1. /\ ofile'[cpu] = [Flushed(F) EXCEPT !.hdr = H]
        /\ \A c \in Cpus : c # cpu => ofile'[c] = ofile[c]
        /\ ofile \in [Cpus -> FileTypes]
    BY <1>1, <1>2 DEF RecTypes
  <2> HIDE DEF F, H
  <2>2. [Flushed(F) EXCEPT !.hdr = H] = [hdr |-> H,
                                         bunches |-> Flushed(F).bunches]
    BY <1>4
  <2>3. ofile'[cpu] \in FileTypes /\ ofile'[cpu].hdr = H
        /\ ofile'[cpu].bunches = Flushed(F).bunches
    BY <1>4, <1>5, <2>1, <2>2
  <2>4. ofile' \in [Cpus -> FileTypes]
    BY <1>2, <2>1, <2>3
  <2>5. H.genesis = genesis
    BY DEF H
  <2> QED BY <2>1, <2>3, <2>4, <2>5
<1>7. NFiles \in Nat /\ cpu \in 0..NFiles - 1 /\ cpu' \in 0..NFiles
  BY <1>1, <1>2, RecConstants DEF Cpus
<1>8. RecTypes'
  BY <1>1, <1>2, <1>3, <1>6, <1>7 DEF RecTypes, replay
<1>9. StreamInv'
  <2>1. cpu' \in Cpus => queued[cpu'] = <<>>
    <3>1. cpu' > cpu
      BY <1>2, <1>7
    <3> QED BY <1>1, <3>1 DEF RecordedInv
  <2> QED BY <1>2, <1>3, <2>1 DEF StreamInv, FirstTime, LastTime
<1>10. ASSUME NEW c \in Cpus PROVE RecordedInv(c)'
  <2>1. Collected(c)' = ofile'[c].bunches
    BY <1>2, <1>3 DEF Collected, Flushed
  <2>2. ofile'[c].bunches = Collected(c)
    BY <1>6 DEF Collected
  <2>3. ASSUME c < cpu', queued[c] # <<>>
        PROVE  ofile'[c].hdr.genesis = queued[c][1].time
    <3>1. CASE c = cpu
      BY <3>1, <2>3, <1>1, <1>6 DEF StreamInv, FirstTime
    <3>2. CASE c # cpu
      <4>1. c < cpu
        BY <3>2, <2>3, <1>2, <1>7 DEF Cpus
      <4> QED BY <3>2, <4>1, <2>3, <1>1, <1>6 DEF RecordedInv
    <3> QED BY <3>1, <3>2
  <2>4. c > cpu' => c > cpu
    BY <1>2, <1>7 DEF Cpus
  <2> QED BY <1>1, <1>2, <2>1, <2>2, <2>3, <2>4 DEF RecordedInv
<1>11. files' = {} /\ \A c \in Cpus : Unread(c)'
  BY <1>1, <1>2 DEF Unread, replay
<1>12. ASSUME NEW c \in Cpus, cpu' = NFiles PROVE ReplayInv(c)'
  <2>1. /\ at_bunch'[c] = 1 /\ at_pkt'[c] = 0 /\ issued'[c] = <<>>
        /\ files' = {}
    BY <1>11 DEF Unread
  <2>2. ASSUME 1 <= Len(ofile'[c].bunches)
        PROVE  LET b == ofile'[c].bunches[1]
               IN  Len(b.pkts) > 0 /\ FirstId(b) = 1
    <3> DEFINE cs == ofile'[c].bunches
    <3>1. ChainOf(cs, queued'[c])
      <4>1. c # cpu'
        BY <1>7, <1>12 DEF Cpus
      <4>2. Collected(c)' = cs
        BY <4>1 DEF Collected
      <4> QED BY <1>10, <4>2 DEF RecordedInv
    <3>2. cs # <<>> /\ 1 \in 1..Len(cs)
      <4>1. cs \in Seq(BunchRecords)
        BY <3>1 DEF ChainOf
      <4> HIDE DEF cs
      <4>2. 1 <= Len(cs)
        BY <2>2 DEF cs
      <4> QED BY <4>1, <4>2, EmptySeq
    <3> HIDE DEF cs
    <3>3. BunchOf(cs[1], queued'[c]) /\ FirstId(cs[1]) = 1
      BY <3>1, <3>2 DEF ChainOf
    <3>4. Len(cs[1].pkts) > 0
      BY <3>3, RecConstants DEF BunchOf
    <3> QED BY <3>3, <3>4 DEF cs
  <2>3. AtInv(c)'
    BY <2>1, <2>2 DEF AtInv
  <2>4. OnTime(c)' /\ InOrder(c)'
    BY <2>1 DEF OnTime, InOrder
  <2> QED BY <2>1, <2>3, <2>4 DEF ReplayInv
<1> QED
  BY <1>2, <1>8, <1>9, <1>10, <1>11, <1>12 DEF RecInv
-----------------------------------------------------------------------------
(* btreplay's steps.                                                       *)

\* The state between two steps of btreplay.
LEMMA ReplayingState ==
    ASSUME RecInv, Replaying
    PROVE  /\ RecTypes /\ StreamInv /\ ended = "no" /\ cpu = NFiles
           /\ \A c \in Cpus : /\ RecordedInv(c) /\ ReplayInv(c)
                              /\ ChainOf(ofile[c].bunches, queued[c])
                              /\ c < cpu
<1>1. /\ RecTypes /\ StreamInv /\ ended = "no" /\ cpu = NFiles
      /\ \A c \in Cpus : RecordedInv(c) /\ ReplayInv(c)
  BY DEF RecInv, Replaying
<1>2. ASSUME NEW c \in Cpus PROVE c < cpu /\ c # cpu
  BY <1>1, RecConstants DEF Cpus
<1>3. ASSUME NEW c \in Cpus PROVE ChainOf(ofile[c].bunches, queued[c])
  BY <1>1, <1>2 DEF RecordedInv, Collected
<1> QED BY <1>1, <1>2, <1>3

\* btreplay leaves what was recorded alone.
LEMMA ReplayFrame ==
    ASSUME RecInv, Replaying, UNCHANGED <<ended, recvars>>,
           files' \subseteq Cpus, first' \in Nat, clock' \in Nat,
           at_bunch' \in [Cpus -> Nat \ {0}], at_pkt' \in [Cpus -> Nat],
           issued' \in [Cpus -> Seq([id : Nat, rw : {"R", "W"}, at : Nat])],
           \A c \in Cpus : ReplayInv(c)'
    PROVE  RecInv'
<1>1. /\ RecTypes /\ StreamInv /\ ended = "no" /\ cpu = NFiles
      /\ \A c \in Cpus : RecordedInv(c)
  BY ReplayingState
<1>2. RecTypes'
  BY <1>1 DEF RecTypes, recvars, stream
<1>3. StreamInv'
  BY <1>1 DEF StreamInv, recvars, stream
<1>4. ASSUME NEW c \in Cpus PROVE RecordedInv(c)'
  <2>1. Collected(c)' = Collected(c)
    BY DEF Collected, Flushed, recvars
  <2> QED BY <1>1, <2>1 DEF RecordedInv, recvars
<1>5. ended' = "no" /\ cpu' = NFiles
  BY <1>1 DEF recvars
<1> QED BY <1>2, <1>3, <1>4, <1>5 DEF RecInv

LEMMA FindInputFilesInv == RecInv /\ FindInputFiles => RecInv'
<1> SUFFICES ASSUME RecInv, FindInputFiles PROVE RecInv'
  OBVIOUS
<1>1. /\ RecTypes /\ \A c \in Cpus : ReplayInv(c)
      /\ Replaying
  BY ReplayingState DEF FindInputFiles
<1>2. /\ files = {} /\ files' = Kept
      /\ first' \in {ofile[c].hdr.genesis : c \in Kept}
      /\ \A c \in Kept : first' <= ofile[c].hdr.genesis
      /\ UNCHANGED <<ended, recvars, at_bunch, at_pkt, clock, issued>>
  BY DEF FindInputFiles
<1>3. Kept \subseteq Cpus
  BY DEF Kept
<1>4. first' \in Nat
  BY <1>1, <1>2, <1>3 DEF RecTypes
<1>5. ASSUME NEW c \in Cpus PROVE ReplayInv(c)'
  <2>1. issued'[c] = <<>>
    BY <1>1, <1>2 DEF ReplayInv
  <2>2. OnTime(c)' /\ InOrder(c)'
    BY <2>1 DEF OnTime, InOrder
  <2>3. AtInv(c)'
    BY <1>1, <1>2 DEF ReplayInv, AtInv, recvars
  <2> QED BY <1>2, <2>1, <2>2, <2>3 DEF ReplayInv, recvars
<1> QED BY <1>1, <1>2, <1>3, <1>4, <1>5, ReplayFrame DEF RecTypes

LEMMA TickInv == RecInv /\ Tick => RecInv'
<1> SUFFICES ASSUME RecInv, Tick PROVE RecInv'
  OBVIOUS
<1>1. /\ RecTypes /\ \A c \in Cpus : ReplayInv(c)
      /\ Replaying
  BY ReplayingState DEF Tick
<1>2. clock' = clock + 1
      /\ UNCHANGED <<ended, recvars, files, first, at_bunch, at_pkt, issued>>
  BY DEF Tick
<1>3. ASSUME NEW c \in Cpus PROVE ReplayInv(c)'
  <2>1. /\ AtInv(c) => AtInv(c)'
        /\ OnTime(c) => OnTime(c)'
        /\ InOrder(c) => InOrder(c)'
    BY <1>2 DEF AtInv, OnTime, InOrder, recvars
  <2> QED BY <1>1, <1>2, <2>1 DEF ReplayInv, recvars
<1> QED BY <1>1, <1>2, <1>3, ReplayFrame DEF RecTypes

\* A bunch that is submitted when the clock has reached its time is not early.
LEMMA ClockAndBunch ==
    ASSUME NEW now \in Nat, NEW off \in Nat, NEW a \in Nat \ {0},
           now >= off \div a
    PROVE  now * a + a > off
<1> DEFINE d == off \div a
<1>1. d \in Nat /\ off < (d + 1) * a
  OBVIOUS
<1> HIDE DEF d
<1>2. now >= d /\ (d + 1) * a = d * a + a
  BY <1>1 DEF d
<1>3. now * a >= d * a
  BY <1>1, <1>2
<1> QED BY <1>1, <1>2, <1>3

LEMMA SubmitPacketsInv ==
    ASSUME RecInv, NEW c \in Cpus, NEW n \in 1..naios, SubmitPackets(c, n)
    PROVE  RecInv'
<1> DEFINE bs == ofile[c].bunches
           q  == queued[c]
           b  == Bunch(c)
           j  == at_pkt[c]
           piece == [k \in 1..n |->
                        LET p == b.pkts[j + k]
                        IN  [id |-> p.id, rw |-> Direction(p.rw),
                             at |-> clock]]
           done == issued[c]
           L == Len(done)
           Issues == [id : Nat, rw : {"R", "W"}, at : Nat]
<1>1. /\ RecTypes /\ Replaying /\ cpu = NFiles
      /\ \A m \in Cpus : ReplayInv(m)
      /\ RecordedInv(c) /\ ChainOf(bs, q) /\ c < cpu
  BY ReplayingState DEF SubmitPackets
<1>2. /\ c \in files /\ at_bunch[c] \in 1..Len(bs)
      /\ j + n <= Len(b.pkts) /\ clock >= Oclock(b)
      /\ UNCHANGED <<ended, recvars, files, first, clock>>
      /\ issued' = [issued EXCEPT ![c] = done \o piece]
      /\ IF j + n = Len(b.pkts)
         THEN /\ at_bunch' = [at_bunch EXCEPT ![c] = @ + 1]
              /\ at_pkt' = [at_pkt EXCEPT ![c] = 0]
         ELSE /\ at_pkt' = [at_pkt EXCEPT ![c] = @ + n]
              /\ at_bunch' = at_bunch
  <2>1. at_bunch[c] \in Nat \ {0} /\ Len(bs) \in Nat
    BY <1>1 DEF RecTypes
  <2> QED BY <2>1 DEF SubmitPackets, HasBunch
<1>3. /\ n \in Nat \ {0} /\ j \in Nat /\ clock \in Nat /\ first \in Nat
      /\ done \in Seq(Issues) /\ L \in Nat /\ q \in Seq(Queues)
      /\ bs \in Seq(BunchRecords)
  BY <1>1, RecConstants DEF RecTypes
<1>4. /\ b = bs[at_bunch[c]] /\ BunchOf(b, q) /\ b \in Range(bs)
  <2>1. b = bs[at_bunch[c]]
    BY DEF Bunch
  <2>2. BunchOf(b, q)
    BY <1>1, <1>2, <2>1 DEF ChainOf
  <2>3. DOMAIN bs = 1..Len(bs)
    BY <1>3
  <2> QED BY <1>2, <2>1, <2>2, <2>3 DEF Range
<1>5. L = FirstId(b) + j - 1
  <2>1. AtInv(c) /\ at_bunch[c] <= Len(bs)
    BY <1>1, <1>2, <1>3 DEF ReplayInv
  <2>2. Len(issued[c]) = FirstId(bs[at_bunch[c]]) + at_pkt[c] - 1
    BY <2>1 DEF AtInv
  <2> QED BY <2>2, <1>4
<1>6. /\ FirstId(b) \in Nat \ {0} /\ Len(b.pkts) \in Nat /\ Len(q) \in Nat
      /\ b.pkts \in Seq(Packets) /\ b.time_stamp \in Nat
  <2> HIDE DEF b, q
  <2> QED BY <1>3, <1>4, BunchOfTypes
<1> HIDE DEF b
<1>7. ASSUME NEW k \in 1..n
      PROVE  /\ L + k \in 1..Len(q)
             /\ b.pkts[j + k].id = L + k
             /\ b.pkts[j + k].rw = q[L + k].rw
             /\ b.pkts[j + k].rw \in {"R", "W"}
             /\ b.pkts[j + k].id \in {p.id : p \in Range(b.pkts)}
  <2>1. j + k \in 1..Len(b.pkts)
    <3>1. /\ j \in Nat /\ n \in Nat \ {0} /\ Len(b.pkts) \in Nat
          /\ j + n <= Len(b.pkts)
      BY <1>2, <1>3, <1>6
    <3> QED BY <3>1
  <2>2. FirstId(b) + (j + k) - 1 = L + k
    BY <1>3, <1>5, <1>6
  <2>3. /\ FirstId(b) + (j + k) - 1 \in 1..Len(q)
        /\ b.pkts[j + k].id = FirstId(b) + (j + k) - 1
        /\ b.pkts[j + k].rw = q[FirstId(b) + (j + k) - 1].rw
    BY <1>4, <2>1 DEF BunchOf
  <2>4. b.pkts[j + k] \in Packets /\ b.pkts[j + k] \in Range(b.pkts)
    BY <1>6, <2>1 DEF Range
  <2> QED BY <2>2, <2>3, <2>4 DEF Packets
<1>8. ASSUME NEW k \in 1..n
      PROVE  /\ piece[k].id = L + k /\ piece[k].at = clock
             /\ piece[k].rw = IF write_enabled THEN q[L + k].rw ELSE "R"
             /\ piece[k] \in Issues
  <2>1. piece[k] = [id |-> b.pkts[j + k].id,
                    rw |-> Direction(b.pkts[j + k].rw), at |-> clock]
    OBVIOUS
  <2>2. Direction(b.pkts[j + k].rw)
           = IF write_enabled THEN q[L + k].rw ELSE "R"
    BY <1>7 DEF Direction
  <2>3. Direction(b.pkts[j + k].rw) \in {"R", "W"}
    BY <1>7 DEF Direction
  <2> HIDE DEF piece, L, j
  <2>4. L + k \in Nat
    BY <1>3
  <2> QED BY <2>1, <2>2, <2>3, <2>4, <1>3, <1>7
<1>9. piece \in Seq(Issues) /\ Len(piece) = n
  <2>1. piece \in [1..n -> Issues]
    <3>1. piece = [k \in 1..n |-> piece[k]]
      OBVIOUS
    <3> HIDE DEF piece
    <3> QED BY <3>1, <1>8
  <2> HIDE DEF piece, Issues
  <2>2. n \in Nat
    BY <1>3
  <2> QED BY <2>1, <2>2
<1> HIDE DEF piece, j, done, Issues
<1> DEFINE new == done \o piece
<1>10. /\ new \in Seq(Issues) /\ Len(new) = L + n
       /\ \A k \in 1..L : new[k] = done[k]
       /\ \A k \in 1..n : new[L + k] = piece[k]
  <2>1. /\ new \in Seq(Issues) /\ Len(new) = Len(done) + Len(piece)
        /\ \A k \in 1..Len(done) + Len(piece) :
              new[k] = IF k <= Len(done) THEN done[k]
                                         ELSE piece[k - Len(done)]
    BY <1>3, <1>9, ConcatProperties
  <2> HIDE DEF new
  <2>2. ASSUME NEW k \in 1..n PROVE new[L + k] = piece[k]
    <3>1. L + k \in 1..L + n /\ ~(L + k <= L) /\ (L + k) - L = k
      BY <1>3
    <3> QED BY <2>1, <3>1, <1>9
  <2> QED BY <2>1, <2>2, <1>3, <1>9
<1> HIDE DEF new
<1> HIDE DEF L
<1>11. /\ issued'[c] = new
       /\ \A m \in Cpus : m # c => /\ issued'[m] = issued[m]
                                   /\ at_bunch'[m] = at_bunch[m]
                                   /\ at_pkt'[m] = at_pkt[m]
  BY <1>1, <1>2 DEF RecTypes, new
<1>12. /\ issued' \in [Cpus -> Seq(Issues)]
       /\ at_bunch' \in [Cpus -> Nat \ {0}] /\ at_pkt' \in [Cpus -> Nat]
  <2>1. issued \in [Cpus -> Seq(Issues)]
    BY <1>1 DEF RecTypes, Issues
  <2>2. issued' \in [Cpus -> Seq(Issues)]
    BY <1>2, <1>10, <2>1 DEF new
  <2>3. at_bunch' \in [Cpus -> Nat \ {0}] /\ at_pkt' \in [Cpus -> Nat]
    <3>1. at_bunch \in [Cpus -> Nat \ {0}] /\ at_pkt \in [Cpus -> Nat]
      BY <1>1 DEF RecTypes
    <3>2. /\ at_bunch[c] + 1 \in Nat \ {0} /\ at_pkt[c] + n \in Nat
      BY <1>3, <3>1
    <3>3. /\ \/ at_bunch' = at_bunch
             \/ at_bunch' = [at_bunch EXCEPT ![c] = at_bunch[c] + 1]
          /\ \/ at_pkt' = [at_pkt EXCEPT ![c] = 0]
             \/ at_pkt' = [at_pkt EXCEPT ![c] = at_pkt[c] + n]
      BY <1>2
    <3>4. at_bunch' \in [Cpus -> Nat \ {0}]
      BY <3>1, <3>2, <3>3
    <3>5. at_pkt' \in [Cpus -> Nat]
      BY <3>1, <3>2, <3>3
    <3> QED BY <3>4, <3>5
  <2> QED BY <2>2, <2>3
<1>13. ASSUME NEW k \in 1..Len(new)
       PROVE  k \in 1..L \/ \E m \in 1..n : k = L + m
  <2>1. k \in 1..L \/ (k - L \in 1..n /\ k = L + (k - L))
    BY <1>3, <1>10
  <2> QED BY <2>1
<1>14. InOrder(c)'
  <2>1. ASSUME NEW k \in 1..Len(new)
        PROVE  /\ k \in 1..Len(q) /\ new[k].id = k
               /\ new[k].rw = IF write_enabled THEN q[k].rw ELSE "R"
    <3>1. CASE k \in 1..L
      <4>1. InOrder(c)
        BY <1>1 DEF ReplayInv
      <4>2. /\ k \in 1..Len(q) /\ done[k].id = k
            /\ done[k].rw = IF write_enabled THEN q[k].rw ELSE "R"
        BY <4>1, <3>1 DEF InOrder, done, L
      <4> QED BY <4>2, <3>1, <1>10
    <3>2. ASSUME NEW m \in 1..n, k = L + m
          PROVE  /\ k \in 1..Len(q) /\ new[k].id = k
                 /\ new[k].rw = IF write_enabled THEN q[k].rw ELSE "R"
      BY <3>2, <1>7, <1>8, <1>10
    <3> QED BY <3>1, <3>2, <1>13
  <2> QED BY <2>1, <1>2, <1>11 DEF InOrder, recvars
<1>15. /\ clock * acc_factor + acc_factor > b.time_stamp - first
       /\ b.time_stamp >= first
  <2>1. q # <<>> /\ FirstId(b) \in 1..Len(q)
    <3>1. FirstId(b) \in 1..Len(q)
      BY <1>4 DEF BunchOf
    <3> QED BY <3>1, <1>3, <1>6, EmptySeq
  <2>2. ofile[c].hdr.genesis = q[1].time
    BY <1>1, <2>1 DEF RecordedInv
  <2>3. first <= ofile[c].hdr.genesis
    BY <1>1, <1>2 DEF ReplayInv
  <2>4. q[FirstId(b)].time >= q[1].time /\ b.time_stamp = q[FirstId(b)].time
    BY <1>1, <1>4, <2>1 DEF RecordedInv, BunchOf
  <2>5. q[1] \in Queues
    BY <1>3, <1>6, <2>1
  <2>6. q[1].time \in Nat
    BY <2>5, RecConstants DEF Queues
  <2>7. b.time_stamp >= first
    BY <1>3, <1>6, <2>2, <2>3, <2>4, <2>6
  <2>8. /\ b.time_stamp - first \in Nat
        /\ clock >= (b.time_stamp - first) \div acc_factor
    BY <1>2, <1>3, <1>6, <2>7 DEF Oclock
  <2> QED BY <2>7, <2>8, <1>3, RecConstants, ClockAndBunch
<1>16. OnTime(c)'
  <2>1. ASSUME NEW k \in 1..Len(new)
        PROVE  \E d \in Range(bs) :
                  /\ new[k].id \in {p.id : p \in Range(d.pkts)}
                  /\ new[k].at * acc_factor + acc_factor
                        > d.time_stamp - first
                  /\ d.time_stamp >= first
    <3>1. CASE k \in 1..L
      <4>1. OnTime(c)
        BY <1>1 DEF ReplayInv
      <4>2. \E d \in Range(bs) :
               /\ done[k].id \in {p.id : p \in Range(d.pkts)}
               /\ done[k].at * acc_factor + acc_factor
                     > d.time_stamp - first
               /\ d.time_stamp >= first
        BY <4>1, <3>1 DEF OnTime, done, L
      <4>3. new[k] = done[k]
        BY <3>1, <1>10
      <4> QED BY <4>2, <4>3
    <3>2. ASSUME NEW m \in 1..n, k = L + m
          PROVE  /\ new[k].id \in {p.id : p \in Range(b.pkts)}
                 /\ new[k].at = clock
      BY <3>2, <1>7, <1>8, <1>10
    <3> QED BY <3>1, <3>2, <1>4, <1>13, <1>15
  <2> QED BY <2>1, <1>2, <1>11 DEF OnTime, recvars
<1>17. AtInv(c)'
  <2>1. CASE j + n = Len(b.pkts)
    <3>1. at_bunch'[c] = at_bunch[c] + 1 /\ at_pkt'[c] = 0
      BY <1>1, <1>2, <2>1 DEF RecTypes
    <3>2. ASSUME at_bunch[c] + 1 <= Len(bs)
          PROVE  /\ 0 < Len(bs[at_bunch[c] + 1].pkts)
                 /\ L + n = FirstId(bs[at_bunch[c] + 1]) + 0 - 1
      <4>1. at_bunch[c] \in 1..Len(bs) - 1 /\ at_bunch[c] + 1 \in 1..Len(bs)
        <5>1. Len(bs) \in Nat /\ at_bunch[c] \in 1..Len(bs)
          BY <1>2, <1>3
        <5> HIDE DEF bs
        <5> QED BY <3>2, <5>1
      <4>2. /\ Follows(bs[at_bunch[c]], bs[at_bunch[c] + 1], q)
            /\ BunchOf(bs[at_bunch[c] + 1], q)
        BY <1>1, <4>1 DEF ChainOf
      <4>3. FirstId(bs[at_bunch[c] + 1]) = FirstId(b) + Len(b.pkts)
        BY <1>4, <4>2 DEF Follows
      <4>4. Len(bs[at_bunch[c] + 1].pkts) \in Nat \ {0}
        <5> HIDE DEF q
        <5> QED BY <4>2, <1>3, BunchOfTypes
      <4>5. /\ L + n = FirstId(b) + Len(b.pkts) - 1
            /\ FirstId(b) \in Nat /\ Len(b.pkts) \in Nat
        <5>1. /\ j \in Nat /\ n \in Nat /\ L \in Nat
              /\ L = FirstId(b) + j - 1 /\ j + n = Len(b.pkts)
          BY <2>1, <1>3, <1>5
        <5>2. FirstId(b) \in Nat /\ Len(b.pkts) \in Nat
          BY <1>6
        <5> QED BY <5>1, <5>2
      <4>6. 0 < Len(bs[at_bunch[c] + 1].pkts)
        BY <4>4
      <4>7. L + n = FirstId(bs[at_bunch[c] + 1]) + 0 - 1
        BY <4>3, <4>5
      <4> QED BY <4>6, <4>7
    <3> QED BY <3>1, <3>2, <1>2, <1>10, <1>11 DEF AtInv, recvars
  <2>2. CASE j + n # Len(b.pkts)
    <3>1. at_bunch'[c] = at_bunch[c] /\ at_pkt'[c] = j + n
      BY <1>1, <1>2, <2>2 DEF RecTypes, j
    <3>2. j + n < Len(b.pkts) /\ L + n = FirstId(b) + (j + n) - 1
      <4>1. /\ j + n <= Len(b.pkts) /\ j \in Nat /\ n \in Nat
            /\ L = FirstId(b) + j - 1
        BY <1>2, <1>3, <1>5
      <4>2. FirstId(b) \in Nat /\ Len(b.pkts) \in Nat
        BY <1>6
      <4>3. j + n < Len(b.pkts)
        BY <4>1, <4>2, <2>2
      <4>4. L + n = FirstId(b) + (j + n) - 1
        BY <4>1, <4>2
      <4> QED BY <4>3, <4>4
    <3> QED BY <3>1, <3>2, <1>2, <1>4, <1>10, <1>11 DEF AtInv, recvars
  <2> QED BY <2>1, <2>2
<1>18. ASSUME NEW m \in Cpus PROVE ReplayInv(m)'
  <2>1. CASE m = c
    BY <2>1, <1>1, <1>2, <1>14, <1>16, <1>17 DEF ReplayInv, recvars
  <2>2. CASE m # c
    <3>1. ReplayInv(m)
      BY <1>1
    <3>2. AtInv(m)'
      BY <2>2, <3>1, <1>2, <1>11 DEF ReplayInv, AtInv, recvars
    <3>3. OnTime(m)'
      BY <2>2, <3>1, <1>2, <1>11 DEF ReplayInv, OnTime, recvars
    <3>4. InOrder(m)'
      BY <2>2, <3>1, <1>2, <1>11 DEF ReplayInv, InOrder, recvars
    <3> QED
      BY <2>2, <3>1, <3>2, <3>3, <3>4, <1>2, <1>11 DEF ReplayInv, recvars
  <2> QED BY <2>1, <2>2
<1> QED
  BY <1>1, <1>2, <1>12, <1>18, ReplayFrame DEF RecTypes, Issues
-----------------------------------------------------------------------------
(* The theorems about the recording and the replay.                        *)

LEMMA NextRecInv == RecInv /\ [RecNext]_allvars => RecInv'
<1> SUFFICES ASSUME RecInv, [RecNext]_allvars PROVE RecInv'
  OBVIOUS
<1>1. CASE SkipRecord
  <2>1. UNCHANGED <<ended, cpu, genesis, cur, stream, ofile, queued, replay>>
    BY <1>1 DEF SkipRecord
  <2> QED BY <2>1, ReadingInv
<1>2. ASSUME NEW t \in 1..MaxTime, TimeInversion(t) PROVE RecInv'
  BY <1>2, TimeInversionInv
<1>3. ASSUME NEW t \in 1..MaxTime, NEW rw \in Directions, StreamAddIo(t, rw)
      PROVE  RecInv'
  BY <1>3, StreamAddIoInv
<1>4. CASE EndOfInput
  <2>1. UNCHANGED <<ended, cpu, genesis, cur, stream, ofile, queued, replay>>
    BY <1>4 DEF EndOfInput
  <2> QED BY <2>1, ReadingInv
<1>5. CASE StreamClose
  BY <1>5, StreamCloseInv
<1>6. CASE FindInputFiles
  BY <1>6, FindInputFilesInv
<1>7. ASSUME NEW c \in Cpus, NEW n \in 1..naios, SubmitPackets(c, n)
      PROVE  RecInv'
  BY <1>7, SubmitPacketsInv
<1>8. CASE Tick
  BY <1>8, TickInv
<1>9. CASE UNCHANGED allvars
  <2>1. UNCHANGED <<ended, cpu, genesis, cur, stream, ofile, queued, replay>>
    BY <1>9 DEF allvars, recvars
  <2> QED BY <2>1, ReadingInv
<1> QED
  BY <1>1, <1>2, <1>3, <1>4, <1>5, <1>6, <1>7, <1>8, <1>9
     DEF RecNext, Record, Replay

LEMMA RecordingOfInv == RecInv => RecordingTrue
<1> SUFFICES ASSUME RecInv PROVE RecordingTrue
  OBVIOUS
<1>1. ASSUME ended = "no", NEW c \in Cpus
      PROVE  AllPkts(ofile[c].bunches)
                \o (IF c = cpu THEN cur.pkts ELSE <<>>) = Recorded(c)
  <2> DEFINE bs == ofile[c].bunches
             q  == queued[c]
  <2>1. /\ RecTypes /\ StreamInv /\ RecordedInv(c)
    BY <1>1 DEF RecInv
  <2>2. /\ bs \in Seq(BunchRecords) /\ cur \in BunchRecords
        /\ q \in Seq(Queues)
        /\ ofile[c] \in [hdr : [genesis : Nat, nbunches : Nat,
                                total_pkts : Nat],
                         bunches : Seq(BunchRecords)]
    BY <2>1 DEF RecTypes
  <2>3. Recorded(c) = PacketsOf(q) /\ PacketsOf(q) \in Seq(Packets)
    <3>1. DOMAIN q = 1..Len(q)
      BY <2>2
    <3> QED BY <2>2, <3>1, PacketsOfType DEF Recorded, PacketsOf
  <2>4. ChainOf(Collected(c), q)
    BY <2>1 DEF RecordedInv
  <2>5. CASE c = cpu /\ cur.pkts # <<>>
    <3>1. Collected(c) = Append(bs, cur)
      BY <2>2, <2>5 DEF Collected, Flushed
    <3>2. AllPkts(bs) \o cur.pkts = PacketsOf(q)
      <4> HIDE DEF bs, q
      <4>1. ChainOf(Append(bs, cur), q)
        BY <2>4, <3>1
      <4> QED BY <2>2, <4>1, AllPktsBefore
    <3> QED BY <2>3, <2>5, <3>2
  <2>6. CASE ~(c = cpu /\ cur.pkts # <<>>)
    <3>1. Collected(c) = bs
      BY <2>6 DEF Collected, Flushed
    <3>2. AllPkts(bs) = PacketsOf(q)
      <4> HIDE DEF bs, q
      <4>1. ChainOf(bs, q)
        BY <2>4, <3>1
      <4> QED BY <4>1, AllPktsOfChain
    <3>3. (IF c = cpu THEN cur.pkts ELSE <<>>) = <<>>
      BY <2>6
    <3>4. PacketsOf(q) \o <<>> = PacketsOf(q)
      BY <2>3, ConcatEmptySeq
    <3> HIDE DEF bs, q
    <3> QED BY <2>3, <3>2, <3>3, <3>4 DEF bs
  <2> QED BY <2>5, <2>6
<1>2. EveryQueueRecorded
  BY <1>1 DEF EveryQueueRecorded
<1>3. BunchesAsLargeAsAllowed
  <2>1. CASE ended = "no"
    BY <2>1, CollectedLarge, LargeMeans DEF RecInv
  <2>2. CASE ended # "no"
    BY <2>2 DEF RecInv
  <2> QED BY <2>1, <2>2
<1> QED BY <1>2, <1>3 DEF RecordingTrue

LEMMA ReplayOfInv == RecInv => ReplayTrue
<1> SUFFICES ASSUME RecInv PROVE ReplayTrue
  OBVIOUS
<1>1. RecTypes
  BY DEF RecInv
<1>2. ASSUME NEW c \in Cpus
      PROVE  OnTime(c) /\ InOrder(c) /\ DOMAIN issued[c] = 1..Len(issued[c])
  <2>1. DOMAIN issued[c] = 1..Len(issued[c])
    BY <1>1 DEF RecTypes
  <2>2. CASE cpu = NFiles
    BY <2>1, <2>2 DEF RecInv, ReplayInv
  <2>3. CASE cpu # NFiles
    <3>1. issued[c] = <<>>
      BY <2>3 DEF RecInv, Unread
    <3> QED BY <2>1, <3>1 DEF OnTime, InOrder
  <2> QED BY <2>2, <2>3
<1>3. NeverEarly
  BY <1>2 DEF NeverEarly, OnTime
<1>4. ReplaysInOrder
  BY <1>2 DEF ReplaysInOrder, InOrder
<1> QED BY <1>3, <1>4 DEF ReplayTrue

\* The file of bunches is the recording: every Q record of a trace file is in
\* a bunch, once and in its order, and the bunches are as large as the limits
\* allow, whatever records come and however the file ends.
THEOREM RecordingTrueHolds == RecSpec => []RecordingTrue
  BY InitRecInv, NextRecInv, RecordingOfInv, PTL DEF RecSpec

\* The replay follows the recording: the packets of every file are submitted
\* in order, each once, as reads without -W, and never earlier than their
\* bunch was recorded to be, whatever the acceleration and however many iocbs
\* a sender finds free.
THEOREM ReplayTrueHolds == RecSpec => []ReplayTrue
  BY InitRecInv, NextRecInv, ReplayOfInv, PTL DEF RecSpec
=============================================================================
