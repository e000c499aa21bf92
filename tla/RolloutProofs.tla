---------------------------- MODULE RolloutProofs ----------------------------
(* Proofs about rollouts: the properties of Rollout that the run checks      *)
(* hold for any number of threads, alternatives, trials and calls.  The      *)
(* invariant has one part per question: where the threads are (TypeInv,      *)
(* CallInv), how far the count of trials given out is ahead of the count of  *)
(* games (TakenInv), what a judge's count stands for (JudgeInv), why the     *)
(* threads have ended (EndedInv), when an alternative may be stopped         *)
(* (StopInv), what a number given back was (HighInv), that no number is      *)
(* played twice (OnceInv) and that no alternative lags behind (LagInv).      *)
EXTENDS Rollout, Numbers

(* The places of a thread: those in a trial, and those where it has taken    *)
(* the number of the trial of an alternative.                                *)
Taken == {"test", "give_back", "roll"}
InTrial == Taken \cup {"take"}
Place == InTrial \cup {"next", "judge", "judging", "ended"}

TypeInv ==
  /\ rollout \in Rollouts /\ call \in {"idle", "running"} /\ calls \in Nat
  /\ cGames \in Nat /\ ro_NextTrial \in Nat
  /\ altTrialCount \in [Alternative -> Int] /\ altGameCount \in [Alternative -> Nat]
  /\ nGamesDone \in [Alternative -> Nat] /\ fNoMore \in [Alternative -> BOOLEAN]
  /\ fInterrupt \in BOOLEAN /\ interrupted \in BOOLEAN
  /\ pc \in [Thread -> Place] /\ alt \in [Thread -> Nat] /\ trial \in [Thread -> Int]
  /\ \A t \in Thread : pc[t] \in InTrial => alt[t] \in Alternative
  /\ active_alternatives \in Int /\ left \subseteq Alternative /\ exclusive \subseteq Thread
  /\ counted \in [Alternative -> [Trial -> Nat]]

(* When nobody has called, nothing has been counted; between calls no thread *)
(* runs.                                                                     *)
CallInv ==
  /\ call = "idle" => \A t \in Thread : pc[t] = "ended"
  /\ calls > 0 => cGames \in TrialCounts
  /\ calls = 0 => /\ call = "idle" /\ ~interrupted
                  /\ \A a \in Alternative : nGamesDone[a] = 0 /\ \A k \in Trial : counted[a][k] = 0
  /\ fInterrupt => interrupted

(* The threads that have a trial of alternative a.                           *)
Out(a) == {t \in Thread : pc[t] \in Taken /\ alt[t] = a}

(* altTrialCount is ahead of altGameCount by the trials that threads have    *)
(* taken, and by those lost to an interrupt.                                 *)
TakenInv ==
  /\ \A a \in Alternative :
       /\ altTrialCount[a] >= altGameCount[a] + Cardinality(Out(a))
       /\ ~interrupted => altTrialCount[a] = altGameCount[a] + Cardinality(Out(a))
       /\ ~rollout.cube => nGamesDone[a] = altGameCount[a]
  /\ \A t \in Thread : /\ pc[t] \in Taken => trial[t] >= 0
                       /\ pc[t] = "roll" => trial[t] <= cGames

(* One thread judges at a time, and its count is no less than the number of  *)
(* alternatives that are in play or that it has still to judge.  When it has *)
(* still to stop the second side of a cube decision it has stopped the first.*)
Open == {a \in Alternative : ~fNoMore[a] \/ a \in left}
CubeLeft == left \subseteq {1} \/ (left = {2} /\ fNoMore[1])
JudgeInv ==
  /\ \A t \in Thread : pc[t] = "judging" <=> t \in exclusive
  /\ \A t, u \in exclusive : t = u
  /\ exclusive # {} =>
       /\ active_alternatives >= Cardinality(Open)
       /\ rollout.cube /\ rollout.stop = "JSD" => CubeLeft

(* When the last thread has ended there was a reason.                        *)
InPlay == {a \in Alternative : ~fNoMore[a]}
Reason == ro_NextTrial >= cGames \/ Cardinality(InPlay) < Needed
EndedInv == calls > 0 /\ ~fInterrupt /\ (\A t \in Thread : pc[t] = "ended") => Reason

(* An alternative that has not been stopped in this call.  (A move that JSDs *)
(* stop can be resumed; it has had its least number of games.)               *)
Never(a) == ~fNoMore[a] /\ (rollout.stop # "JSD" \/ altGameCount[a] < nMinimum)
StopInv == ~rollout.cube => \A a \in Alternative : fNoMore[a] => altGameCount[a] >= nMinimum

(* The threads with a trial of alternative a that they will give back, since *)
(* its number is too high: each has raised altTrialCount above cGames.       *)
High(a) == {t \in Thread : pc[t] \in {"test", "give_back"} /\ alt[t] = a /\ trial[t] > cGames}
HighInv ==
  ~rollout.cube =>
    /\ \A t \in Thread : pc[t] = "give_back" /\ Never(alt[t]) => trial[t] > cGames
    /\ \A a \in Alternative :
         Never(a) /\ High(a) # {} => altTrialCount[a] >= cGames + 1 + Cardinality(High(a))

(* Each trial of an alternative is played once, as long as one number is not *)
(* given twice: it is not before the alternative is stopped, and then nobody *)
(* plays what he takes.                                                      *)
OnceInv ==
  rollout.stop # "JSD" /\ ~rollout.cube /\ calls <= 1 =>
    /\ \A a \in Alternative, k \in Trial :
         /\ counted[a][k] <= 1
         /\ counted[a][k] > 0 => k <= cGames
         /\ counted[a][k] > 0 /\ ~fNoMore[a] => k < altTrialCount[a]
    /\ \A t \in Thread : pc[t] = "roll" => counted[alt[t]][trial[t]] = 0
    /\ \A t, u \in Thread : pc[t] = "roll" /\ pc[u] = "roll" /\ t # u /\ alt[t] = alt[u] =>
                               trial[t] # trial[u]
    /\ \A t \in Thread : pc[t] \in Taken /\ ~fNoMore[alt[t]] /\ trial[t] <= cGames =>
         /\ trial[t] < altTrialCount[alt[t]] /\ counted[alt[t]][trial[t]] = 0
         /\ \A u \in Thread : pc[u] \in Taken /\ t # u /\ alt[t] = alt[u] => trial[t] # trial[u]

(* The threads that are in a trial and have not come to alternative a yet;   *)
(* the trials that have been begun, as alternative a has seen them or will.  *)
Behind(a) == {t \in Thread : \/ pc[t] = "take" /\ alt[t] <= a
                             \/ pc[t] \in Taken /\ alt[t] < a}
Seen(a) == altTrialCount[a] + Cardinality(Behind(a))
Begun == IF ro_NextTrial < cGames THEN ro_NextTrial ELSE cGames
NoneIn == ro_NextTrial >= cGames /\ \A t \in Thread : pc[t] \notin InTrial

(* An alternative that has not been stopped sees all trials; one that has    *)
(* not had its least number of games has seen no less than any other.        *)
LagInv ==
  ~rollout.cube /\ ~interrupted =>
    \A a \in Alternative :
      /\ Never(a) => Seen(a) >= Begun
      /\ altGameCount[a] < nMinimum =>
           \A b \in Alternative : Seen(b) <= Seen(a) /\ (Seen(b) <= Begun \/ NoneIn)

(* In a first rollout no alternative sees more trials than have been begun.  *)
FirstInv == ~interrupted /\ calls <= 1 => \A a \in Alternative : Seen(a) <= Begun

-----------------------------------------------------------------------------
(* Constants, and the operators of the library.                              *)

LEMMA Consts ==
  /\ nAlternatives \in Nat /\ nAlternatives >= 1 /\ nMinimum \in Nat
  /\ IsFiniteSet(Alternative) /\ Cardinality(Alternative) = nAlternatives
  /\ 1 \in Alternative /\ Alternative \subseteq Nat
  /\ IsFiniteSet(Thread) /\ Thread # {}
  /\ \A r \in Rollouts : /\ r.stop \in {"none", "STD", "JSD"} /\ r.cube \in BOOLEAN
                         /\ r.stop = "JSD" => nAlternatives > 1
                         /\ r.cube => nAlternatives = 2
<1>1. nAlternatives \in Nat /\ nAlternatives >= 1 /\ nMinimum \in Nat BY CountsAssumption
<1>2. IsFiniteSet(Alternative) /\ Cardinality(Alternative) = nAlternatives
  BY <1>1, FS_Interval DEF Alternative
<1>3. 1 \in Alternative /\ Alternative \subseteq Nat BY <1>1 DEF Alternative
<1>4. \A r \in Rollouts : /\ r.stop \in {"none", "STD", "JSD"} /\ r.cube \in BOOLEAN
                          /\ r.stop = "JSD" => nAlternatives > 1
                          /\ r.cube => nAlternatives = 2
  BY RolloutsAssumption DEF Rollouts
<1> QED BY <1>1, <1>2, <1>3, <1>4, ThreadAssumption

LEMMA TrialFacts ==
  /\ Trial \subseteq Nat /\ 0 \in Trial /\ TrialCounts \subseteq Nat /\ IsFiniteSet(Trial)
  /\ \A c \in TrialCounts : \A k \in 0..c : k \in Trial
<1>1. \E m \in TrialCounts : \A n \in TrialCounts : m >= n
  <2>1. TrialCounts \in SUBSET Nat /\ IsFiniteSet(TrialCounts) /\ TrialCounts # {} BY CountsAssumption
  <2>2. PICK m \in TrialCounts : \A n \in TrialCounts : n <= m BY <2>1, GreatestNumber
  <2> QED BY <2>1, <2>2
<1>2. Max(TrialCounts) \in TrialCounts /\ \A n \in TrialCounts : Max(TrialCounts) >= n
  BY <1>1 DEF Max
<1>3. TrialCounts \subseteq Nat BY CountsAssumption
<1>4. Max(TrialCounts) \in Nat BY <1>2, <1>3
<1>5. IsFiniteSet(Trial) BY <1>4, FS_Interval DEF Trial
<1> QED BY <1>2, <1>3, <1>4, <1>5 DEF Trial

(* The first trial: no later than any alternative needs.                     *)
LEMMA FirstTrial ==
  ASSUME NEW c \in Nat, NEW f \in [Alternative -> Nat]
  PROVE  /\ Min({c} \cup Range(f)) \in Nat /\ Min({c} \cup Range(f)) <= c
         /\ \A a \in Alternative : Min({c} \cup Range(f)) <= f[a]
         /\ \/ Min({c} \cup Range(f)) = c
            \/ \E a \in Alternative : Min({c} \cup Range(f)) = f[a]
<1> DEFINE S == {c} \cup Range(f)
<1>1. \A x \in S : x = c \/ \E a \in Alternative : x = f[a] BY DEF Range
<1>2. c \in S /\ \A a \in Alternative : f[a] \in S BY DEF Range
<1>3. S \in SUBSET Nat BY <1>1
<1> HIDE DEF S
<1>4. \E m \in S : \A n \in S : m <= n BY <1>2, <1>3, LeastNumber
<1>5. Min(S) \in S /\ \A n \in S : Min(S) <= n BY <1>4 DEF Min
<1>6. Min(S) \in Nat /\ Min(S) <= c /\ (\A a \in Alternative : Min(S) <= f[a])
  BY <1>2, <1>3, <1>5
<1>7. Min(S) = c \/ \E a \in Alternative : Min(S) = f[a] BY <1>1, <1>5
<1> QED BY <1>6, <1>7 DEF S

LEMMA MinTwo ==
  ASSUME NEW m \in Nat, NEW n \in Nat
  PROVE  Min({m, n}) \in {m, n} /\ Min({m, n}) <= m /\ Min({m, n}) <= n
<1>1. \E x \in {m, n} : \A y \in {m, n} : x <= y
  <2>1. CASE m <= n BY <2>1
  <2>2. CASE n <= m BY <2>2
  <2> QED BY <2>1, <2>2
<1>2. Min({m, n}) \in {m, n} /\ \A y \in {m, n} : Min({m, n}) <= y BY <1>1 DEF Min
<1> QED BY <1>2

(* Sets of threads.                                                          *)
LEMMA ThreadSets ==
  ASSUME NEW S \in SUBSET Thread
  PROVE  IsFiniteSet(S) /\ Cardinality(S) \in Nat /\ (Cardinality(S) = 0 <=> S = {})
<1>1. IsFiniteSet(S) BY Consts, FS_Subset
<1> QED BY <1>1, FS_CardinalityType, FS_EmptySet

LEMMA Joins ==
  ASSUME NEW S \in SUBSET Thread, NEW t \in Thread \ S
  PROVE  Cardinality(S \cup {t}) = Cardinality(S) + 1
BY ThreadSets, FS_AddElement

LEMMA Leaves ==
  ASSUME NEW S \in SUBSET Thread, NEW t \in S
  PROVE  Cardinality(S \ {t}) = Cardinality(S) - 1
BY ThreadSets, FS_RemoveElement

-----------------------------------------------------------------------------
(* Types.                                                                    *)

(* A step of one thread leaves the others where they are.                    *)
LEMMA Alone ==
  ASSUME TypeInv, NEW t \in Thread, ThreadStep(t)
  PROVE  /\ \A u \in Thread \ {t} : pc'[u] = pc[u] /\ alt'[u] = alt[u] /\ trial'[u] = trial[u]
         /\ pc[t] # "ended"
         /\ UNCHANGED <<settings, fInterrupt, interrupted>>
<1> USE DEF settings, counts, local, judge, history, Goto, TypeInv, Advance, Judged
<1>1. CASE NextTrial(t) \/ TakeTrial(t) \/ TestTrial(t) \/ GiveBack(t)
  BY <1>1 DEF NextTrial, TakeTrial, TestTrial, GiveBack
<1>2. CASE AddResult(t) \/ Interrupted(t) \/ BeginJudging(t) \/ EndJudging(t)
  BY <1>2 DEF AddResult, Interrupted, BeginJudging, EndJudging
<1>3. CASE JudgeSTD(t) \/ JudgeBoth(t)
  BY <1>3 DEF JudgeSTD, JudgeBoth
<1>4. CASE JudgeJSD(t) \/ JudgeCubeJSD(t)
  BY <1>4 DEF JudgeJSD, JudgeCubeJSD
<1> QED BY <1>1, <1>2, <1>3, <1>4 DEF ThreadStep

(* What a judge may do to the alternatives.                                  *)
Verdict(t) ==
  /\ pc[t] = "judging"
  /\ UNCHANGED <<settings, ro_NextTrial, altTrialCount, altGameCount, nGamesDone, fInterrupt,
                 local, exclusive, history>>
  /\ fNoMore' \in [Alternative -> BOOLEAN] /\ active_alternatives' \in Int /\ left' \subseteq Alternative

LEMMA Verdicts1 ==
  ASSUME TypeInv, NEW t \in Thread,
         JudgeSTD(t) \/ JudgeBoth(t) \/ JudgeJSD(t) \/ JudgeCubeJSD(t)
  PROVE  Verdict(t)
<1>1. ASSUME NEW a, NEW f \in [Alternative -> BOOLEAN], NEW n \in Int, Judged(a, f, n), pc[t] = "judging"
      PROVE  Verdict(t)
  BY <1>1 DEF Verdict, Judged, TypeInv, history
<1>2. fNoMore \in [Alternative -> BOOLEAN] /\ active_alternatives \in Int
  BY DEF TypeInv
<1>3. \A a \in Alternative : /\ [fNoMore EXCEPT ![a] = TRUE] \in [Alternative -> BOOLEAN]
                             /\ [fNoMore EXCEPT ![a] = FALSE] \in [Alternative -> BOOLEAN]
  BY <1>2
<1>4. active_alternatives - 1 \in Int /\ active_alternatives + 1 \in Int BY <1>2
<1>5. CASE JudgeSTD(t)
  <2>1. PICK a : \/ Judged(a, fNoMore, active_alternatives)
                 \/ Judged(a, [fNoMore EXCEPT ![a] = TRUE], active_alternatives - 1)
    BY <1>5 DEF JudgeSTD
  <2>2. [fNoMore EXCEPT ![a] = TRUE] \in [Alternative -> BOOLEAN] BY <1>2
  <2> QED BY <1>1, <1>2, <1>4, <1>5, <2>1, <2>2 DEF JudgeSTD
<1>6. CASE JudgeBoth(t)
  <2>1. PICK f \in [Alternative -> BOOLEAN] : Judged(0, f, 2)
    BY <1>6 DEF JudgeBoth
  <2> QED BY <1>1, <1>6, <2>1 DEF JudgeBoth
<1>7. CASE JudgeJSD(t)
  <2>1. PICK a : \/ Judged(a, fNoMore, active_alternatives)
                 \/ Judged(a, [fNoMore EXCEPT ![a] = TRUE], active_alternatives - 1)
                 \/ Judged(a, [fNoMore EXCEPT ![a] = FALSE], active_alternatives + 1)
                 \/ Judged(a, [fNoMore EXCEPT ![a] = FALSE], active_alternatives)
    BY <1>7 DEF JudgeJSD
  <2>2. /\ [fNoMore EXCEPT ![a] = TRUE] \in [Alternative -> BOOLEAN]
        /\ [fNoMore EXCEPT ![a] = FALSE] \in [Alternative -> BOOLEAN]
    BY <1>2
  <2> QED BY <1>1, <1>2, <1>4, <1>7, <2>1, <2>2 DEF JudgeJSD
<1>8. CASE JudgeCubeJSD(t)
  <2>1. {1, 2} \subseteq Alternative /\ pc[t] = "judging"
    BY <1>8, Consts DEF JudgeCubeJSD, TypeInv, Alternative
  <2>2. CASE Judged(1, fNoMore, active_alternatives) BY <1>1, <1>2, <2>1, <2>2
  <2>3. CASE /\ fNoMore' = [fNoMore EXCEPT ![1] = TRUE] /\ left' = {2}
             /\ UNCHANGED <<settings, ro_NextTrial, altTrialCount, altGameCount, nGamesDone,
                            fInterrupt, local, exclusive, history, active_alternatives>>
    BY <1>2, <1>3, <2>1, <2>3 DEF Verdict, history
  <2>4. CASE Judged(2, [fNoMore EXCEPT ![2] = TRUE], 0)
    <3>1. PICK f \in [Alternative -> BOOLEAN] : Judged(2, f, 0) BY <1>3, <2>1, <2>4
    <3> QED BY <1>1, <2>1, <3>1
  <2> QED BY <1>8, <2>2, <2>3, <2>4 DEF JudgeCubeJSD
<1> QED BY <1>5, <1>6, <1>7, <1>8

LEMMA TypeCall ==
  ASSUME TypeInv, CallInv, RolloutGeneral
  PROVE  TypeInv' /\ CallInv'
<1> USE DEF RolloutGeneral, judge, history
<1>1. cGames' \in TrialCounts /\ cGames' \in Nat BY TrialFacts
<1>2. ro_NextTrial' \in Nat BY <1>1, FirstTrial DEF TypeInv
<1>3. fNoMore' \in [Alternative -> BOOLEAN]
  <2>1. CASE 0 \in Range(nGamesDone) BY <2>1
  <2>2. CASE 0 \notin Range(nGamesDone) 
    <3>1. fNoMore' \in Verdicts(nGamesDone) BY <2>2
    <3> QED BY <3>1 DEF Verdicts
  <2> QED BY <2>1, <2>2
<1>4. /\ pc' \in [Thread -> Place] /\ \A t \in Thread : pc'[t] \in {"next", "ended"}
      /\ call' = "idle" => \A t \in Thread : pc'[t] = "ended"
      /\ call' \in {"idle", "running"}
  BY DEF TypeInv, CallInv, Place, InTrial, Taken
<1>5. \A t \in Thread : pc'[t] \notin InTrial BY <1>4 DEF InTrial, Taken
<1>6. calls' \in Nat /\ calls' > 0 BY DEF TypeInv
<1>7. altTrialCount' \in [Alternative -> Int] /\ altGameCount' \in [Alternative -> Nat] BY DEF TypeInv
<1>8. TypeInv' BY <1>1, <1>2, <1>3, <1>4, <1>5, <1>6, <1>7 DEF TypeInv
<1>9. CallInv' BY <1>1, <1>4, <1>6 DEF CallInv
<1> QED BY <1>8, <1>9

LEMMA TypeThread ==
  ASSUME TypeInv, CallInv, TakenInv, NEW t \in Thread, ThreadStep(t)
  PROVE  TypeInv' /\ CallInv'
<1> USE DEF settings, counts, local, judge, history, Goto, Advance
<1>1. CallInv'
  <2>1. call = "running" BY Alone DEF CallInv, TypeInv
  <2> QED BY <2>1, Alone DEF CallInv
<1>2. CASE NextTrial(t)
  BY <1>1, <1>2, Consts DEF NextTrial, TypeInv, Place, InTrial, Taken
<1>3. CASE TakeTrial(t)
  <2>1. pc[t] = "take" /\ alt[t] \in Alternative BY <1>3 DEF TakeTrial, TypeInv, InTrial
  <2> QED BY <1>1, <1>3, <2>1 DEF TakeTrial, TypeInv, Place, InTrial, Taken
<1>4. CASE TestTrial(t)
  BY <1>1, <1>4 DEF TestTrial, TypeInv, Place, InTrial, Taken
<1>5. ASSUME pc[t] \in Taken, Advance(t)
      PROVE  /\ pc' \in [Thread -> Place] /\ alt' \in [Thread -> Nat]
             /\ \A u \in Thread : pc'[u] \in InTrial => alt'[u] \in Alternative
  <2>1. alt[t] \in Alternative BY <1>5 DEF TypeInv, InTrial
  <2>2. alt[t] < nAlternatives => alt[t] + 1 \in Alternative BY <2>1, Consts DEF Alternative
  <2> QED BY <1>5, <2>1, <2>2 DEF TypeInv, Place, InTrial, Taken
<1>6. CASE GiveBack(t)
  <2>1. pc[t] \in Taken /\ alt[t] \in Alternative BY <1>6 DEF GiveBack, TypeInv, Taken, InTrial
  <2> QED BY <1>1, <1>5, <1>6, <2>1 DEF GiveBack, TypeInv
<1>7. CASE AddResult(t)
  <2>1. pc[t] \in Taken /\ alt[t] \in Alternative BY <1>7 DEF AddResult, TypeInv, Taken, InTrial
  <2>2. altGameCount' \in [Alternative -> Nat] BY <1>7, <2>1 DEF AddResult, TypeInv
  <2>3. nGamesDone' \in [Alternative -> Nat]
    <3>1. altGameCount[alt[t]] + 1 \in Nat BY <2>1 DEF TypeInv
    <3> QED BY <1>7, <3>1 DEF AddResult, TypeInv
  <2>4. counted' \in [Alternative -> [Trial -> Nat]]
    <3>1. counted' = [counted EXCEPT ![alt[t]] = [counted[alt[t]] EXCEPT ![trial[t]] = counted[alt[t]][trial[t]] + 1]]
      BY <1>7 DEF AddResult
    <3>2. counted[alt[t]] \in [Trial -> Nat] BY <2>1 DEF TypeInv
    <3>3. [counted[alt[t]] EXCEPT ![trial[t]] = counted[alt[t]][trial[t]] + 1] \in [Trial -> Nat]
      <4>1. CASE trial[t] \in Trial BY <3>2, <4>1
      <4>2. CASE trial[t] \notin Trial BY <3>2, <4>2
      <4> QED BY <4>1, <4>2
    <3> QED BY <2>1, <3>1, <3>3 DEF TypeInv
  <2>5. UNCHANGED <<settings, ro_NextTrial, altTrialCount, fNoMore, fInterrupt, trial, judge, interrupted>>
    BY <1>7 DEF AddResult
  <2>6. Advance(t) BY <1>7 DEF AddResult
  <2> QED BY <1>1, <1>5, <2>1, <2>2, <2>3, <2>4, <2>5, <2>6 DEF TypeInv
<1>8. CASE Interrupted(t)
  BY <1>1, <1>8 DEF Interrupted, TypeInv, Place, InTrial, Taken
<1>9. CASE BeginJudging(t)
  <2>1. left' \subseteq Alternative
    BY <1>9, Consts DEF BeginJudging, TypeInv
  <2>2. pc' \in [Thread -> Place] /\ (\A u \in Thread : pc'[u] \in InTrial => pc[u] \in InTrial)
    BY <1>9 DEF BeginJudging, TypeInv, Place, InTrial, Taken
  <2> QED BY <1>1, <1>9, <2>1, <2>2, Consts DEF BeginJudging, TypeInv
<1>10. CASE EndJudging(t)
  <2>2. pc' \in [Thread -> Place] /\ (\A u \in Thread : pc'[u] \in InTrial => pc[u] \in InTrial)
    BY <1>10 DEF EndJudging, TypeInv, Place, InTrial, Taken
  <2> QED BY <1>1, <1>10, <2>2 DEF EndJudging, TypeInv
<1>11. CASE Verdict(t)
  BY <1>1, <1>11 DEF Verdict, TypeInv
<1> QED BY <1>1, <1>2, <1>3, <1>4, <1>6, <1>7, <1>8, <1>9, <1>10, <1>11, Verdicts1 DEF ThreadStep

-----------------------------------------------------------------------------
(* The trials that threads have taken.                                       *)

LEMMA OutMoves ==
  ASSUME TypeInv, NEW t \in Thread, ThreadStep(t), NEW a \in Alternative
  PROVE  /\ TakeTrial(t) /\ alt[t] = a => Cardinality(Out(a)') = Cardinality(Out(a)) + 1
         /\ (GiveBack(t) \/ AddResult(t)) /\ alt[t] = a => Cardinality(Out(a)') = Cardinality(Out(a)) - 1
         /\ Interrupted(t) => Cardinality(Out(a)') <= Cardinality(Out(a))
         /\ ~Interrupted(t) /\ ~(alt[t] = a /\ (TakeTrial(t) \/ GiveBack(t) \/ AddResult(t))) =>
              Out(a)' = Out(a)
<1>1. \A u \in Thread \ {t} : pc'[u] = pc[u] /\ alt'[u] = alt[u] BY Alone
<1>2. /\ pc \in [Thread -> Place] /\ alt \in [Thread -> Nat] /\ alt[t] \in Nat
      /\ \A u \in Thread : pc[u] \in Taken => alt[u] \in Alternative
  BY DEF TypeInv, InTrial
<1>3. Out(a) \in SUBSET Thread /\ Out(a)' \in SUBSET Thread BY DEF Out
<1>4. ASSUME TakeTrial(t), alt[t] = a PROVE Cardinality(Out(a)') = Cardinality(Out(a)) + 1
  <2>1. pc[t] = "take" /\ pc'[t] = "test" /\ alt' = alt BY <1>2, <1>4 DEF TakeTrial, Goto
  <2>2. t \notin Out(a) /\ Out(a)' = Out(a) \cup {t} BY <1>1, <1>4, <2>1 DEF Out, Taken
  <2> QED BY <1>3, <2>2, Joins
<1>5. ASSUME GiveBack(t) \/ AddResult(t), alt[t] = a PROVE Cardinality(Out(a)') = Cardinality(Out(a)) - 1
  <2>1. pc[t] \in Taken /\ pc'[t] \notin Taken
    BY <1>2, <1>5 DEF GiveBack, AddResult, Goto, Advance, Taken
  <2>2. t \in Out(a) /\ Out(a)' = Out(a) \ {t} BY <1>1, <1>5, <2>1 DEF Out
  <2> QED BY <1>3, <2>2, Leaves
<1>6. ASSUME Interrupted(t) PROVE Cardinality(Out(a)') <= Cardinality(Out(a))
  <2>1. pc'[t] = "ended" BY <1>2, <1>6 DEF Interrupted, Goto
  <2>2. Out(a)' \subseteq Out(a) BY <1>1, <2>1 DEF Out, Taken
  <2> QED BY <1>3, <2>2, ThreadSets, FS_Subset
<1>7. ASSUME ~Interrupted(t), ~(alt[t] = a /\ (TakeTrial(t) \/ GiveBack(t) \/ AddResult(t)))
      PROVE  Out(a)' = Out(a)
  <2>1. CASE TakeTrial(t)
    BY <1>1, <1>2, <1>7, <2>1 DEF TakeTrial, Goto, Out, Taken
  <2>2. CASE GiveBack(t) \/ AddResult(t)
    <3>1. pc[t] \in Taken /\ pc'[t] \notin Taken
      BY <1>2, <2>2 DEF GiveBack, AddResult, Goto, Advance, Taken
    <3> QED BY <1>1, <1>7, <2>2, <3>1 DEF Out
  <2>3. CASE TestTrial(t)
    BY <1>1, <1>2, <2>3 DEF TestTrial, Goto, Out, Taken
  <2>4. CASE NextTrial(t) \/ BeginJudging(t) \/ EndJudging(t)
    <3>1. pc[t] \notin Taken /\ pc'[t] \notin Taken
      BY <1>2, <2>4 DEF NextTrial, BeginJudging, EndJudging, Goto, Taken
    <3> QED BY <1>1, <3>1 DEF Out
  <2>5. CASE Verdict(t)
    BY <2>5 DEF Verdict, Out, local
  <2> QED BY <1>7, <2>1, <2>2, <2>3, <2>4, <2>5, Verdicts1 DEF ThreadStep
<1> QED BY <1>4, <1>5, <1>6, <1>7

LEMMA TakenThread ==
  ASSUME TypeInv, CallInv, TakenInv, NEW t \in Thread, ThreadStep(t)
  PROVE  TakenInv'
<1>1. UNCHANGED <<interrupted, rollout, cGames>> BY Alone DEF settings
<1>2. ASSUME NEW a \in Alternative
      PROVE  /\ altTrialCount'[a] >= altGameCount'[a] + Cardinality(Out(a)')
             /\ ~interrupted => altTrialCount'[a] = altGameCount'[a] + Cardinality(Out(a)')
             /\ ~rollout.cube => nGamesDone'[a] = altGameCount'[a]
  <2>1. Cardinality(Out(a)) \in Nat /\ Cardinality(Out(a)') \in Nat
    <3>1. Out(a) \in SUBSET Thread /\ Out(a)' \in SUBSET Thread BY DEF Out
    <3> QED BY <3>1, ThreadSets
  <2>2. /\ altTrialCount[a] \in Int /\ altGameCount[a] \in Nat
        /\ altTrialCount[a] >= altGameCount[a] + Cardinality(Out(a))
        /\ ~interrupted => altTrialCount[a] = altGameCount[a] + Cardinality(Out(a))
        /\ ~rollout.cube => nGamesDone[a] = altGameCount[a]
        /\ altTrialCount \in [Alternative -> Int] /\ altGameCount \in [Alternative -> Nat]
        /\ nGamesDone \in [Alternative -> Nat]
    BY DEF TypeInv, TakenInv
  <2> DEFINE o == Cardinality(Out(a))  op == Cardinality(Out(a)')
  <2>3. CASE TakeTrial(t)
    <3>1. /\ altTrialCount' = [altTrialCount EXCEPT ![alt[t]] = altTrialCount[alt[t]] + 1]
          /\ UNCHANGED <<altGameCount, nGamesDone>>
      BY <2>3 DEF TakeTrial
    <3>2. alt[t] = a => op = o + 1 BY <2>3, OutMoves
    <3>3. alt[t] # a => op = o
      <4>1. ~Interrupted(t) BY <2>3 DEF TakeTrial, Interrupted
      <4> QED BY <4>1, OutMoves
    <3> QED BY <2>1, <2>2, <3>1, <3>2, <3>3
  <2>4. CASE GiveBack(t)
    <3>1. /\ altTrialCount' = [altTrialCount EXCEPT ![alt[t]] = altTrialCount[alt[t]] - 1]
          /\ UNCHANGED <<altGameCount, nGamesDone>>
      BY <2>4 DEF GiveBack
    <3>2. alt[t] = a => op = o - 1 BY <2>4, OutMoves
    <3>3. alt[t] # a => op = o
      <4>1. ~Interrupted(t) BY <2>4 DEF GiveBack, Interrupted
      <4> QED BY <4>1, OutMoves
    <3> QED BY <2>1, <2>2, <3>1, <3>2, <3>3
  <2>5. CASE AddResult(t)
    <3>1. /\ altGameCount' = [altGameCount EXCEPT ![alt[t]] = altGameCount[alt[t]] + 1]
          /\ nGamesDone' = [b \in Alternative |->
                             IF b \in Context(alt[t]) /\ nGamesDone[b] < altGameCount[alt[t]] + 1
                             THEN altGameCount[alt[t]] + 1 ELSE nGamesDone[b]]
          /\ UNCHANGED altTrialCount
      BY <2>5 DEF AddResult
    <3>2. alt[t] = a => op = o - 1 BY <2>5, OutMoves
    <3>3. alt[t] # a => op = o
      <4>1. ~Interrupted(t) BY <2>5 DEF AddResult, Interrupted
      <4> QED BY <4>1, OutMoves
    <3>4. ~rollout.cube => nGamesDone'[a] = altGameCount'[a]
      <4>1. ASSUME ~rollout.cube PROVE Context(alt[t]) = {alt[t]} BY <4>1 DEF Context
      <4> QED BY <2>2, <3>1, <4>1
    <3>5. altGameCount'[a] = IF alt[t] = a THEN altGameCount[a] + 1 ELSE altGameCount[a] BY <2>2, <3>1
    <3> QED BY <2>1, <2>2, <3>1, <3>2, <3>3, <3>4, <3>5
  <2>6. CASE Interrupted(t)
    <3>1. UNCHANGED <<altTrialCount, altGameCount, nGamesDone>> /\ interrupted
      BY <2>6 DEF Interrupted, CallInv, counts
    <3>2. op <= o BY <2>6, OutMoves
    <3> QED BY <2>1, <2>2, <3>1, <3>2
  <2>7. CASE ~TakeTrial(t) /\ ~GiveBack(t) /\ ~AddResult(t) /\ ~Interrupted(t)
    <3>1. Out(a)' = Out(a) BY <2>7, OutMoves
    <3>2. UNCHANGED <<altTrialCount, altGameCount, nGamesDone>>
      BY <2>7, Verdicts1 DEF ThreadStep, NextTrial, TestTrial, BeginJudging, EndJudging, Verdict, counts
    <3> QED BY <2>2, <3>1, <3>2
  <2> QED BY <2>3, <2>4, <2>5, <2>6, <2>7
<1>3. ASSUME NEW u \in Thread
      PROVE  (pc'[u] \in Taken => trial'[u] >= 0) /\ (pc'[u] = "roll" => trial'[u] <= cGames)
  <2>1. CASE u # t BY <2>1, Alone DEF TakenInv
  <2>2. CASE u = t
    <3>1. pc \in [Thread -> Place] /\ trial \in [Thread -> Int] BY DEF TypeInv
    <3>2. CASE TakeTrial(t)
      <4>1. alt[t] \in Alternative BY <3>2 DEF TakeTrial, TypeInv, InTrial
      <4>2. Out(alt[t]) \in SUBSET Thread BY DEF Out
      <4>3. altTrialCount[alt[t]] >= 0 BY <4>1, <4>2, ThreadSets DEF TakenInv, TypeInv
      <4> QED BY <2>2, <3>1, <3>2, <4>3 DEF TakeTrial, Goto, Taken
    <3>3. CASE TestTrial(t)
      BY <2>2, <3>1, <3>3 DEF TestTrial, Goto, TakenInv, Taken, TypeInv
    <3>4. CASE Verdict(t) BY <2>2, <3>4 DEF Verdict, local, Taken
    <3>5. CASE ~TakeTrial(t) /\ ~TestTrial(t) /\ ~Verdict(t)
      <4>1. pc'[t] \notin Taken
        BY <3>1, <3>5, Verdicts1 DEF ThreadStep, NextTrial, GiveBack, AddResult, Interrupted, BeginJudging,
           EndJudging, Goto, Advance, Taken
      <4> QED BY <2>2, <4>1 DEF Taken
    <3> QED BY <3>2, <3>3, <3>4, <3>5
  <2> QED BY <2>1, <2>2
<1> QED BY <1>1, <1>2, <1>3 DEF TakenInv

LEMMA TakenCall ==
  ASSUME TypeInv, CallInv, TakenInv, RolloutGeneral
  PROVE  TakenInv'
<1>1. /\ altTrialCount' = nGamesDone /\ altGameCount' = nGamesDone /\ UNCHANGED nGamesDone
      /\ nGamesDone \in [Alternative -> Nat]
  BY DEF RolloutGeneral, TypeInv
<1>2. \A t \in Thread : pc'[t] \notin Taken
  BY DEF RolloutGeneral, CallInv, Taken
<1>3. \A a \in Alternative : Cardinality(Out(a)') = 0
  <2> TAKE a \in Alternative
  <2>1. Out(a)' = {} BY <1>2 DEF Out
  <2> QED BY <2>1, FS_EmptySet
<1>4. \A a \in Alternative : /\ altTrialCount'[a] = altGameCount'[a] + Cardinality(Out(a)')
                             /\ altTrialCount'[a] >= altGameCount'[a] + Cardinality(Out(a)')
                             /\ nGamesDone'[a] = altGameCount'[a]
  BY <1>1, <1>3
<1> QED BY <1>2, <1>4 DEF TakenInv, Taken

-----------------------------------------------------------------------------
(* Judging, and why the threads end.                                         *)

LEMMA OpenSets ==
  /\ IsFiniteSet(Open) /\ Cardinality(Open) \in Nat /\ Cardinality(Open) <= nAlternatives
  /\ Open \subseteq Alternative
<1>1. Open \in SUBSET Alternative BY DEF Open
<1>2. IsFiniteSet(Open) /\ Cardinality(Open) <= nAlternatives BY <1>1, Consts, FS_Subset
<1> QED BY <1>1, <1>2, FS_CardinalityType

LEMMA OpenNext ==
  /\ Open' = {a \in Alternative : ~fNoMore'[a] \/ a \in left'}
  /\ IsFiniteSet(Open') /\ Cardinality(Open') \in Nat /\ Cardinality(Open') <= nAlternatives
<1>1. Open' = {a \in Alternative : ~fNoMore'[a] \/ a \in left'} BY DEF Open
<1>2. Open' \in SUBSET Alternative BY <1>1
<1>3. IsFiniteSet(Open') /\ Cardinality(Open') <= nAlternatives BY <1>2, Consts, FS_Subset
<1> QED BY <1>1, <1>3, FS_CardinalityType

(* A verdict on one alternative takes at most that one out of Open.          *)
LEMMA OpenVerdict ==
  ASSUME TypeInv, JudgeInv, NEW t \in Thread, Verdict(t),
         JudgeSTD(t) \/ JudgeBoth(t) \/ JudgeJSD(t) \/ JudgeCubeJSD(t)
  PROVE  /\ active_alternatives' >= Cardinality(Open')
         /\ rollout.cube /\ rollout.stop = "JSD" => CubeLeft'
<1>1. /\ t \in exclusive /\ exclusive # {} /\ active_alternatives >= Cardinality(Open)
      /\ rollout.cube /\ rollout.stop = "JSD" => CubeLeft
      /\ active_alternatives \in Int /\ fNoMore \in [Alternative -> BOOLEAN] /\ left \subseteq Alternative
  BY DEF Verdict, JudgeInv, TypeInv
<1>2. /\ rollout.stop \in {"none", "STD", "JSD"} /\ rollout.cube \in BOOLEAN
      /\ rollout.cube => nAlternatives = 2
  BY Consts DEF TypeInv
<1>3. ASSUME NEW a, NEW f, NEW n, Judged(a, f, n)
      PROVE  left' = left \ {a} /\ fNoMore' = f /\ active_alternatives' = n
  BY <1>3 DEF Judged
<1>4. ASSUME NEW n \in Int, active_alternatives' = n, n >= active_alternatives, Open' \subseteq Open
      PROVE  active_alternatives' >= Cardinality(Open')
  <2>1. Cardinality(Open') <= Cardinality(Open) BY <1>4, OpenSets, FS_Subset
  <2> QED BY <1>1, <1>4, <2>1, OpenSets, OpenNext
<1>5. ASSUME NEW a \in Open, active_alternatives' = active_alternatives - 1, Open' = Open \ {a}
      PROVE  active_alternatives' >= Cardinality(Open')
  <2>1. Cardinality(Open') = Cardinality(Open) - 1 BY <1>5, OpenSets, FS_RemoveElement
  <2> QED BY <1>1, <1>5, <2>1, OpenSets
<1>6. CASE JudgeSTD(t)
  <2> DEFINE a == Min(left)
  <2>1. rollout.stop = "STD" /\ \/ Judged(a, fNoMore, active_alternatives)
                                \/ MayStop(a) /\ Judged(a, [fNoMore EXCEPT ![a] = TRUE], active_alternatives - 1)
    BY <1>6 DEF JudgeSTD
  <2>2. a \in Alternative
    <3>1. left \in SUBSET Nat /\ left # {} BY <1>1, <1>6, Consts DEF JudgeSTD
    <3>2. \E m \in left : \A n \in left : m <= n BY <3>1, LeastNumber
    <3>3. a \in left BY <3>2 DEF Min
    <3> QED BY <1>1, <3>3
  <2> HIDE DEF a
  <2>3. CASE Judged(a, fNoMore, active_alternatives)
    <3>1. Open' \subseteq Open BY <1>3, <2>3, OpenNext DEF Open
    <3> QED BY <1>1, <1>3, <1>4, <2>1, <2>3, <3>1
  <2>4. CASE MayStop(a) /\ Judged(a, [fNoMore EXCEPT ![a] = TRUE], active_alternatives - 1)
    <3>1. a \in Open BY <2>2, <2>4 DEF MayStop, Open
    <3>2. left' = left \ {a} /\ fNoMore' = [fNoMore EXCEPT ![a] = TRUE]
          /\ active_alternatives' = active_alternatives - 1
      BY <1>3, <2>4
    <3>3. Open' = Open \ {a} BY <1>1, <2>2, <3>2, OpenNext DEF Open
    <3> QED BY <1>5, <2>1, <3>1, <3>2, <3>3
  <2> QED BY <2>1, <2>3, <2>4
<1>7. CASE JudgeBoth(t)
  <2>1. rollout.cube /\ rollout.stop = "STD" /\ active_alternatives' = 2
    <3>1. PICK f : Judged(0, f, 2) BY <1>7 DEF JudgeBoth
    <3> QED BY <1>3, <1>7, <3>1 DEF JudgeBoth, Uneven
  <2> QED BY <1>2, <2>1, OpenNext
<1>8. CASE JudgeJSD(t)
  <2>1. ~rollout.cube BY <1>8 DEF JudgeJSD
  <2>2. PICK a \in left :
          \/ Judged(a, fNoMore, active_alternatives)
          \/ Judged(a, [fNoMore EXCEPT ![a] = TRUE], active_alternatives - 1)
          \/ Judged(a, [fNoMore EXCEPT ![a] = FALSE], active_alternatives + 1)
          \/ Judged(a, [fNoMore EXCEPT ![a] = FALSE], active_alternatives)
    BY <1>8 DEF JudgeJSD
  <2>3. a \in Open /\ a \in Alternative BY <1>1 DEF Open
  <2>4. CASE Judged(a, fNoMore, active_alternatives)
    <3>1. Open' \subseteq Open BY <1>3, <2>4, OpenNext DEF Open
    <3> QED BY <1>1, <1>3, <1>4, <2>1, <2>4, <3>1
  <2>5. CASE Judged(a, [fNoMore EXCEPT ![a] = TRUE], active_alternatives - 1)
    <3>1. left' = left \ {a} /\ fNoMore' = [fNoMore EXCEPT ![a] = TRUE]
          /\ active_alternatives' = active_alternatives - 1
      BY <1>3, <2>5
    <3>2. Open' = Open \ {a} BY <1>1, <2>3, <3>1, OpenNext DEF Open
    <3> QED BY <1>5, <2>1, <2>3, <3>1, <3>2
  <2>6. CASE \/ Judged(a, [fNoMore EXCEPT ![a] = FALSE], active_alternatives + 1)
             \/ Judged(a, [fNoMore EXCEPT ![a] = FALSE], active_alternatives)
    <3>1. /\ left' = left \ {a} /\ fNoMore' = [fNoMore EXCEPT ![a] = FALSE]
          /\ active_alternatives' \in {active_alternatives + 1, active_alternatives}
      BY <1>3, <2>6
    <3>2. Open' \subseteq Open BY <1>1, <2>3, <3>1, OpenNext DEF Open
    <3>3. active_alternatives' \in Int /\ active_alternatives' >= active_alternatives BY <1>1, <3>1
    <3> QED BY <1>4, <2>1, <3>2, <3>3
  <2> QED BY <2>2, <2>4, <2>5, <2>6
<1>9. CASE JudgeCubeJSD(t)
  <2>1. /\ rollout.cube /\ rollout.stop = "JSD" /\ CubeLeft
        /\ Alternative = {1, 2} /\ left \in {{1}, {2}}
    BY <1>1, <1>2, <1>9 DEF JudgeCubeJSD, Alternative
  <2>2. CASE left = {1} /\ Judged(1, fNoMore, active_alternatives)
    <3>1. left' = {} /\ fNoMore' = fNoMore /\ active_alternatives' = active_alternatives
      BY <1>3, <2>2
    <3>2. Open' \subseteq Open BY <3>1, OpenNext DEF Open
    <3> QED BY <1>1, <1>4, <3>1, <3>2 DEF CubeLeft
  <2>3. CASE /\ left = {1} /\ left' = {2} /\ fNoMore' = [fNoMore EXCEPT ![1] = TRUE]
             /\ active_alternatives' = active_alternatives
    <3>1. fNoMore'[1] BY <1>1, <2>1, <2>3
    <3>2. CubeLeft' BY <2>3, <3>1 DEF CubeLeft
    <3>3. CASE fNoMore[2]
      <4>1. Open' = {2} /\ 1 \in Open BY <2>1, <2>3, <3>1, <3>3, OpenNext DEF Open
      <4>2. Cardinality(Open') = 1 BY <4>1, FS_Singleton
      <4>3. Cardinality(Open) >= 1 BY <4>1, OpenSets, FS_EmptySet
      <4> QED BY <1>1, <2>3, <3>2, <4>2, <4>3, OpenSets
    <3>4. CASE ~fNoMore[2]
      <4>1. Open' \subseteq Open BY <2>1, <2>3, <3>1, <3>4, OpenNext DEF Open
      <4> QED BY <1>1, <1>4, <2>3, <3>2, <4>1
    <3> QED BY <3>3, <3>4
  <2>4. CASE left = {2} /\ Judged(2, [fNoMore EXCEPT ![2] = TRUE], 0)
    <3>1. left' = {} /\ fNoMore' = [fNoMore EXCEPT ![2] = TRUE] /\ active_alternatives' = 0
      BY <1>3, <2>4
    <3>2. fNoMore[1] BY <2>1, <2>4 DEF CubeLeft
    <3>3. Open' = {} BY <1>1, <2>1, <3>1, <3>2, OpenNext
    <3> QED BY <3>1, <3>3, FS_EmptySet DEF CubeLeft
  <2> QED BY <1>9, <2>2, <2>3, <2>4 DEF JudgeCubeJSD
<1> QED BY <1>6, <1>7, <1>8, <1>9

LEMMA JudgeThread ==
  ASSUME TypeInv, JudgeInv, NEW t \in Thread, ThreadStep(t)
  PROVE  JudgeInv'
<1>1. (\A u \in Thread \ {t} : pc'[u] = pc[u]) /\ rollout' = rollout BY Alone DEF settings
<1>2. pc \in [Thread -> Place] /\ exclusive \subseteq Thread BY DEF TypeInv
<1>3. CASE BeginJudging(t)
  <2>1. exclusive = {} /\ exclusive' = {t} /\ pc'[t] = "judging" /\ active_alternatives' = nAlternatives
    BY <1>2, <1>3 DEF BeginJudging, Free, Goto
  <2>2. \A u \in Thread : pc'[u] = "judging" <=> u \in exclusive'
    BY <1>1, <2>1 DEF JudgeInv
  <2>3. rollout.cube /\ rollout.stop = "JSD" => CubeLeft' BY <1>3 DEF BeginJudging, CubeLeft
  <2>4. active_alternatives' >= Cardinality(Open') BY <2>1, OpenNext, Consts
  <2> QED BY <1>1, <2>1, <2>2, <2>3, <2>4 DEF JudgeInv
<1>4. CASE EndJudging(t)
  <2>1. exclusive' = {} /\ pc[t] = "judging" /\ pc'[t] # "judging"
    BY <1>2, <1>4 DEF EndJudging, Goto
  <2>2. \A u \in Thread : pc'[u] # "judging" BY <1>1, <2>1 DEF JudgeInv
  <2> QED BY <2>1, <2>2 DEF JudgeInv
<1>5. CASE JudgeSTD(t) \/ JudgeBoth(t) \/ JudgeJSD(t) \/ JudgeCubeJSD(t)
  <2>1. Verdict(t) BY <1>5, Verdicts1
  <2>2. exclusive' = exclusive /\ pc' = pc BY <2>1 DEF Verdict, local
  <2>3. /\ active_alternatives' >= Cardinality(Open')
        /\ rollout.cube /\ rollout.stop = "JSD" => CubeLeft'
    BY <1>5, <2>1, OpenVerdict
  <2> QED BY <1>1, <2>2, <2>3 DEF JudgeInv
<1>6. CASE ~BeginJudging(t) /\ ~EndJudging(t)
           /\ ~(JudgeSTD(t) \/ JudgeBoth(t) \/ JudgeJSD(t) \/ JudgeCubeJSD(t))
  <2>1. UNCHANGED <<judge, fNoMore>> /\ pc[t] # "judging" /\ pc'[t] # "judging"
    BY <1>2, <1>6 DEF ThreadStep, NextTrial, TakeTrial, TestTrial, GiveBack, AddResult, Interrupted, Goto,
       Advance, counts
  <2>2. UNCHANGED <<active_alternatives, left, exclusive>> BY <2>1 DEF judge
  <2>3. Open' = Open BY <2>1, <2>2, OpenNext DEF Open
  <2>4. CubeLeft' = CubeLeft BY <2>1, <2>2 DEF CubeLeft
  <2> QED BY <1>1, <2>1, <2>2, <2>3, <2>4 DEF JudgeInv
<1> QED BY <1>3, <1>4, <1>5, <1>6

LEMMA JudgeCall ==
  ASSUME TypeInv, CallInv, JudgeInv, RolloutGeneral
  PROVE  JudgeInv'
<1>1. exclusive = {}
  BY DEF RolloutGeneral, CallInv, JudgeInv, TypeInv
<1>2. exclusive' = {} /\ \A t \in Thread : pc'[t] \in {"next", "ended"}
  BY <1>1 DEF RolloutGeneral, judge, CallInv
<1> QED BY <1>2 DEF JudgeInv

LEMMA EndedThread ==
  ASSUME TypeInv, CallInv, JudgeInv, EndedInv, NEW t \in Thread, ThreadStep(t)
  PROVE  EndedInv'
<1> SUFFICES ASSUME calls' > 0, ~fInterrupt', \A u \in Thread : pc'[u] = "ended"
             PROVE  Reason'
  BY DEF EndedInv
<1>1. UNCHANGED <<rollout, cGames, fInterrupt>> /\ pc \in [Thread -> Place] /\ pc'[t] = "ended"
  BY Alone DEF settings, TypeInv
<1>2. Needed' = Needed BY <1>1 DEF Needed
<1>3. CASE NextTrial(t)
  BY <1>1, <1>3 DEF NextTrial, Goto, Reason, TypeInv
<1>4. CASE EndJudging(t)
  <2>1. active_alternatives < Needed /\ left = {} /\ fNoMore' = fNoMore
    BY <1>1, <1>4 DEF EndJudging, Goto, counts
  <2>2. active_alternatives >= Cardinality(Open) /\ active_alternatives \in Int
    BY <1>4 DEF EndJudging, JudgeInv, TypeInv
  <2>3. Open = InPlay BY <2>1 DEF Open, InPlay
  <2>4. InPlay' = InPlay BY <2>1 DEF InPlay
  <2>5. Needed \in Int BY DEF Needed
  <2>6. Cardinality(InPlay) < Needed BY <2>1, <2>2, <2>3, <2>5, OpenSets
  <2> QED BY <1>2, <2>4, <2>6 DEF Reason
<1>5. CASE ~NextTrial(t) /\ ~EndJudging(t)
  <2>1. Interrupted(t)
    BY <1>1, <1>5, Verdicts1, Alone DEF ThreadStep, TakeTrial, TestTrial, GiveBack, AddResult, BeginJudging,
       Verdict, local, Goto, Advance
  <2> QED BY <1>1, <2>1 DEF Interrupted
<1> QED BY <1>3, <1>4, <1>5

LEMMA EndedCall ==
  ASSUME TypeInv, CallInv, RolloutGeneral
  PROVE  EndedInv'
<1> SUFFICES ASSUME \A u \in Thread : pc'[u] = "ended" PROVE Reason'
  BY DEF EndedInv
<1>1. PICK t \in Thread : TRUE BY Consts
<1>2. rollout' = rollout /\ Cardinality({a \in Alternative : ~fNoMore'[a]}) < Needed
  <2>1. pc'[t] # "next" BY <1>1
  <2>2. Needed \in Int BY DEF Needed
  <2>3. rollout' = rollout BY DEF RolloutGeneral
  <2>4. ~(Cardinality({a \in Alternative : ~fNoMore'[a]}) >= Needed) BY <2>1 DEF RolloutGeneral
  <2>5. Cardinality({a \in Alternative : ~fNoMore'[a]}) \in Nat
    <3>1. {a \in Alternative : ~fNoMore'[a]} \in SUBSET Alternative OBVIOUS
    <3> QED BY <3>1, Consts, FS_Subset, FS_CardinalityType
  <2> QED BY <2>2, <2>3, <2>4, <2>5
<1> QED BY <1>2 DEF Reason, InPlay, Needed

LEMMA StopThread ==
  ASSUME TypeInv, StopInv, NEW t \in Thread, ThreadStep(t)
  PROVE  StopInv'
<1> SUFFICES ASSUME ~rollout.cube PROVE \A a \in Alternative : fNoMore'[a] => altGameCount'[a] >= nMinimum
  BY Alone DEF StopInv, settings
<1>1. /\ altGameCount \in [Alternative -> Nat] /\ fNoMore \in [Alternative -> BOOLEAN]
      /\ \A a \in Alternative : fNoMore[a] => altGameCount[a] >= nMinimum
      /\ nMinimum \in Nat
  BY Consts DEF TypeInv, StopInv
<1>2. CASE AddResult(t)
  <2>1. altGameCount' = [altGameCount EXCEPT ![alt[t]] = altGameCount[alt[t]] + 1] /\ fNoMore' = fNoMore
    BY <1>2 DEF AddResult
  <2> QED BY <1>1, <2>1
<1>3. CASE JudgeSTD(t)
  <2>1. PICK a : \/ Judged(a, fNoMore, active_alternatives)
                 \/ MayStop(a) /\ Judged(a, [fNoMore EXCEPT ![a] = TRUE], active_alternatives - 1)
    BY <1>3 DEF JudgeSTD
  <2> QED BY <1>1, <2>1 DEF Judged, MayStop
<1>4. CASE JudgeJSD(t)
  <2>1. PICK a \in left :
          \/ fNoMore' = fNoMore
          \/ altGameCount[a] >= nMinimum /\ fNoMore' = [fNoMore EXCEPT ![a] = TRUE]
          \/ fNoMore' = [fNoMore EXCEPT ![a] = FALSE]
    BY <1>4 DEF JudgeJSD, Judged
  <2>2. altGameCount' = altGameCount BY <1>4, Verdicts1 DEF Verdict
  <2> QED BY <1>1, <2>1, <2>2
<1>5. CASE ~AddResult(t) /\ ~JudgeSTD(t) /\ ~JudgeJSD(t)
  <2>1. ~JudgeBoth(t) /\ ~JudgeCubeJSD(t) BY DEF JudgeBoth, JudgeCubeJSD, Uneven
  <2>2. UNCHANGED <<altGameCount, fNoMore>>
    BY <1>5, <2>1 DEF ThreadStep, NextTrial, TakeTrial, TestTrial, GiveBack, Interrupted, BeginJudging,
       EndJudging, counts
  <2> QED BY <1>1, <2>2
<1> QED BY <1>2, <1>3, <1>4, <1>5

LEMMA StopCall ==
  ASSUME TypeInv, RolloutGeneral
  PROVE  StopInv'
<1> SUFFICES ASSUME ~rollout.cube PROVE \A a \in Alternative : fNoMore'[a] => altGameCount'[a] >= nMinimum
  BY DEF StopInv, RolloutGeneral
<1>1. CASE 0 \in Range(nGamesDone) BY <1>1 DEF RolloutGeneral
<1>2. CASE 0 \notin Range(nGamesDone)
  <2>1. fNoMore' \in Verdicts(nGamesDone) /\ altGameCount' = nGamesDone BY <1>2 DEF RolloutGeneral
  <2> QED BY <2>1 DEF Verdicts
<1> QED BY <1>1, <1>2

-----------------------------------------------------------------------------
(* The alternatives that have not been stopped, and the threads that have    *)
(* taken a number above cGames of theirs.                                    *)

(* An alternative that was stopped does not come back, unless a move that    *)
(* JSDs stopped after its least number of games.                             *)
LEMMA NeverStable ==
  ASSUME TypeInv, NEW t \in Thread, ThreadStep(t), ~rollout.cube, NEW a \in Alternative,
         ~fNoMore'[a], rollout.stop # "JSD" \/ altGameCount'[a] < nMinimum
  PROVE  Never(a)
<1>1. /\ altGameCount \in [Alternative -> Nat] /\ fNoMore \in [Alternative -> BOOLEAN]
      /\ nMinimum \in Nat
  BY Consts DEF TypeInv
<1>2. CASE AddResult(t)
  <2>1. altGameCount' = [altGameCount EXCEPT ![alt[t]] = altGameCount[alt[t]] + 1] /\ fNoMore' = fNoMore
    BY <1>2 DEF AddResult
  <2> QED BY <1>1, <2>1 DEF Never
<1>3. CASE JudgeSTD(t)
  <2>1. PICK b : fNoMore' = fNoMore \/ fNoMore' = [fNoMore EXCEPT ![b] = TRUE]
    BY <1>3 DEF JudgeSTD, Judged
  <2>2. altGameCount' = altGameCount BY <1>3, Verdicts1 DEF Verdict
  <2> QED BY <1>1, <2>1, <2>2 DEF Never
<1>4. CASE JudgeJSD(t)
  <2>1. PICK b \in left :
          \/ fNoMore' = fNoMore
          \/ fNoMore' = [fNoMore EXCEPT ![b] = TRUE]
          \/ altGameCount[b] >= nMinimum /\ fNoMore' = [fNoMore EXCEPT ![b] = FALSE]
    BY <1>4 DEF JudgeJSD, Judged
  <2>2. altGameCount' = altGameCount /\ rollout.stop = "JSD" BY <1>4, Verdicts1 DEF Verdict, JudgeJSD
  <2> QED BY <1>1, <2>1, <2>2 DEF Never
<1>5. CASE ~AddResult(t) /\ ~JudgeSTD(t) /\ ~JudgeJSD(t)
  <2>1. ~JudgeBoth(t) /\ ~JudgeCubeJSD(t) BY DEF JudgeBoth, JudgeCubeJSD, Uneven
  <2>2. UNCHANGED <<altGameCount, fNoMore>>
    BY <1>5, <2>1 DEF ThreadStep, NextTrial, TakeTrial, TestTrial, GiveBack, Interrupted, BeginJudging,
       EndJudging, counts
  <2> QED BY <2>2 DEF Never
<1> QED BY <1>2, <1>3, <1>4, <1>5

LEMMA HighMoves ==
  ASSUME TypeInv, NEW t \in Thread, ThreadStep(t), NEW a \in Alternative
  PROVE  /\ TakeTrial(t) /\ alt[t] = a /\ altTrialCount[a] > cGames =>
              Cardinality(High(a)') = Cardinality(High(a)) + 1
         /\ GiveBack(t) /\ alt[t] = a /\ trial[t] > cGames =>
              t \in High(a) /\ Cardinality(High(a)') = Cardinality(High(a)) - 1
         /\ ~(TakeTrial(t) /\ alt[t] = a /\ altTrialCount[a] > cGames)
              /\ ~(GiveBack(t) /\ alt[t] = a /\ trial[t] > cGames) => High(a)' = High(a)
<1> DEFINE G == {"test", "give_back"}
<1>1. /\ \A u \in Thread \ {t} : pc'[u] = pc[u] /\ alt'[u] = alt[u] /\ trial'[u] = trial[u]
      /\ cGames' = cGames
  BY Alone DEF settings
<1>2. /\ pc \in [Thread -> Place] /\ alt \in [Thread -> Nat] /\ trial \in [Thread -> Int]
      /\ altTrialCount \in [Alternative -> Int] /\ cGames \in Nat
  BY DEF TypeInv
<1>3. High(a) \in SUBSET Thread /\ High(a)' \in SUBSET Thread BY DEF High
<1>4. ASSUME TakeTrial(t), alt[t] = a, altTrialCount[a] > cGames
      PROVE  Cardinality(High(a)') = Cardinality(High(a)) + 1
  <2>1. pc[t] = "take" /\ pc'[t] = "test" /\ alt' = alt /\ trial'[t] = altTrialCount[a]
    BY <1>2, <1>4 DEF TakeTrial, Goto
  <2>2. t \notin High(a) /\ High(a)' = High(a) \cup {t} BY <1>1, <1>4, <2>1 DEF High
  <2> QED BY <1>3, <2>2, Joins
<1>5. ASSUME GiveBack(t), alt[t] = a, trial[t] > cGames
      PROVE  t \in High(a) /\ Cardinality(High(a)') = Cardinality(High(a)) - 1
  <2>1. pc[t] = "give_back" /\ pc'[t] \notin G
    BY <1>2, <1>5 DEF GiveBack, Goto, Advance
  <2>2. t \in High(a) /\ High(a)' = High(a) \ {t} BY <1>1, <1>5, <2>1 DEF High
  <2> QED BY <1>3, <2>2, Leaves
<1>6. ASSUME ~(TakeTrial(t) /\ alt[t] = a /\ altTrialCount[a] > cGames),
             ~(GiveBack(t) /\ alt[t] = a /\ trial[t] > cGames)
      PROVE  High(a)' = High(a)
  <2>1. CASE TakeTrial(t)
    <3>1. pc[t] = "take" /\ alt' = alt /\ trial'[t] = altTrialCount[alt[t]]
      BY <1>2, <2>1 DEF TakeTrial
    <3>2. CASE alt[t] # a BY <1>1, <3>1, <3>2 DEF High
    <3>3. CASE alt[t] = a
      <4>1. ~(trial'[t] > cGames) BY <1>6, <2>1, <3>1, <3>3
      <4> QED BY <1>1, <3>1, <4>1 DEF High
    <3> QED BY <3>2, <3>3
  <2>2. CASE GiveBack(t)
    <3>1. pc'[t] \notin G BY <1>2, <2>2 DEF GiveBack, Goto, Advance
    <3> QED BY <1>1, <1>6, <2>2, <3>1 DEF High
  <2>3. CASE TestTrial(t)
    <3>1. pc[t] = "test" /\ alt' = alt /\ trial' = trial
          /\ pc'[t] \in {"give_back", "roll"} /\ (trial[t] > cGames => pc'[t] = "give_back")
      BY <1>2, <2>3 DEF TestTrial, Goto
    <3> QED BY <1>1, <3>1 DEF High
  <2>4. CASE NextTrial(t) \/ AddResult(t) \/ Interrupted(t) \/ BeginJudging(t) \/ EndJudging(t)
    <3>1. pc[t] \notin G /\ pc'[t] \notin G
      BY <1>2, <2>4 DEF NextTrial, AddResult, Interrupted, BeginJudging, EndJudging, Goto, Advance
    <3> QED BY <1>1, <3>1 DEF High
  <2>5. CASE Verdict(t)
    BY <1>1, <2>5 DEF Verdict, High, local
  <2> QED BY <2>1, <2>2, <2>3, <2>4, <2>5, Verdicts1 DEF ThreadStep
<1> QED BY <1>4, <1>5, <1>6

LEMMA HighThread ==
  ASSUME TypeInv, HighInv, NEW t \in Thread, ThreadStep(t)
  PROVE  HighInv'
<1>1. UNCHANGED <<rollout, cGames>> BY Alone DEF settings
<1> SUFFICES ASSUME ~rollout.cube
             PROVE  /\ \A u \in Thread : pc'[u] = "give_back" /\ Never(alt[u])' => trial'[u] > cGames
                    /\ \A a \in Alternative :
                         Never(a)' /\ High(a)' # {} =>
                           altTrialCount'[a] >= cGames + 1 + Cardinality(High(a)')
  BY <1>1 DEF HighInv
<1>2. /\ \A u \in Thread : pc[u] = "give_back" /\ Never(alt[u]) => trial[u] > cGames
      /\ \A a \in Alternative :
           Never(a) /\ High(a) # {} => altTrialCount[a] >= cGames + 1 + Cardinality(High(a))
  BY DEF HighInv
<1>3. ASSUME NEW a \in Alternative, Never(a)' PROVE Never(a)
  <2>1. ~fNoMore'[a] /\ (rollout.stop # "JSD" \/ altGameCount'[a] < nMinimum) BY <1>1, <1>3 DEF Never
  <2> QED BY <2>1, NeverStable
<1>4. \A u \in Thread : pc'[u] = "give_back" /\ Never(alt[u])' => trial'[u] > cGames
  <2> SUFFICES ASSUME NEW u \in Thread, pc'[u] = "give_back", NEW a, a = alt'[u], Never(a)'
               PROVE  trial'[u] > cGames
    BY DEF Never
  <2>1. pc \in [Thread -> Place] /\ alt \in [Thread -> Nat] BY DEF TypeInv
  <2>2. CASE u # t
    <3>1. pc[u] = "give_back" /\ alt[u] = a /\ trial'[u] = trial[u] BY <2>2, Alone
    <3>2. a \in Alternative BY <3>1 DEF TypeInv, InTrial, Taken
    <3> QED BY <1>2, <1>3, <3>1, <3>2
  <2>3. CASE u = t
    <3>1. TestTrial(t)
      BY <2>1, <2>3, Verdicts1 DEF ThreadStep, NextTrial, TakeTrial, GiveBack, AddResult, Interrupted,
         BeginJudging, EndJudging, Verdict, local, Goto, Advance
    <3>2. alt[t] = a /\ trial'[t] = trial[t] /\ (fNoMore[a] \/ trial[t] > cGames) /\ pc[t] = "test"
      BY <2>1, <2>3, <3>1 DEF TestTrial, Goto
    <3>3. a \in Alternative BY <3>2 DEF TypeInv, InTrial, Taken
    <3> QED BY <1>3, <2>3, <3>2, <3>3 DEF Never
  <2> QED BY <2>2, <2>3
<1>5. ASSUME NEW a \in Alternative, Never(a)', High(a)' # {}
      PROVE  altTrialCount'[a] >= cGames + 1 + Cardinality(High(a)')
  <2>1. Never(a) BY <1>3, <1>5
  <2>2. /\ altTrialCount \in [Alternative -> Int] /\ cGames \in Nat
    BY DEF TypeInv
  <2>3. /\ Cardinality(High(a)) \in Nat /\ Cardinality(High(a)') \in Nat
        /\ (Cardinality(High(a)) = 0 <=> High(a) = {})
    <3>1. High(a) \in SUBSET Thread /\ High(a)' \in SUBSET Thread BY DEF High
    <3> QED BY <3>1, ThreadSets
  <2>4. High(a) # {} => altTrialCount[a] >= cGames + 1 + Cardinality(High(a)) BY <1>2, <2>1
  <2>5. CASE TakeTrial(t) /\ alt[t] = a
    <3>1. altTrialCount'[a] = altTrialCount[a] + 1 BY <2>2, <2>5 DEF TakeTrial
    <3>2. CASE altTrialCount[a] > cGames
      <4>1. Cardinality(High(a)') = Cardinality(High(a)) + 1 BY <2>5, <3>2, HighMoves
      <4> QED BY <2>2, <2>3, <2>4, <3>1, <3>2, <4>1
    <3>3. CASE ~(altTrialCount[a] > cGames)
      <4>1. ~GiveBack(t) BY <2>5 DEF TakeTrial, GiveBack
      <4>2. High(a)' = High(a) BY <3>3, <4>1, HighMoves
      <4> QED BY <1>5, <2>2, <2>3, <2>4, <3>1, <4>2
    <3> QED BY <3>2, <3>3
  <2>6. CASE GiveBack(t) /\ alt[t] = a
    <3>1. altTrialCount'[a] = altTrialCount[a] - 1 /\ pc[t] = "give_back" BY <2>2, <2>6 DEF GiveBack
    <3>2. trial[t] > cGames BY <1>2, <2>1, <2>6, <3>1
    <3>3. t \in High(a) /\ Cardinality(High(a)') = Cardinality(High(a)) - 1 BY <2>6, <3>2, HighMoves
    <3> QED BY <2>2, <2>3, <2>4, <3>1, <3>3
  <2>7. CASE ~(TakeTrial(t) /\ alt[t] = a) /\ ~(GiveBack(t) /\ alt[t] = a)
    <3>1. High(a)' = High(a) BY <2>7, HighMoves
    <3>2. altTrialCount'[a] = altTrialCount[a]
      BY <2>2, <2>7, Verdicts1 DEF ThreadStep, NextTrial, TakeTrial, TestTrial, GiveBack, AddResult,
         Interrupted, BeginJudging, EndJudging, Verdict, counts
    <3> QED BY <1>5, <2>4, <3>1, <3>2
  <2> QED BY <2>5, <2>6, <2>7
<1> QED BY <1>4, <1>5

LEMMA HighCall ==
  ASSUME TypeInv, CallInv, RolloutGeneral
  PROVE  HighInv'
<1>1. \A t \in Thread : pc'[t] \in {"next", "ended"} BY DEF RolloutGeneral, CallInv
<1>2. \A a \in Alternative : High(a)' = {} BY <1>1 DEF High
<1> QED BY <1>1, <1>2 DEF HighInv

-----------------------------------------------------------------------------
(* Each trial of an alternative is played once.                              *)

OnceCase == rollout.stop # "JSD" /\ ~rollout.cube /\ calls <= 1

(* The numbers below altTrialCount, that have been given, and the others.    *)
Played(a, k) ==
  /\ counted[a][k] <= 1
  /\ counted[a][k] > 0 => k <= cGames
  /\ counted[a][k] > 0 /\ ~fNoMore[a] => k < altTrialCount[a]
Rolling(t) == pc[t] = "roll" => counted[alt[t]][trial[t]] = 0
Apart(t, u) == pc[t] = "roll" /\ pc[u] = "roll" /\ t # u /\ alt[t] = alt[u] => trial[t] # trial[u]
Fresh(t) ==
  pc[t] \in Taken /\ ~fNoMore[alt[t]] /\ trial[t] <= cGames =>
    /\ trial[t] < altTrialCount[alt[t]] /\ counted[alt[t]][trial[t]] = 0
    /\ \A u \in Thread : pc[u] \in Taken /\ t # u /\ alt[t] = alt[u] => trial[t] # trial[u]

LEMMA OnceParts ==
  OnceInv <=> (OnceCase => /\ \A a \in Alternative, k \in Trial : Played(a, k)
                           /\ \A t \in Thread : Rolling(t) /\ Fresh(t)
                           /\ \A t, u \in Thread : Apart(t, u))
BY DEF OnceInv, OnceCase, Played, Rolling, Apart, Fresh

(* A step that takes no trial and ends none.                                 *)
LEMMA OnceQuiet ==
  ASSUME TypeInv, OnceInv, OnceCase, OnceCase', UNCHANGED <<counted, altTrialCount, cGames>>,
         \A a \in Alternative : ~fNoMore'[a] => ~fNoMore[a],
         \A u \in Thread : pc'[u] \in Taken =>
           pc[u] \in Taken /\ alt'[u] = alt[u] /\ trial'[u] = trial[u] /\ (pc'[u] = "roll" => pc[u] = "roll")
  PROVE  OnceInv'
<1>1. /\ \A a \in Alternative, k \in Trial : Played(a, k)
      /\ \A t \in Thread : Rolling(t) /\ Fresh(t)
      /\ \A t, u \in Thread : Apart(t, u)
  BY OnceParts
<1>2. \A u \in Thread : pc[u] \in Taken => alt[u] \in Alternative BY DEF TypeInv, InTrial
<1>3. ASSUME NEW a \in Alternative, NEW k \in Trial PROVE Played(a, k)'
  BY <1>1 DEF Played
<1>4. ASSUME NEW t \in Thread PROVE Rolling(t)'
  BY <1>1 DEF Rolling, Taken
<1>5. ASSUME NEW t \in Thread PROVE Fresh(t)'
  BY <1>1, <1>2 DEF Fresh
<1>6. ASSUME NEW t \in Thread, NEW u \in Thread PROVE Apart(t, u)'
  BY <1>1 DEF Apart, Taken
<1>7. /\ \A a \in Alternative, k \in Trial : Played(a, k)'
      /\ \A t \in Thread : Rolling(t)' /\ Fresh(t)'
      /\ \A t, u \in Thread : Apart(t, u)'
  BY <1>3, <1>4, <1>5, <1>6
<1> QED BY <1>7 DEF OnceInv, OnceCase, Played, Rolling, Apart, Fresh

LEMMA OnceTake ==
  ASSUME TypeInv, CallInv, TakenInv, OnceInv, OnceCase, OnceCase', NEW t \in Thread, TakeTrial(t)
  PROVE  OnceInv'
<1>1. /\ \A a \in Alternative, k \in Trial : Played(a, k)
      /\ \A u \in Thread : Rolling(u) /\ Fresh(u)
      /\ \A u, v \in Thread : Apart(u, v)
  BY OnceParts
<1>2. PICK b \in Alternative : b = alt[t] BY DEF TakeTrial, TypeInv, InTrial
<1>3. /\ pc[t] = "take" /\ pc' = [pc EXCEPT ![t] = "test"] /\ alt' = alt
      /\ trial' = [trial EXCEPT ![t] = altTrialCount[b]]
      /\ altTrialCount' = [altTrialCount EXCEPT ![b] = altTrialCount[b] + 1]
      /\ UNCHANGED <<counted, fNoMore, cGames>>
  BY <1>2 DEF TakeTrial, Goto, settings, history
<1>4. /\ pc \in [Thread -> Place] /\ alt \in [Thread -> Nat] /\ trial \in [Thread -> Int]
      /\ altTrialCount \in [Alternative -> Int] /\ cGames \in Nat /\ Trial \subseteq Nat
      /\ counted \in [Alternative -> [Trial -> Nat]]
      /\ \A u \in Thread : pc[u] \in Taken => alt[u] \in Alternative
  BY TrialFacts DEF TypeInv, InTrial
<1>5. altTrialCount[b] >= 0
  <2>1. Out(b) \in SUBSET Thread BY DEF Out
  <2> QED BY <1>2, <2>1, ThreadSets DEF TakenInv, TypeInv
<1>6. ~fNoMore[b] /\ altTrialCount[b] <= cGames => counted[b][altTrialCount[b]] = 0
  <2> SUFFICES ASSUME ~fNoMore[b], altTrialCount[b] <= cGames PROVE counted[b][altTrialCount[b]] = 0
    OBVIOUS
  <2>1. cGames \in TrialCounts
    <3>1. call = "running" BY <1>3 DEF CallInv, TypeInv
    <3> QED BY <3>1 DEF CallInv, TypeInv
  <2>2. altTrialCount[b] \in Trial BY <1>4, <1>5, <2>1, TrialFacts
  <2>3. counted[b][altTrialCount[b]] \in Nat BY <1>4, <2>2
  <2> QED BY <1>1, <1>4, <2>2, <2>3 DEF Played
<1>7. \A a \in Alternative : altTrialCount'[a] >= altTrialCount[a] BY <1>3, <1>4
<1>8. ASSUME NEW a \in Alternative, NEW k \in Trial PROVE Played(a, k)'
  <2>1. k \in Int /\ altTrialCount'[a] \in Int /\ altTrialCount[a] \in Int BY <1>3, <1>4
  <2> QED BY <1>1, <1>3, <1>7, <2>1 DEF Played
<1>9. ASSUME NEW u \in Thread PROVE Rolling(u)'
  BY <1>1, <1>3, <1>4 DEF Rolling
<1>10. ASSUME NEW u \in Thread, NEW v \in Thread PROVE Apart(u, v)'
  BY <1>1, <1>3, <1>4 DEF Apart
<1>11. \A u \in Thread \ {t} : pc'[u] = pc[u] /\ alt'[u] = alt[u] /\ trial'[u] = trial[u]
  BY <1>3, <1>4
<1>12. pc'[t] = "test" /\ alt'[t] = b /\ trial'[t] = altTrialCount[b] /\ altTrialCount'[b] = altTrialCount[b] + 1
  BY <1>2, <1>3, <1>4
<1>13. ASSUME NEW u \in Thread, u # t, pc[u] \in Taken, ~fNoMore[alt[u]], trial[u] <= cGames
       PROVE  /\ trial[u] < altTrialCount'[alt[u]] /\ counted[alt[u]][trial[u]] = 0
              /\ \A v \in Thread : pc'[v] \in Taken /\ u # v /\ alt[u] = alt'[v] => trial[u] # trial'[v]
  <2>1. /\ trial[u] < altTrialCount[alt[u]] /\ counted[alt[u]][trial[u]] = 0
        /\ \A v \in Thread : pc[v] \in Taken /\ u # v /\ alt[u] = alt[v] => trial[u] # trial[v]
    BY <1>1, <1>13 DEF Fresh
  <2>2. alt[u] \in Alternative /\ trial[u] \in Int /\ altTrialCount[alt[u]] \in Int
        /\ altTrialCount'[alt[u]] \in Int
    BY <1>3, <1>4, <1>13
  <2>3. trial[u] < altTrialCount'[alt[u]] BY <1>7, <2>1, <2>2
  <2>4. ASSUME NEW v \in Thread, pc'[v] \in Taken, u # v, alt[u] = alt'[v] PROVE trial[u] # trial'[v]
    <3>1. CASE v = t
      BY <1>4, <1>12, <2>1, <2>2, <2>4, <3>1
    <3>2. CASE v # t BY <1>11, <2>1, <2>4, <3>2
    <3> QED BY <3>1, <3>2
  <2> QED BY <2>1, <2>3, <2>4
<1>14. ASSUME NEW u \in Thread PROVE Fresh(u)'
  <2>1. CASE u # t BY <1>3, <1>11, <1>13, <2>1 DEF Fresh
  <2>2. CASE u = t
    <3> SUFFICES ASSUME ~fNoMore[b], altTrialCount[b] <= cGames
                 PROVE  /\ altTrialCount[b] < altTrialCount[b] + 1 /\ counted[b][altTrialCount[b]] = 0
                        /\ \A v \in Thread : pc'[v] \in Taken /\ t # v /\ b = alt'[v] =>
                             altTrialCount[b] # trial'[v]
      BY <1>3, <1>12, <2>2 DEF Fresh
    <3>1. ASSUME NEW v \in Thread, pc'[v] \in Taken, t # v, b = alt'[v] PROVE altTrialCount[b] # trial'[v]
      <4>1. pc[v] \in Taken /\ alt[v] = b /\ trial'[v] = trial[v] BY <1>11, <3>1
      <4>2. trial[v] \in Int /\ altTrialCount[b] \in Int BY <1>4
      <4>3. trial[v] <= cGames => trial[v] < altTrialCount[b] BY <1>1, <4>1 DEF Fresh
      <4> QED BY <1>4, <4>1, <4>2, <4>3
    <3>2. altTrialCount[b] \in Int BY <1>4
    <3> QED BY <1>6, <3>1, <3>2
  <2> QED BY <2>1, <2>2
<1>15. /\ \A a \in Alternative, k \in Trial : Played(a, k)'
       /\ \A u \in Thread : Rolling(u)' /\ Fresh(u)'
       /\ \A u, v \in Thread : Apart(u, v)'
  BY <1>8, <1>9, <1>10, <1>14
<1> QED BY <1>15 DEF OnceInv, OnceCase, Played, Rolling, Apart, Fresh

LEMMA OnceTest ==
  ASSUME TypeInv, OnceInv, OnceCase, OnceCase', NEW t \in Thread, TestTrial(t)
  PROVE  OnceInv'
<1>1. /\ \A a \in Alternative, k \in Trial : Played(a, k)
      /\ \A u \in Thread : Rolling(u) /\ Fresh(u)
      /\ \A u, v \in Thread : Apart(u, v)
  BY OnceParts
<1>2. /\ pc \in [Thread -> Place] /\ alt \in [Thread -> Nat] /\ trial \in [Thread -> Int] /\ cGames \in Nat
  BY DEF TypeInv
<1>3. /\ UNCHANGED <<counted, altTrialCount, fNoMore, cGames, alt, trial>>
      /\ \A u \in Thread \ {t} : pc'[u] = pc[u]
      /\ pc[t] = "test" /\ pc'[t] \in {"give_back", "roll"}
      /\ pc'[t] = "roll" => ~fNoMore[alt[t]] /\ trial[t] <= cGames
  BY <1>2 DEF TestTrial, Goto, settings, counts, history
<1>4. \A u \in Thread : pc'[u] \in Taken <=> pc[u] \in Taken BY <1>3 DEF Taken
<1>5. ASSUME NEW a \in Alternative, NEW k \in Trial PROVE Played(a, k)'
  BY <1>1, <1>3 DEF Played
<1>6. ASSUME NEW u \in Thread PROVE Rolling(u)'
  BY <1>1, <1>3 DEF Rolling, Fresh, Taken
<1>7. ASSUME NEW u \in Thread PROVE Fresh(u)'
  BY <1>1, <1>3, <1>4 DEF Fresh
<1>8. ASSUME NEW u \in Thread, NEW v \in Thread PROVE Apart(u, v)'
  <2>1. CASE u # t /\ v # t BY <1>1, <1>3, <2>1 DEF Apart
  <2>2. CASE u = t BY <1>1, <1>3, <1>4, <2>2 DEF Apart, Fresh, Taken
  <2>3. CASE v = t BY <1>1, <1>3, <1>4, <2>3 DEF Apart, Fresh, Taken
  <2> QED BY <2>1, <2>2, <2>3
<1>9. /\ \A a \in Alternative, k \in Trial : Played(a, k)'
      /\ \A u \in Thread : Rolling(u)' /\ Fresh(u)'
      /\ \A u, v \in Thread : Apart(u, v)'
  BY <1>5, <1>6, <1>7, <1>8
<1> QED BY <1>9 DEF OnceInv, OnceCase, Played, Rolling, Apart, Fresh

(* A number that is given back was above cGames, and leaves altTrialCount    *)
(* above cGames.                                                             *)
LEMMA OnceGiveBack ==
  ASSUME TypeInv, HighInv, OnceInv, OnceCase, OnceCase', NEW t \in Thread, GiveBack(t)
  PROVE  OnceInv'
<1>1. /\ \A a \in Alternative, k \in Trial : Played(a, k)
      /\ \A u \in Thread : Rolling(u) /\ Fresh(u)
      /\ \A u, v \in Thread : Apart(u, v)
  BY OnceParts
<1>2. /\ pc \in [Thread -> Place] /\ alt \in [Thread -> Nat] /\ trial \in [Thread -> Int]
      /\ altTrialCount \in [Alternative -> Int] /\ cGames \in Nat /\ Trial \subseteq Nat
      /\ counted \in [Alternative -> [Trial -> Nat]]
      /\ \A u \in Thread : pc[u] \in Taken => alt[u] \in Alternative
  BY TrialFacts DEF TypeInv, InTrial
<1>3. PICK b \in Alternative : b = alt[t] BY <1>2 DEF GiveBack, Taken
<1>4. /\ UNCHANGED <<counted, fNoMore, cGames, trial>>
      /\ altTrialCount' = [altTrialCount EXCEPT ![b] = altTrialCount[b] - 1]
      /\ \A u \in Thread \ {t} : pc'[u] = pc[u] /\ alt'[u] = alt[u]
      /\ pc[t] = "give_back" /\ pc'[t] \notin Taken
  BY <1>2, <1>3 DEF GiveBack, Goto, Advance, settings, history, Taken
<1>5. ~fNoMore[b] => altTrialCount[b] - 1 > cGames
  <2> SUFFICES ASSUME ~fNoMore[b] PROVE altTrialCount[b] - 1 > cGames OBVIOUS
  <2>1. Never(b) BY DEF Never, OnceCase
  <2>2. trial[t] > cGames BY <1>3, <1>4, <2>1 DEF HighInv, OnceCase
  <2>3. t \in High(b) BY <1>3, <1>4, <2>2 DEF High
  <2>4. High(b) \in SUBSET Thread BY DEF High
  <2>5. Cardinality(High(b)) \in Nat /\ Cardinality(High(b)) # 0 BY <2>3, <2>4, ThreadSets
  <2>6. altTrialCount[b] >= cGames + 1 + Cardinality(High(b)) BY <2>1, <2>3 DEF HighInv, OnceCase
  <2>7. altTrialCount[b] \in Int BY <1>2
  <2> QED BY <1>2, <2>5, <2>6, <2>7, SMTT(30)
<1>6. \A a \in Alternative : /\ altTrialCount'[a] \in Int /\ altTrialCount[a] \in Int
                             /\ altTrialCount'[a] = altTrialCount[a] \/ fNoMore[a] \/ altTrialCount'[a] > cGames
  BY <1>2, <1>4, <1>5
<1>7. ASSUME NEW a \in Alternative, NEW k \in Trial PROVE Played(a, k)'
  <2>1. k \in Int BY <1>2
  <2>2. k <= cGames /\ altTrialCount'[a] > cGames => k < altTrialCount'[a] BY <1>2, <1>6, <2>1
  <2> QED BY <1>1, <1>4, <1>6, <2>2 DEF Played
<1>8. ASSUME NEW u \in Thread PROVE Rolling(u)'
  BY <1>1, <1>4 DEF Rolling, Taken
<1>9. ASSUME NEW u \in Thread, NEW v \in Thread PROVE Apart(u, v)'
  BY <1>1, <1>4 DEF Apart, Taken
<1>10. ASSUME NEW u \in Thread PROVE Fresh(u)'
  <2> SUFFICES ASSUME pc'[u] \in Taken, ~fNoMore[alt'[u]], trial[u] <= cGames
               PROVE  /\ trial[u] < altTrialCount'[alt'[u]] /\ counted[alt'[u]][trial[u]] = 0
                      /\ \A v \in Thread : pc'[v] \in Taken /\ u # v /\ alt'[u] = alt'[v] =>
                           trial[u] # trial[v]
    BY <1>4 DEF Fresh
  <2>1. pc[u] \in Taken /\ alt'[u] = alt[u] /\ alt[u] \in Alternative BY <1>2, <1>4
  <2>2. /\ trial[u] < altTrialCount[alt[u]] /\ counted[alt[u]][trial[u]] = 0
        /\ \A v \in Thread : pc[v] \in Taken /\ u # v /\ alt[u] = alt[v] => trial[u] # trial[v]
    BY <1>1, <2>1 DEF Fresh
  <2>3. trial[u] < altTrialCount'[alt[u]]
    <3>1. trial[u] \in Int BY <1>2
    <3>2. trial[u] <= cGames /\ altTrialCount'[alt[u]] > cGames => trial[u] < altTrialCount'[alt[u]]
      BY <1>2, <1>6, <2>1, <3>1
    <3> QED BY <1>6, <2>1, <2>2, <3>2
  <2> QED BY <1>4, <2>1, <2>2, <2>3
<1>11. /\ \A a \in Alternative, k \in Trial : Played(a, k)'
       /\ \A u \in Thread : Rolling(u)' /\ Fresh(u)'
       /\ \A u, v \in Thread : Apart(u, v)'
  BY <1>7, <1>8, <1>9, <1>10
<1> QED BY <1>11 DEF OnceInv, OnceCase, Played, Rolling, Apart, Fresh

LEMMA OnceAdd ==
  ASSUME TypeInv, CallInv, TakenInv, OnceInv, OnceCase, OnceCase', NEW t \in Thread, AddResult(t)
  PROVE  OnceInv'
<1>1. /\ \A a \in Alternative, k \in Trial : Played(a, k)
      /\ \A u \in Thread : Rolling(u) /\ Fresh(u)
      /\ \A u, v \in Thread : Apart(u, v)
  BY OnceParts
<1>2. /\ pc \in [Thread -> Place] /\ alt \in [Thread -> Nat] /\ trial \in [Thread -> Int]
      /\ altTrialCount \in [Alternative -> Int] /\ cGames \in Nat /\ Trial \subseteq Nat
      /\ counted \in [Alternative -> [Trial -> Nat]]
      /\ \A u \in Thread : pc[u] \in Taken => alt[u] \in Alternative
  BY TrialFacts DEF TypeInv, InTrial
<1>3. PICK b \in Alternative : b = alt[t] BY <1>2 DEF AddResult, Taken
<1>4. PICK i : i = trial[t] OBVIOUS
<1>5. /\ UNCHANGED <<altTrialCount, fNoMore, cGames, trial>>
      /\ counted' = [counted EXCEPT ![b][i] = @ + 1]
      /\ \A u \in Thread \ {t} : pc'[u] = pc[u] /\ alt'[u] = alt[u]
      /\ pc[t] = "roll" /\ pc'[t] \notin Taken
  BY <1>2, <1>3, <1>4 DEF AddResult, Goto, Advance, settings, history, Taken
<1>6. i \in Trial /\ i <= cGames
  <2>1. cGames \in TrialCounts
    <3>1. call = "running" BY <1>5 DEF CallInv, TypeInv
    <3> QED BY <3>1 DEF CallInv, TypeInv
  <2>2. i \in Int /\ i >= 0 /\ i <= cGames BY <1>2, <1>4, <1>5 DEF TakenInv, Taken
  <2>3. i \in 0..cGames BY <1>2, <2>2
  <2> QED BY <2>1, <2>2, <2>3, TrialFacts
<1>7. counted[b][i] = 0 /\ (~fNoMore[b] => i < altTrialCount[b])
  BY <1>1, <1>3, <1>4, <1>5, <1>6 DEF Rolling, Fresh, Taken
<1>8. /\ counted'[b][i] = 1
      /\ \A a \in Alternative, k \in Trial : a # b \/ k # i => counted'[a][k] = counted[a][k]
  BY <1>2, <1>5, <1>6, <1>7
<1>9. ASSUME NEW a \in Alternative, NEW k \in Trial PROVE Played(a, k)'
  <2>1. CASE a = b /\ k = i BY <1>5, <1>6, <1>7, <1>8, <2>1 DEF Played
  <2>2. CASE a # b \/ k # i BY <1>1, <1>5, <1>8, <2>2 DEF Played
  <2> QED BY <2>1, <2>2
<1>10. \A u \in Thread : pc'[u] \in Taken => u # t /\ pc[u] \in Taken /\ alt'[u] = alt[u] /\ pc'[u] = pc[u]
  BY <1>5
<1>11. ASSUME NEW u \in Thread, pc[u] \in Taken, trial[u] <= cGames PROVE trial[u] \in Trial
  <2>1. cGames \in TrialCounts
    <3>1. call = "running" BY <1>5 DEF CallInv, TypeInv
    <3> QED BY <3>1 DEF CallInv, TypeInv
  <2>2. trial[u] \in 0..cGames BY <1>2, <1>11 DEF TakenInv
  <2> QED BY <2>1, <2>2, TrialFacts
<1>12. ASSUME NEW u \in Thread PROVE Rolling(u)'
  <2> SUFFICES ASSUME pc'[u] = "roll" PROVE counted'[alt[u]][trial[u]] = 0
    BY <1>5, <1>10 DEF Rolling, Taken
  <2>1. u # t /\ pc[u] = "roll" /\ alt[u] \in Alternative BY <1>2, <1>10 DEF Taken
  <2>2. counted[alt[u]][trial[u]] = 0 /\ (alt[u] = b => trial[u] # i)
    BY <1>1, <1>3, <1>4, <1>5, <2>1 DEF Rolling, Apart
  <2>3. trial[u] \in Trial BY <1>11, <2>1 DEF TakenInv, Taken
  <2> QED BY <1>8, <2>1, <2>2, <2>3
<1>13. ASSUME NEW u \in Thread PROVE Fresh(u)'
  <2> SUFFICES ASSUME pc'[u] \in Taken, ~fNoMore[alt'[u]], trial[u] <= cGames
               PROVE  /\ trial[u] < altTrialCount[alt'[u]] /\ counted'[alt'[u]][trial[u]] = 0
                      /\ \A v \in Thread : pc'[v] \in Taken /\ u # v /\ alt'[u] = alt'[v] =>
                           trial[u] # trial[v]
    BY <1>5 DEF Fresh
  <2>1. u # t /\ pc[u] \in Taken /\ alt'[u] = alt[u] /\ alt[u] \in Alternative BY <1>2, <1>10
  <2>2. /\ trial[u] < altTrialCount[alt[u]] /\ counted[alt[u]][trial[u]] = 0
        /\ \A v \in Thread : pc[v] \in Taken /\ u # v /\ alt[u] = alt[v] => trial[u] # trial[v]
    BY <1>1, <2>1 DEF Fresh
  <2>3. alt[u] = b => trial[u] # i BY <1>3, <1>4, <1>5, <2>1, <2>2 DEF Taken
  <2>4. trial[u] \in Trial BY <1>11, <2>1
  <2>5. counted'[alt[u]][trial[u]] = 0 BY <1>8, <2>1, <2>2, <2>3, <2>4
  <2>6. \A v \in Thread : pc'[v] \in Taken => alt'[v] = alt[v] /\ pc[v] \in Taken BY <1>10
  <2> QED BY <2>1, <2>2, <2>5, <2>6
<1>14. ASSUME NEW u \in Thread, NEW v \in Thread PROVE Apart(u, v)'
  BY <1>1, <1>5, <1>10 DEF Apart, Taken
<1>15. /\ \A a \in Alternative, k \in Trial : Played(a, k)'
       /\ \A u \in Thread : Rolling(u)' /\ Fresh(u)'
       /\ \A u, v \in Thread : Apart(u, v)'
  BY <1>9, <1>12, <1>13, <1>14
<1> QED BY <1>15 DEF OnceInv, OnceCase, Played, Rolling, Apart, Fresh

LEMMA OnceThread ==
  ASSUME TypeInv, CallInv, TakenInv, HighInv, OnceInv, NEW t \in Thread, ThreadStep(t)
  PROVE  OnceInv'
<1>1. /\ UNCHANGED <<rollout, calls, cGames>>
      /\ \A u \in Thread \ {t} : pc'[u] = pc[u] /\ alt'[u] = alt[u] /\ trial'[u] = trial[u]
  BY Alone DEF settings
<1>2. CASE ~OnceCase BY <1>1, <1>2 DEF OnceInv, OnceCase
<1>3. CASE OnceCase
  <2>1. OnceCase' BY <1>1, <1>3 DEF OnceCase
  <2>2. CASE TakeTrial(t) BY <1>3, <2>1, <2>2, OnceTake
  <2>3. CASE TestTrial(t) BY <1>3, <2>1, <2>3, OnceTest
  <2>4. CASE GiveBack(t) BY <1>3, <2>1, <2>4, OnceGiveBack
  <2>5. CASE AddResult(t) BY <1>3, <2>1, <2>5, OnceAdd
  <2>6. CASE ~TakeTrial(t) /\ ~TestTrial(t) /\ ~GiveBack(t) /\ ~AddResult(t)
    <3>1. UNCHANGED <<counted, altTrialCount, cGames>>
      BY <1>1, <2>6, Verdicts1 DEF ThreadStep, NextTrial, Interrupted, BeginJudging, EndJudging, Verdict, counts,
         history
    <3>2. \A a \in Alternative : ~fNoMore'[a] => ~fNoMore[a]
      BY <1>3, NeverStable DEF OnceCase, Never
    <3>3. pc'[t] \notin Taken
      <4>1. pc \in [Thread -> Place] BY DEF TypeInv
      <4>2. CASE Verdict(t) BY <4>2 DEF Verdict, local, Taken
      <4>3. CASE ~Verdict(t)
        BY <2>6, <4>1, <4>3, Verdicts1 DEF ThreadStep, NextTrial, Interrupted, BeginJudging, EndJudging,
           Goto, Taken
      <4> QED BY <4>2, <4>3
    <3>4. \A u \in Thread : pc'[u] \in Taken =>
            pc[u] \in Taken /\ alt'[u] = alt[u] /\ trial'[u] = trial[u] /\ (pc'[u] = "roll" => pc[u] = "roll")
      BY <1>1, <3>3
    <3> QED BY <1>3, <2>1, <3>1, <3>2, <3>4, OnceQuiet
  <2> QED BY <2>2, <2>3, <2>4, <2>5, <2>6
<1> QED BY <1>2, <1>3

LEMMA OnceCall ==
  ASSUME TypeInv, CallInv, RolloutGeneral
  PROVE  OnceInv'
<1> SUFFICES ASSUME calls' <= 1 PROVE OnceInv' BY DEF OnceInv
<1>1. \A t \in Thread : pc'[t] \in {"next", "ended"} BY DEF RolloutGeneral, CallInv
<1>2. \A a \in Alternative, k \in Trial : counted'[a][k] = 0
  <2>1. calls = 0 BY DEF RolloutGeneral, TypeInv
  <2> QED BY <2>1 DEF RolloutGeneral, CallInv, history
<1>3. \A a \in Alternative, k \in Trial : ~(counted'[a][k] > 0) /\ counted'[a][k] <= 1 BY <1>2
<1> QED BY <1>1, <1>3 DEF OnceInv, Taken

-----------------------------------------------------------------------------
(* No alternative lags behind the trials that have been begun.               *)

LEMMA BehindMoves ==
  ASSUME TypeInv, NEW t \in Thread, ThreadStep(t), ~Interrupted(t), NEW a \in Alternative
  PROVE  /\ NextTrial(t) /\ ro_NextTrial < cGames => Cardinality(Behind(a)') = Cardinality(Behind(a)) + 1
         /\ TakeTrial(t) /\ alt[t] = a => Cardinality(Behind(a)') = Cardinality(Behind(a)) - 1
         /\ ~(NextTrial(t) /\ ro_NextTrial < cGames) /\ ~(TakeTrial(t) /\ alt[t] = a) =>
              Behind(a)' = Behind(a)
<1>1. \A u \in Thread \ {t} : pc'[u] = pc[u] /\ alt'[u] = alt[u] BY Alone
<1>2. /\ pc \in [Thread -> Place] /\ alt \in [Thread -> Nat] /\ alt[t] \in Nat /\ a \in Nat /\ a >= 1
      /\ a <= nAlternatives /\ ro_NextTrial \in Nat /\ cGames \in Nat /\ nAlternatives \in Nat
      /\ \A u \in Thread : pc[u] \in InTrial => alt[u] \in Alternative
  BY Consts DEF TypeInv, Alternative
<1>3. Behind(a) \in SUBSET Thread /\ Behind(a)' \in SUBSET Thread BY DEF Behind
<1>4. ASSUME NextTrial(t), ro_NextTrial < cGames
      PROVE  Cardinality(Behind(a)') = Cardinality(Behind(a)) + 1
  <2>1. pc[t] = "next" /\ pc'[t] = "take" /\ alt'[t] = 1
    BY <1>2, <1>4 DEF NextTrial, Goto
  <2>2. t \notin Behind(a) /\ Behind(a)' = Behind(a) \cup {t}
    BY <1>1, <1>2, <2>1 DEF Behind, Taken
  <2> QED BY <1>3, <2>2, Joins
<1>5. ASSUME TakeTrial(t), alt[t] = a
      PROVE  Cardinality(Behind(a)') = Cardinality(Behind(a)) - 1
  <2>1. pc[t] = "take" /\ pc'[t] = "test" /\ alt'[t] = a
    BY <1>2, <1>5 DEF TakeTrial, Goto
  <2>2. t \in Behind(a) /\ Behind(a)' = Behind(a) \ {t}
    BY <1>1, <1>2, <1>5, <2>1 DEF Behind, Taken
  <2> QED BY <1>3, <2>2, Leaves
<1>6. ASSUME ~(NextTrial(t) /\ ro_NextTrial < cGames), ~(TakeTrial(t) /\ alt[t] = a)
      PROVE  Behind(a)' = Behind(a)
  <2>1. ASSUME t \in Behind(a)' <=> t \in Behind(a) PROVE Behind(a)' = Behind(a)
    BY <1>1, <2>1 DEF Behind
  <2>2. CASE NextTrial(t)
    <3>1. pc[t] = "next" /\ pc'[t] = "ended" BY <1>2, <1>6, <2>2 DEF NextTrial, Goto
    <3> QED BY <2>1, <3>1 DEF Behind, Taken
  <2>3. CASE TakeTrial(t)
    <3>1. pc[t] = "take" /\ pc'[t] = "test" /\ alt'[t] = alt[t] /\ alt[t] # a
      BY <1>2, <1>6, <2>3 DEF TakeTrial, Goto
    <3>2. alt[t] <= a <=> alt[t] < a BY <1>2, <3>1
    <3> QED BY <2>1, <3>1, <3>2 DEF Behind, Taken
  <2>4. CASE TestTrial(t)
    <3>1. pc[t] \in Taken /\ pc'[t] \in Taken /\ alt'[t] = alt[t] BY <1>2, <2>4 DEF TestTrial, Goto, Taken
    <3>2. pc[t] # "take" /\ pc'[t] # "take" BY <3>1 DEF Taken
    <3> QED BY <2>1, <3>1, <3>2 DEF Behind
  <2>5. CASE GiveBack(t) \/ AddResult(t)
    <3>1. /\ pc[t] \in Taken /\ alt'[t] = alt[t] + 1
          /\ pc'[t] = IF alt[t] < nAlternatives THEN "take" ELSE "judge"
      BY <1>2, <2>5 DEF GiveBack, AddResult, Goto, Advance, Taken
    <3>2. pc[t] # "take" /\ pc'[t] \notin Taken BY <3>1 DEF Taken
    <3>3. alt[t] <= nAlternatives BY <1>2, <3>1 DEF InTrial, Alternative
    <3>4. (alt[t] < nAlternatives /\ alt[t] + 1 <= a) <=> alt[t] < a BY <1>2, <3>3
    <3> QED BY <2>1, <3>1, <3>2, <3>4 DEF Behind
  <2>6. CASE BeginJudging(t) \/ EndJudging(t)
    <3>1. pc[t] \notin InTrial /\ pc'[t] \notin InTrial
      BY <1>2, <2>6 DEF BeginJudging, EndJudging, Goto, InTrial, Taken
    <3> QED BY <2>1, <3>1 DEF Behind, InTrial
  <2>7. CASE Verdict(t)
    BY <2>7 DEF Verdict, Behind, local
  <2> QED BY <1>6, <2>2, <2>3, <2>4, <2>5, <2>6, <2>7, Verdicts1 DEF ThreadStep
<1> QED BY <1>4, <1>5, <1>6

LEMMA SeenTypes ==
  ASSUME TypeInv
  PROVE  /\ \A a \in Alternative : Cardinality(Behind(a)) \in Nat /\ Seen(a) \in Int
                                   /\ Seen(a) >= altTrialCount[a]
         /\ Begun \in Nat /\ Begun <= cGames
<1>1. ASSUME NEW a \in Alternative PROVE Cardinality(Behind(a)) \in Nat
  <2>1. Behind(a) \in SUBSET Thread BY DEF Behind
  <2> QED BY <2>1, ThreadSets
<1>2. ASSUME NEW a \in Alternative PROVE Seen(a) \in Int /\ Seen(a) >= altTrialCount[a]
  <2>1. altTrialCount[a] \in Int BY DEF TypeInv
  <2> QED BY <1>1, <2>1 DEF Seen
<1> QED BY <1>1, <1>2 DEF Begun, TypeInv

LEMMA SeenMoves ==
  ASSUME TypeInv, NEW t \in Thread, ThreadStep(t), ~Interrupted(t), NEW a \in Alternative
  PROVE  /\ NextTrial(t) /\ ro_NextTrial < cGames => Seen(a)' = Seen(a) + 1
         /\ GiveBack(t) /\ alt[t] = a => Seen(a)' = Seen(a) - 1
         /\ ~(NextTrial(t) /\ ro_NextTrial < cGames) /\ ~(GiveBack(t) /\ alt[t] = a) =>
              Seen(a)' = Seen(a)
<1> DEFINE n == Cardinality(Behind(a))  m == Cardinality(Behind(a)')
<1>1. n \in Nat /\ altTrialCount \in [Alternative -> Int] BY SeenTypes DEF TypeInv
<1>2. m \in Nat
  <2>1. Behind(a)' \in SUBSET Thread BY DEF Behind
  <2> QED BY <2>1, ThreadSets
<1>3. Seen(a) = altTrialCount[a] + n /\ Seen(a)' = altTrialCount'[a] + m BY DEF Seen
<1> HIDE DEF n, m
<1>4. CASE NextTrial(t)
  <2>1. altTrialCount' = altTrialCount /\ ~TakeTrial(t) /\ ~GiveBack(t)
    BY <1>4 DEF NextTrial, TakeTrial, GiveBack
  <2>2. ro_NextTrial < cGames => m = n + 1 BY <1>4, BehindMoves DEF n, m
  <2>3. ~(ro_NextTrial < cGames) => m = n BY <2>1, BehindMoves DEF n, m
  <2> QED BY <1>1, <1>2, <1>3, <1>4, <2>1, <2>2, <2>3
<1>5. CASE TakeTrial(t)
  <2>1. /\ altTrialCount' = [altTrialCount EXCEPT ![alt[t]] = altTrialCount[alt[t]] + 1]
        /\ ~NextTrial(t) /\ ~GiveBack(t)
    BY <1>5 DEF NextTrial, TakeTrial, GiveBack
  <2>2. alt[t] = a => m = n - 1 BY <1>5, BehindMoves DEF n, m
  <2>3. alt[t] # a => m = n BY <2>1, BehindMoves DEF n, m
  <2> QED BY <1>1, <1>2, <1>3, <2>1, <2>2, <2>3
<1>6. CASE GiveBack(t)
  <2>1. /\ altTrialCount' = [altTrialCount EXCEPT ![alt[t]] = altTrialCount[alt[t]] - 1]
        /\ ~NextTrial(t) /\ ~TakeTrial(t)
    BY <1>6 DEF NextTrial, TakeTrial, GiveBack
  <2>2. m = n BY <2>1, BehindMoves DEF n, m
  <2> QED BY <1>1, <1>2, <1>3, <1>6, <2>1, <2>2
<1>7. CASE ~NextTrial(t) /\ ~TakeTrial(t) /\ ~GiveBack(t)
  <2>1. altTrialCount' = altTrialCount
    BY <1>7, Verdicts1 DEF ThreadStep, TestTrial, AddResult, Interrupted, BeginJudging, EndJudging, Verdict,
       counts
  <2>2. m = n BY <1>7, BehindMoves DEF n, m
  <2> QED BY <1>1, <1>2, <1>3, <1>7, <2>1, <2>2
<1> QED BY <1>4, <1>5, <1>6, <1>7

LEMMA LagThread ==
  ASSUME TypeInv, CallInv, StopInv, HighInv, LagInv, NEW t \in Thread, ThreadStep(t)
  PROVE  LagInv'
<1>1. UNCHANGED <<rollout, cGames, interrupted, fInterrupt>> BY Alone DEF settings
<1> SUFFICES ASSUME ~rollout.cube, ~interrupted
             PROVE  \A a \in Alternative :
                      /\ Never(a)' => Seen(a)' >= Begun'
                      /\ altGameCount'[a] < nMinimum =>
                           \A b \in Alternative : Seen(b)' <= Seen(a)' /\ (Seen(b)' <= Begun' \/ NoneIn')
  BY <1>1 DEF LagInv
<1>2. ~Interrupted(t) BY DEF Interrupted, CallInv
<1>3. /\ pc \in [Thread -> Place] /\ ro_NextTrial \in Nat /\ cGames \in Nat /\ nMinimum \in Nat
      /\ altGameCount \in [Alternative -> Nat] /\ altTrialCount \in [Alternative -> Int]
      /\ \A u \in Thread : pc[u] \in InTrial => alt[u] \in Alternative
  BY Consts DEF TypeInv
<1>4. \A a \in Alternative :
        /\ Never(a) => Seen(a) >= Begun
        /\ altGameCount[a] < nMinimum =>
             \A b \in Alternative : Seen(b) <= Seen(a) /\ (Seen(b) <= Begun \/ NoneIn)
  BY DEF LagInv
<1>5. ASSUME NEW a \in Alternative, Never(a)' PROVE Never(a)
  <2>1. ~fNoMore'[a] /\ (rollout.stop # "JSD" \/ altGameCount'[a] < nMinimum) BY <1>1, <1>5 DEF Never
  <2> QED BY <2>1, NeverStable
<1>6. ASSUME NEW a \in Alternative, altGameCount'[a] < nMinimum PROVE altGameCount[a] < nMinimum /\ Never(a)
  <2>1. altGameCount[a] < nMinimum
    <3>1. CASE AddResult(t)
      <4>1. altGameCount' = [altGameCount EXCEPT ![alt[t]] = altGameCount[alt[t]] + 1] BY <3>1 DEF AddResult
      <4> QED BY <1>3, <1>6, <4>1
    <3>2. CASE ~AddResult(t)
      <4>1. altGameCount' = altGameCount
        BY <3>2, Verdicts1 DEF ThreadStep, NextTrial, TakeTrial, TestTrial, GiveBack, Interrupted, BeginJudging,
           EndJudging, Verdict, counts
      <4> QED BY <1>6, <4>1
    <3> QED BY <3>1, <3>2
  <2>2. ~fNoMore[a] BY <1>3, <2>1 DEF StopInv
  <2> QED BY <2>1, <2>2 DEF Never
<1>7. /\ \A a \in Alternative : Seen(a) \in Int /\ Seen(a) >= altTrialCount[a]
      /\ Begun \in Nat /\ Begun <= cGames
  BY SeenTypes
<1>8. CASE NextTrial(t) /\ ro_NextTrial < cGames
  <2>1. \A a \in Alternative : Seen(a)' = Seen(a) + 1 BY <1>2, <1>8, SeenMoves
  <2>2. Begun = ro_NextTrial /\ Begun' = ro_NextTrial + 1
    BY <1>1, <1>3, <1>8 DEF NextTrial, Begun
  <2>3. ~NoneIn BY <1>3, <1>8 DEF NoneIn
  <2>4. \A a \in Alternative : Never(a)' => Seen(a)' >= Begun'
    BY <1>3, <1>4, <1>5, <1>7, <2>1, <2>2
  <2>5. ASSUME NEW a \in Alternative, altGameCount'[a] < nMinimum, NEW b \in Alternative
        PROVE  Seen(b)' <= Seen(a)' /\ Seen(b)' <= Begun'
    <3>1. Seen(b) <= Seen(a) /\ Seen(b) <= Begun BY <1>4, <1>6, <2>3, <2>5
    <3>2. Seen(a)' = Seen(a) + 1 /\ Seen(b)' = Seen(b) + 1 BY <2>1
    <3> QED BY <1>3, <1>7, <2>2, <3>1, <3>2
  <2> QED BY <2>4, <2>5
<1>9. ASSUME GiveBack(t), NEW b \in Alternative, b = alt[t], Never(b)
      PROVE  Seen(b) >= cGames + 2
  <2>1. trial[t] > cGames /\ pc[t] = "give_back" BY <1>9 DEF HighInv, GiveBack
  <2>2. t \in High(b) BY <1>9, <2>1 DEF High
  <2>3. High(b) \in SUBSET Thread BY DEF High
  <2>4. Cardinality(High(b)) \in Nat /\ Cardinality(High(b)) # 0 BY <2>2, <2>3, ThreadSets
  <2>5. altTrialCount[b] >= cGames + 1 + Cardinality(High(b)) BY <1>9, <2>2 DEF HighInv
  <2>6. altTrialCount[b] \in Int /\ Seen(b) \in Int /\ Seen(b) >= altTrialCount[b] BY <1>3, <1>7
  <2> QED BY <1>3, <2>4, <2>5, <2>6
<1>10. CASE ~(NextTrial(t) /\ ro_NextTrial < cGames)
  <2>1. Begun' = Begun
    <3>1. CASE NextTrial(t)
      BY <1>1, <1>3, <1>10, <3>1 DEF NextTrial, Begun
    <3>2. CASE ~NextTrial(t)
      <4>1. ro_NextTrial' = ro_NextTrial
        BY <3>2, Verdicts1 DEF ThreadStep, AddResult, TakeTrial, TestTrial, GiveBack, Interrupted, BeginJudging,
           EndJudging, Verdict, counts
      <4> QED BY <1>1, <4>1 DEF Begun
    <3> QED BY <3>1, <3>2
  <2>2. NoneIn => NoneIn' /\ pc[t] \notin InTrial
    <3> SUFFICES ASSUME NoneIn PROVE NoneIn' /\ pc[t] \notin InTrial OBVIOUS
    <3>1. pc[t] \notin InTrial /\ ro_NextTrial >= cGames BY DEF NoneIn
    <3>2. NextTrial(t) \/ BeginJudging(t) \/ EndJudging(t) \/ Verdict(t)
      BY <1>2, <3>1, Verdicts1 DEF ThreadStep, TakeTrial, TestTrial, GiveBack, AddResult, InTrial, Taken
    <3>3. pc'[t] \notin InTrial
      <4>1. CASE NextTrial(t)
        <5>1. ~(ro_NextTrial + 1 <= cGames) BY <1>3, <3>1
        <5> QED BY <1>3, <4>1, <5>1 DEF NextTrial, Goto, InTrial, Taken
      <4>2. CASE BeginJudging(t) \/ EndJudging(t)
        BY <1>3, <4>2 DEF BeginJudging, EndJudging, Goto, InTrial, Taken
      <4>3. CASE Verdict(t) BY <3>1, <4>3 DEF Verdict, local
      <4> QED BY <3>2, <4>1, <4>2, <4>3
    <3>4. ro_NextTrial' >= cGames
      <4>1. NextTrial(t) => ro_NextTrial' = ro_NextTrial + 1 BY DEF NextTrial
      <4>2. BeginJudging(t) \/ EndJudging(t) \/ Verdict(t) => ro_NextTrial' = ro_NextTrial
        BY DEF BeginJudging, EndJudging, Verdict, counts
      <4> QED BY <1>3, <3>1, <3>2, <4>1, <4>2
    <3>5. \A u \in Thread : pc'[u] \notin InTrial BY <3>3, Alone DEF NoneIn
    <3> QED BY <1>1, <3>1, <3>4, <3>5 DEF NoneIn
  <2>3. ASSUME NEW a \in Alternative
        PROVE  Seen(a)' = IF GiveBack(t) /\ alt[t] = a THEN Seen(a) - 1 ELSE Seen(a)
    BY <1>2, <1>10, SeenMoves
  <2>4. ASSUME NEW a \in Alternative, Never(a)' PROVE Seen(a)' >= Begun'
    <3>1. Never(a) /\ Seen(a) >= Begun BY <1>4, <1>5, <2>4
    <3>2. CASE GiveBack(t) /\ alt[t] = a
      <4>1. Seen(a) >= cGames + 2 BY <1>9, <3>1, <3>2
      <4>2. Seen(a)' = Seen(a) - 1 BY <2>3, <3>2
      <4> QED BY <1>3, <1>7, <2>1, <4>1, <4>2
    <3>3. CASE ~(GiveBack(t) /\ alt[t] = a)
      <4>1. Seen(a)' = Seen(a) BY <2>3, <3>3
      <4> QED BY <2>1, <3>1, <4>1
    <3> QED BY <3>2, <3>3
  <2>5. ASSUME NEW a \in Alternative, altGameCount'[a] < nMinimum, NEW b \in Alternative
        PROVE  Seen(b)' <= Seen(a)' /\ (Seen(b)' <= Begun' \/ NoneIn')
    <3>1. /\ Seen(b) <= Seen(a) /\ (Seen(b) <= Begun \/ NoneIn)
          /\ Seen(a) <= Begun \/ NoneIn
          /\ Never(a)
      BY <1>4, <1>6, <2>5
    <3>2. Seen(a) \in Int /\ Seen(b) \in Int BY <1>7
    <3>3. ~(GiveBack(t) /\ alt[t] = a)
      <4> SUFFICES ASSUME GiveBack(t), alt[t] = a PROVE FALSE OBVIOUS
      <4>1. Seen(a) >= cGames + 2 BY <1>9, <3>1
      <4>2. NoneIn BY <1>3, <1>7, <3>1, <3>2, <4>1
      <4> QED BY <2>2, <4>2 DEF GiveBack, InTrial, Taken
    <3>4. Seen(a)' = Seen(a) /\ (Seen(b)' = Seen(b) \/ Seen(b)' = Seen(b) - 1) BY <2>3, <3>3
    <3>5. Seen(b)' <= Seen(b) /\ Seen(b)' \in Int BY <3>2, <3>4
    <3>6. Seen(b)' <= Seen(a)' BY <3>1, <3>2, <3>4, <3>5
    <3>7. Seen(b)' <= Begun' \/ NoneIn' BY <1>7, <2>1, <2>2, <3>1, <3>2, <3>5
    <3> QED BY <3>6, <3>7
  <2> QED BY <2>4, <2>5
<1> QED BY <1>8, <1>10

(* When a rollout is extended the alternatives that have had few games have  *)
(* had equally many, and the first trial is their next, unless they have had *)
(* cGames already.                                                           *)
LEMMA LagCall ==
  ASSUME TypeInv, CallInv, TakenInv, LagInv, RolloutGeneral
  PROVE  LagInv'
<1> SUFFICES ASSUME ~rollout.cube, ~interrupted
             PROVE  \A a \in Alternative :
                      /\ Seen(a)' >= Begun'
                      /\ altGameCount'[a] < nMinimum =>
                           \A b \in Alternative : Seen(b)' <= Seen(a)' /\ (Seen(b)' <= Begun' \/ NoneIn')
  BY DEF LagInv, RolloutGeneral, history
<1>1. /\ \A t \in Thread : pc[t] = "ended" /\ pc'[t] \in {"next", "ended"}
      /\ altTrialCount' = nGamesDone /\ altGameCount' = nGamesDone
      /\ ro_NextTrial' = Min({cGames'} \cup Range(nGamesDone)) /\ cGames' \in TrialCounts
  BY DEF RolloutGeneral, CallInv
<1>2. nGamesDone \in [Alternative -> Nat] /\ cGames' \in Nat /\ altTrialCount \in [Alternative -> Int]
      /\ nMinimum \in Nat
  BY <1>1, TrialFacts, Consts DEF TypeInv
<1>3. ASSUME NEW a \in Alternative
      PROVE  Seen(a) = nGamesDone[a] /\ Seen(a)' = nGamesDone[a] /\ altGameCount[a] = nGamesDone[a]
  <2>1. Behind(a) = {} /\ Behind(a)' = {} /\ Out(a) = {} BY <1>1 DEF Behind, Out, Taken
  <2>2. altTrialCount[a] = altGameCount[a] + 0 /\ nGamesDone[a] = altGameCount[a]
    BY <2>1, FS_EmptySet DEF TakenInv
  <2>3. Cardinality(Behind(a)) = 0 /\ Cardinality(Behind(a)') = 0 BY <2>1, FS_EmptySet
  <2>4. nGamesDone[a] \in Nat BY <1>2
  <2> QED BY <1>1, <2>2, <2>3, <2>4 DEF Seen
<1>4. /\ ro_NextTrial' \in Nat /\ ro_NextTrial' <= cGames'
      /\ \A a \in Alternative : ro_NextTrial' <= nGamesDone[a]
      /\ ro_NextTrial' = cGames' \/ \E c \in Alternative : ro_NextTrial' = nGamesDone[c]
  BY <1>1, <1>2, FirstTrial
<1>5. Begun' = ro_NextTrial' BY <1>2, <1>4 DEF Begun
<1>6. ro_NextTrial' = cGames' => NoneIn'
  BY <1>1, <1>2 DEF NoneIn, InTrial, Taken
<1>7. ASSUME NEW a \in Alternative, nGamesDone[a] < nMinimum, NEW b \in Alternative
      PROVE  nGamesDone[b] <= nGamesDone[a] /\ (nGamesDone[b] <= ro_NextTrial' \/ NoneIn')
  <2>1. \A c, d \in Alternative : nGamesDone[c] < nMinimum => nGamesDone[d] <= nGamesDone[c]
    <3> SUFFICES ASSUME NEW c \in Alternative, NEW d \in Alternative, nGamesDone[c] < nMinimum
                 PROVE  nGamesDone[d] <= nGamesDone[c]
      OBVIOUS
    <3>1. altGameCount[c] < nMinimum BY <1>3
    <3>2. Seen(d) <= Seen(c) BY <3>1 DEF LagInv
    <3> QED BY <1>3, <3>2
  <2>2. nGamesDone[b] <= nGamesDone[a] BY <1>7, <2>1
  <2>3. CASE ro_NextTrial' = cGames' BY <1>6, <2>2, <2>3
  <2>4. ASSUME NEW c \in Alternative, ro_NextTrial' = nGamesDone[c] PROVE nGamesDone[b] <= ro_NextTrial'
    <3>1. nGamesDone[c] <= nGamesDone[a] BY <1>4, <2>4
    <3>2. nGamesDone[c] < nMinimum BY <1>2, <1>7, <3>1
    <3> QED BY <2>1, <2>4, <3>2
  <2> QED BY <1>4, <2>2, <2>3, <2>4
<1> QED BY <1>1, <1>3, <1>4, <1>5, <1>7

LEMMA FirstThread ==
  ASSUME TypeInv, CallInv, FirstInv, NEW t \in Thread, ThreadStep(t)
  PROVE  FirstInv'
<1>1. UNCHANGED <<cGames, calls, interrupted, fInterrupt>> BY Alone DEF settings
<1> SUFFICES ASSUME ~interrupted, calls <= 1, NEW a \in Alternative PROVE Seen(a)' <= Begun'
  BY <1>1 DEF FirstInv
<1>2. ~Interrupted(t) BY DEF Interrupted, CallInv
<1>3. Seen(a) <= Begun BY DEF FirstInv
<1>4. Seen(a) \in Int /\ Begun \in Nat /\ ro_NextTrial \in Nat /\ cGames \in Nat BY SeenTypes DEF TypeInv
<1>5. CASE NextTrial(t) /\ ro_NextTrial < cGames
  <2>1. Seen(a)' = Seen(a) + 1 BY <1>2, <1>5, SeenMoves
  <2>2. Begun = ro_NextTrial /\ Begun' = ro_NextTrial + 1 BY <1>1, <1>4, <1>5 DEF NextTrial, Begun
  <2> QED BY <1>3, <1>4, <2>1, <2>2
<1>6. CASE ~(NextTrial(t) /\ ro_NextTrial < cGames)
  <2>1. Seen(a)' = Seen(a) \/ Seen(a)' = Seen(a) - 1 BY <1>2, <1>6, SeenMoves
  <2>2. Begun' = Begun
    <3>1. CASE NextTrial(t) BY <1>1, <1>4, <1>6, <3>1 DEF NextTrial, Begun
    <3>2. CASE ~NextTrial(t)
      <4>1. ro_NextTrial' = ro_NextTrial
        BY <3>2, Verdicts1 DEF ThreadStep, AddResult, TakeTrial, TestTrial, GiveBack, Interrupted, BeginJudging,
           EndJudging, Verdict, counts
      <4> QED BY <1>1, <4>1 DEF Begun
    <3> QED BY <3>1, <3>2
  <2> QED BY <1>3, <1>4, <2>1, <2>2
<1> QED BY <1>5, <1>6

LEMMA FirstCall ==
  ASSUME TypeInv, CallInv, RolloutGeneral
  PROVE  FirstInv'
<1> SUFFICES ASSUME calls' <= 1, NEW a \in Alternative PROVE Seen(a)' <= Begun' BY DEF FirstInv
<1>1. calls = 0 BY DEF RolloutGeneral, TypeInv
<1>2. /\ \A t \in Thread : pc'[t] \in {"next", "ended"}
      /\ altTrialCount' = nGamesDone /\ nGamesDone \in [Alternative -> Nat] /\ nGamesDone[a] = 0
      /\ ro_NextTrial' = Min({cGames'} \cup Range(nGamesDone)) /\ cGames' \in TrialCounts
  BY <1>1 DEF RolloutGeneral, CallInv, TypeInv
<1>3. Behind(a)' = {} BY <1>2 DEF Behind, Taken
<1>4. Seen(a)' = 0 BY <1>2, <1>3, FS_EmptySet DEF Seen
<1>5. cGames' \in Nat BY <1>2, TrialFacts
<1>6. ro_NextTrial' \in Nat BY <1>2, <1>5, FirstTrial
<1> QED BY <1>4, <1>5, <1>6 DEF Begun

-----------------------------------------------------------------------------
(* The invariant, and what follows from it.                                  *)

RolloutInv ==
  /\ TypeInv /\ CallInv /\ TakenInv /\ JudgeInv /\ EndedInv /\ StopInv /\ HighInv /\ OnceInv /\ LagInv
  /\ FirstInv

LEMMA InitHolds == Init => RolloutInv
<1> SUFFICES ASSUME Init PROVE RolloutInv OBVIOUS
<1>1. /\ \A t \in Thread : pc[t] = "ended" /\ pc[t] \notin InTrial /\ pc[t] \notin Taken
      /\ \A a \in Alternative : /\ altTrialCount[a] = 0 /\ altGameCount[a] = 0 /\ nGamesDone[a] = 0
                                /\ fNoMore[a] = FALSE
      /\ exclusive = {} /\ calls = 0 /\ cGames = 0 /\ ro_NextTrial = 0 /\ call = "idle"
  BY DEF Init, InTrial, Taken
<1>2. \A a \in Alternative, k \in Trial : counted[a][k] = 0 BY DEF Init
<1>3. \A a \in Alternative : Out(a) = {} /\ Behind(a) = {} /\ High(a) = {}
  BY <1>1 DEF Out, Behind, High
<1>4. TypeInv
  <2>1. counted \in [Alternative -> [Trial -> Nat]] BY DEF Init
  <2>2. pc \in [Thread -> Place] BY DEF Init, Place
  <2>3. /\ nGamesDone \in [Alternative -> Nat] /\ altGameCount \in [Alternative -> Nat]
        /\ altTrialCount \in [Alternative -> Int] /\ fNoMore \in [Alternative -> BOOLEAN]
        /\ alt \in [Thread -> Nat] /\ trial \in [Thread -> Int]
    BY DEF Init
  <2>4. rollout \in Rollouts /\ active_alternatives = 0 /\ left = {} BY DEF Init
  <2>5. fInterrupt \in BOOLEAN /\ interrupted \in BOOLEAN BY Zenon DEF Init
  <2> QED BY <1>1, <2>1, <2>2, <2>3, <2>4, <2>5 DEF TypeInv
<1>5. CallInv BY <1>1, <1>2 DEF CallInv, Init
<1>6. TakenInv BY <1>1, <1>3, FS_EmptySet DEF TakenInv, Taken
<1>7. JudgeInv BY <1>1 DEF JudgeInv
<1>8. EndedInv BY <1>1 DEF EndedInv
<1>9. StopInv BY <1>1 DEF StopInv
<1>10. HighInv BY <1>1, <1>3 DEF HighInv
<1>11. OnceInv
  <2>1. \A a \in Alternative, k \in Trial : ~(counted[a][k] > 0) /\ counted[a][k] <= 1 BY <1>2
  <2> QED BY <1>1, <2>1 DEF OnceInv, Taken
<1>12. LagInv
  <2>1. \A a \in Alternative : Seen(a) = 0 BY <1>1, <1>3, FS_EmptySet DEF Seen
  <2>2. Begun = 0 BY <1>1 DEF Begun
  <2> QED BY <2>1, <2>2 DEF LagInv
<1>13. FirstInv
  <2>1. \A a \in Alternative : Seen(a) = 0 BY <1>1, <1>3, FS_EmptySet DEF Seen
  <2>2. Begun = 0 BY <1>1 DEF Begun
  <2> QED BY <2>1, <2>2 DEF FirstInv
<1> QED BY <1>4, <1>5, <1>6, <1>7, <1>8, <1>9, <1>10, <1>11, <1>12, <1>13 DEF RolloutInv

(* Steps that neither start a rollout nor are a thread's.                    *)
LEMMA StillHolds ==
  ASSUME RolloutInv, Interrupt \/ EndRollout \/ UNCHANGED vars
  PROVE  RolloutInv'
<1> USE DEF RolloutInv
<1>1. /\ UNCHANGED <<rollout, calls, cGames, counts, local, judge, counted>>
      /\ call' \in {"idle", "running"} /\ (interrupted => interrupted')
      /\ fInterrupt' \in BOOLEAN /\ interrupted' \in BOOLEAN /\ (fInterrupt' => interrupted')
      /\ fInterrupt => fInterrupt'
      /\ call' = "idle" => \A t \in Thread : pc[t] = "ended"
      /\ calls = 0 => call' = "idle" /\ ~interrupted'
  <2>1. /\ calls \in Nat /\ (calls > 0 \/ calls = 0) /\ fInterrupt \in BOOLEAN /\ interrupted \in BOOLEAN
        /\ call \in {"idle", "running"} /\ (fInterrupt => interrupted)
        /\ calls = 0 => call = "idle" /\ ~interrupted
        /\ call = "idle" => \A t \in Thread : pc[t] = "ended"
    BY DEF TypeInv, CallInv
  <2>2. CASE Interrupt
    BY <2>1, <2>2 DEF Interrupt, settings
  <2>3. CASE EndRollout
    BY <2>1, <2>3 DEF EndRollout, history
  <2>4. CASE UNCHANGED vars
    BY <2>1, <2>4 DEF vars, settings, history
  <2> QED BY <2>2, <2>3, <2>4
<1>2. /\ UNCHANGED <<rollout, calls, cGames, ro_NextTrial, altTrialCount, altGameCount, fNoMore, nGamesDone>>
      /\ UNCHANGED <<pc, alt, trial, active_alternatives, left, exclusive, counted>>
  BY <1>1 DEF counts, local, judge
<1>3. \A a \in Alternative : /\ Out(a)' = Out(a) /\ Behind(a)' = Behind(a) /\ High(a)' = High(a)
                             /\ Seen(a)' = Seen(a) /\ (Never(a)' <=> Never(a))
  BY <1>2 DEF Out, Behind, High, Seen, Never
<1>4. Begun' = Begun /\ (NoneIn' <=> NoneIn) /\ Open' = Open /\ InPlay' = InPlay /\ Needed' = Needed
  BY <1>2 DEF Begun, NoneIn, Open, InPlay, Needed
<1>5. TypeInv' BY <1>1, <1>2 DEF TypeInv
<1>6. CallInv' BY <1>1, <1>2 DEF CallInv
<1>7. TakenInv' BY <1>1, <1>2, <1>3 DEF TakenInv
<1>8. JudgeInv' BY <1>2, <1>4 DEF JudgeInv, CubeLeft
<1>9. EndedInv' BY <1>1, <1>2, <1>4 DEF EndedInv, Reason
<1>10. StopInv' BY <1>2 DEF StopInv
<1>11. HighInv'
  <2>1. \A t \in Thread : pc[t] = "give_back" => alt[t] \in Alternative BY DEF TypeInv, InTrial, Taken
  <2>2. ASSUME NEW t \in Thread, pc'[t] = "give_back", Never(alt[t])', ~rollout.cube PROVE trial'[t] > cGames'
    <3>1. Never(alt[t]) BY <1>2, <2>2 DEF Never
    <3> QED BY <1>2, <2>2, <3>1 DEF HighInv
  <2> QED BY <1>2, <1>3, <2>2 DEF HighInv
<1>12. OnceInv' BY <1>2 DEF OnceInv
<1>13. LagInv' BY <1>1, <1>2, <1>3, <1>4 DEF LagInv
<1>14. FirstInv' BY <1>1, <1>2, <1>3, <1>4 DEF FirstInv
<1> QED BY <1>5, <1>6, <1>7, <1>8, <1>9, <1>10, <1>11, <1>12, <1>13, <1>14

LEMMA Inductive == RolloutInv /\ [Next]_vars => RolloutInv'
<1> SUFFICES ASSUME RolloutInv, [Next]_vars PROVE RolloutInv' OBVIOUS
<1>1. /\ TypeInv /\ CallInv /\ TakenInv /\ JudgeInv /\ EndedInv /\ StopInv /\ HighInv /\ OnceInv
      /\ LagInv /\ FirstInv
  BY DEF RolloutInv
<1>2. CASE RolloutGeneral
  BY <1>1, <1>2, TypeCall, TakenCall, JudgeCall, EndedCall, StopCall, HighCall, OnceCall, LagCall,
     FirstCall DEF RolloutInv
<1>3. ASSUME NEW t \in Thread, ThreadStep(t) PROVE RolloutInv'
  BY <1>1, <1>3, TypeThread, TakenThread, JudgeThread, EndedThread, StopThread, HighThread, OnceThread,
     LagThread, FirstThread DEF RolloutInv
<1>4. CASE Interrupt \/ EndRollout \/ UNCHANGED vars
  BY <1>4, StillHolds
<1> QED BY <1>2, <1>3, <1>4 DEF Next

LEMMA RolloutInvHolds == Spec => []RolloutInv
BY InitHolds, Inductive, PTL DEF Spec

(* Each game of an alternative is played with dice of its own: the trial     *)
(* numbers that the threads take from altTrialCount under no lock but the    *)
(* counter's are never given out twice before the alternative is stopped.    *)
THEOREM EachTrialOnce == Spec => []TrialsOnce
<1>1. RolloutInv => TrialsOnce
  BY DEF RolloutInv, OnceInv, TrialsOnce
<1> QED BY <1>1, RolloutInvHolds, PTL

(* What has been played when all threads have ended.                         *)
LEMMA PlayedEnough ==
  ASSUME RolloutInv, call = "idle", calls > 0, ~rollout.cube, ~interrupted
  PROVE  Complete
<1> USE DEF RolloutInv
<1>1. /\ \A t \in Thread : pc[t] = "ended"
      /\ ~fInterrupt
  BY DEF CallInv
<1>2. Reason BY <1>1 DEF EndedInv
<1>3. /\ altGameCount \in [Alternative -> Nat] /\ fNoMore \in [Alternative -> BOOLEAN]
      /\ cGames \in Nat /\ ro_NextTrial \in Nat /\ nMinimum \in Nat
  BY Consts DEF TypeInv
<1>4. ASSUME NEW a \in Alternative PROVE Seen(a) = altGameCount[a]
  <2>1. Behind(a) = {} /\ Out(a) = {} BY <1>1 DEF Behind, Out, Taken
  <2>2. altTrialCount[a] = altGameCount[a] + 0 BY <2>1, FS_EmptySet DEF TakenInv
  <2>3. Cardinality(Behind(a)) = 0 BY <2>1, FS_EmptySet
  <2> QED BY <1>3, <2>2, <2>3 DEF Seen
<1>5. \A a \in Alternative :
        /\ Never(a) => altGameCount[a] >= Begun
        /\ altGameCount[a] < nMinimum => \A b \in Alternative : altGameCount[b] <= altGameCount[a]
        /\ fNoMore[a] => altGameCount[a] >= nMinimum
  BY <1>4 DEF LagInv, StopInv
<1>6. calls = 1 => \A a \in Alternative : altGameCount[a] <= cGames
  <2>1. Begun <= cGames /\ Begun \in Nat BY SeenTypes
  <2> QED BY <1>3, <1>4, <2>1 DEF FirstInv
<1>7. SUFFICES \A a \in Alternative :
                 /\ altGameCount[a] >= nMinimum \/ altGameCount[a] >= cGames
                 /\ ~fNoMore[a] /\ rollout.stop # "JSD" => altGameCount[a] >= cGames
  <2>1. Min({nMinimum, cGames}) \in {nMinimum, cGames} /\ Min({nMinimum, cGames}) <= nMinimum
        /\ Min({nMinimum, cGames}) <= cGames
    BY <1>3, MinTwo
  <2> QED BY <1>3, <1>7, <1>6, <2>1 DEF Complete
<1>8. CASE ro_NextTrial >= cGames
  <2>1. Begun = cGames BY <1>3, <1>8 DEF Begun
  <2> QED BY <1>3, <1>5, <2>1 DEF Never
<1>9. CASE Cardinality(InPlay) < Needed
  <2>1. InPlay \in SUBSET Alternative /\ IsFiniteSet(InPlay) /\ Cardinality(InPlay) \in Nat
    <3>1. InPlay \in SUBSET Alternative BY DEF InPlay
    <3> QED BY <3>1, Consts, FS_Subset, FS_CardinalityType
  <2>2. CASE rollout.stop # "JSD"
    <3>1. Cardinality(InPlay) = 0 BY <1>9, <2>1, <2>2 DEF Needed
    <3>2. InPlay = {} BY <2>1, <3>1, FS_EmptySet
    <3> QED BY <1>5, <3>2 DEF InPlay
  <2>3. CASE rollout.stop = "JSD"
    <3>1. nAlternatives > 1 BY <2>3, Consts DEF TypeInv
    <3>2. PICK b \in Alternative : fNoMore[b]
      <4> SUFFICES ASSUME \A b \in Alternative : ~fNoMore[b] PROVE FALSE OBVIOUS
      <4>1. InPlay = Alternative BY DEF InPlay
      <4> QED BY <1>9, <2>3, <3>1, <4>1, Consts DEF Needed
    <3>3. altGameCount[b] >= nMinimum BY <1>5, <3>2
    <3>4. \A a \in Alternative : altGameCount[a] >= nMinimum
      <4> SUFFICES ASSUME NEW a \in Alternative, altGameCount[a] < nMinimum PROVE FALSE BY <1>3
      <4>1. altGameCount[b] <= altGameCount[a] BY <1>5
      <4> QED BY <1>3, <3>3, <4>1
    <3> QED BY <2>3, <3>4
  <2> QED BY <2>2, <2>3
<1> QED BY <1>2, <1>8, <1>9 DEF Reason

(* A rollout that ends had a reason to, and has then played what it must and *)
(* no more, in whatever order its threads saw that and left.                 *)
THEOREM RolloutEndsRight == Spec => []EndsRight
<1>1. RolloutInv => EndsForReason
  BY DEF RolloutInv, CallInv, EndedInv, Reason, InPlay, EndsForReason
<1>2. RolloutInv => Complete
  <2>1. CASE call = "idle" /\ calls > 0 /\ ~rollout.cube /\ ~interrupted BY <2>1, PlayedEnough
  <2>2. CASE ~(call = "idle" /\ calls > 0 /\ ~rollout.cube /\ ~interrupted) BY <2>2 DEF Complete
  <2> QED BY <2>1, <2>2
<1> QED BY <1>1, <1>2, RolloutInvHolds, PTL DEF EndsRight

-----------------------------------------------------------------------------
(* The games that have been added up.                                        *)

SumInv == ~rollout.cube => \A a \in Alternative : altGameCount[a] = TotalOf(counted[a])

LEMMA SumThread ==
  ASSUME RolloutInv, SumInv, NEW t \in Thread, ThreadStep(t)
  PROVE  SumInv'
<1> SUFFICES ASSUME ~rollout.cube PROVE \A a \in Alternative : altGameCount'[a] = TotalOf(counted'[a])
  BY Alone DEF SumInv, settings, RolloutInv
<1>1. TypeInv /\ CallInv /\ TakenInv BY DEF RolloutInv
<1>2. \A a \in Alternative : altGameCount[a] = TotalOf(counted[a]) BY DEF SumInv
<1>3. CASE AddResult(t)
  <2>1. PICK b \in Alternative : b = alt[t] BY <1>1, <1>3 DEF AddResult, TypeInv, InTrial, Taken
  <2>2. PICK i \in Trial : i = trial[t]
    <3>1. call = "running" /\ cGames \in TrialCounts /\ cGames \in Nat
      BY <1>1, <1>3 DEF AddResult, CallInv, TypeInv
    <3>2. trial[t] \in 0..cGames BY <1>1, <1>3, <3>1 DEF AddResult, TakenInv, TypeInv, Taken
    <3> QED BY <3>1, <3>2, TrialFacts
  <2>3. /\ altGameCount' = [altGameCount EXCEPT ![b] = altGameCount[b] + 1]
        /\ counted' = [counted EXCEPT ![b][i] = @ + 1]
    BY <1>3, <2>1, <2>2 DEF AddResult
  <2>4. counted \in [Alternative -> [Trial -> Nat]] /\ altGameCount \in [Alternative -> Nat]
    BY <1>1 DEF TypeInv
  <2>5. ASSUME NEW a \in Alternative, a # b PROVE altGameCount'[a] = TotalOf(counted'[a])
    <3>1. counted'[a] = counted[a] /\ altGameCount'[a] = altGameCount[a] BY <2>3, <2>4, <2>5
    <3> QED BY <1>2, <3>1
  <2>6. altGameCount'[b] = TotalOf(counted'[b])
    <3>1. PICK f \in [Trial -> Nat] : f = counted[b] BY <2>4
    <3>2. PICK h : h = counted'[b] OBVIOUS
    <3>3. h \in [Trial -> Nat] BY <2>3, <2>4, <3>2
    <3>4. \A k \in Trial : h[k] = IF k = i THEN f[k] + 1 ELSE f[k] BY <2>3, <2>4, <3>1, <3>2
    <3>5. IsFiniteSet(Trial) BY TrialFacts
    <3>6. TotalOf(h) = TotalOf(f) + 1 BY <3>3, <3>4, <3>5, TotalPlusOne
    <3>7. altGameCount[b] = TotalOf(f) BY <1>2, <3>1
    <3>8. altGameCount'[b] = altGameCount[b] + 1 BY <2>3, <2>4
    <3> QED BY <3>2, <3>6, <3>7, <3>8
  <2> QED BY <2>5, <2>6
<1>4. CASE ~AddResult(t)
  <2>1. UNCHANGED <<altGameCount, counted>>
    BY <1>1, <1>4, Verdicts1 DEF ThreadStep, NextTrial, TakeTrial, TestTrial, GiveBack, Interrupted, BeginJudging,
       EndJudging, Verdict, counts, history
  <2> QED BY <1>2, <2>1
<1> QED BY <1>3, <1>4

(* Between the calls of RolloutGeneral the number by which the saved mean is *)
(* multiplied is the number of games in it.                                  *)
THEOREM MeansWeighed == Spec => []ResultsWeighed
<1>1. Init => SumInv
  <2> SUFFICES ASSUME Init, NEW a \in Alternative PROVE altGameCount[a] = TotalOf(counted[a]) BY DEF SumInv
  <2>1. PICK f : f = counted[a] OBVIOUS
  <2>2. f \in [Trial -> Nat] /\ \A k \in Trial : f[k] = 0 BY <2>1 DEF Init
  <2>3. TotalOf(f) = 0 BY <2>2, TotalZero, TrialFacts
  <2> QED BY <2>1, <2>3 DEF Init
<1>2. RolloutInv /\ SumInv /\ [Next]_vars => SumInv'
  <2> SUFFICES ASSUME RolloutInv, SumInv, [Next]_vars PROVE SumInv' OBVIOUS
  <2>1. CASE RolloutGeneral
    <3>1. UNCHANGED <<rollout, counted>> /\ altGameCount' = nGamesDone
      BY <2>1 DEF RolloutGeneral, history
    <3>2. ~rollout.cube => \A a \in Alternative : nGamesDone[a] = altGameCount[a]
      BY DEF RolloutInv, TakenInv
    <3> QED BY <3>1, <3>2 DEF SumInv
  <2>2. CASE Interrupt \/ EndRollout \/ UNCHANGED vars
    <3>1. UNCHANGED <<rollout, counted, altGameCount>>
      BY <2>2 DEF Interrupt, EndRollout, vars, settings, counts, history
    <3> QED BY <3>1 DEF SumInv
  <2> QED BY <2>1, <2>2, SumThread DEF Next
<1>3. RolloutInv /\ SumInv => ResultsWeighed
  BY DEF RolloutInv, TakenInv, SumInv, ResultsWeighed, GamesAdded, TotalOf
<1> QED BY <1>1, <1>2, <1>3, RolloutInvHolds, PTL DEF Spec

=============================================================================
