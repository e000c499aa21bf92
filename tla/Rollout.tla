------------------------------- MODULE Rollout -------------------------------
(* Rollouts: RolloutGeneral and RolloutLoopMT of rollout.c.  Several         *)
(* alternatives, moves or the two sides of a cube decision, are played out   *)
(* many times; the worker threads share the counters of trials and of games, *)
(* and the flags of the alternatives that need no more games.                *)
(*                                                                           *)
(* The result of a game is left out; whether the errors are small enough, or *)
(* the equities far enough apart, to stop an alternative is a free choice.   *)
(* fInterrupt, the user's Ctrl-C, may come at any time, and a rollout that   *)
(* has ended may be extended, with another number of trials.  MT_Exclusive   *)
(* is held over a whole step here, except while alternatives are judged one  *)
(* by one.                                                                   *)
EXTENDS Integers, FiniteSets, FiniteSetsExt, Functions

CONSTANTS Thread,         \* the workers, each running RolloutLoopMT
          nAlternatives,
          TrialCounts,    \* the values of rcRollout.nTrials
          nMinimum,       \* nMinimumGames or nMinimumJsdGames
          StopRules,      \* "none", "STD" or "JSD": when an alternative may stop
          CubeRollouts,   \* whether it is a cube decision
          MaxCalls        \* how often a rollout is begun or extended (bound)

Alternative == 1..nAlternatives

ASSUME ThreadAssumption == IsFiniteSet(Thread) /\ Thread # {}
ASSUME CountsAssumption == /\ nAlternatives \in Nat \ {0} /\ nMinimum \in Nat /\ MaxCalls \in Nat
                           /\ IsFiniteSet(TrialCounts) /\ TrialCounts # {} /\ TrialCounts \subseteq Nat
ASSUME RolloutsAssumption ==
  /\ StopRules \subseteq {"none", "STD", "JSD"} /\ CubeRollouts \subseteq BOOLEAN
  /\ "JSD" \in StopRules => nAlternatives > 1
  /\ TRUE \in CubeRollouts => nAlternatives = 2

Rollouts == [stop : StopRules, cube : CubeRollouts]

VARIABLES
  rollout,       \* which of Rollouts this one is
  call,          \* RolloutGeneral: "idle" or "running"
  calls,         \* how often it has been called
  cGames, ro_NextTrial, altTrialCount, altGameCount, fNoMore,
  nGamesDone,    \* in the rollout context of each alternative
  fInterrupt,
  exclusive,     \* the threads (at most one) in MT_Exclusive
  pc, alt, trial,            \* of each thread
  active_alternatives, left, \* of the judge: what it has counted, has to judge
  counted,       \* history: how often each trial's game was added up
  interrupted    \* history: whether fInterrupt was ever set

settings == <<rollout, call, calls, cGames>>
counts == <<ro_NextTrial, altTrialCount, altGameCount, fNoMore, nGamesDone>>
local == <<pc, alt, trial>>
judge == <<active_alternatives, left, exclusive>>
history == <<counted, interrupted>>
vars == <<settings, counts, fInterrupt, local, judge, history>>

(* The two sides of a cube decision share their rollout context.             *)
Context(a) == IF rollout.cube THEN Alternative ELSE {a}

Trial == 0..Max(TrialCounts)

Goto(t, l) == pc' = [pc EXCEPT ![t] = l]
Free == exclusive = {}

Init ==
  /\ rollout \in Rollouts
  /\ call = "idle" /\ calls = 0 /\ cGames = 0 /\ ro_NextTrial = 0
  /\ fInterrupt = FALSE /\ interrupted = FALSE
  /\ nGamesDone = [a \in Alternative |-> 0]
  /\ altTrialCount = nGamesDone /\ altGameCount = nGamesDone
  /\ fNoMore = [a \in Alternative |-> FALSE]
  /\ pc = [t \in Thread |-> "ended"] /\ alt = [t \in Thread |-> 1] /\ trial = [t \in Thread |-> 0]
  /\ active_alternatives = 0 /\ left = {} /\ exclusive = {}
  /\ counted = [a \in Alternative |-> [k \in Trial |-> 0]]

(* What check_jsds and check_sds may decide of alternatives that have had    *)
(* `games' games each and are all still in play.                             *)
Verdicts(games) ==
  LET enough(a) == games[a] >= nMinimum IN
  {f \in [Alternative -> BOOLEAN] :
     /\ rollout.stop = "none" => \A a \in Alternative : ~f[a]
     /\ rollout.cube => \A a, b \in Alternative : f[a] = f[b]
     /\ rollout.stop = "JSD" /\ ~rollout.cube => \E best \in Alternative : ~f[best]
     /\ \A a \in Alternative :
          f[a] => enough(IF rollout.cube /\ rollout.stop = "JSD" THEN 1 ELSE a)}

(* The least number of alternatives in play for which a rollout goes on.     *)
Needed == IF rollout.stop = "JSD" THEN 2 ELSE 1

(* Mutant: an extension begins to count the games from zero.                 *)
RolloutForgets ==
  /\ call = "idle" /\ calls < MaxCalls
  /\ calls' = calls + 1 /\ fInterrupt' = FALSE
  /\ cGames' \in TrialCounts
  /\ altTrialCount' = nGamesDone /\ altGameCount' = [a \in Alternative |-> 0]
  /\ ro_NextTrial' = Min({cGames'} \cup Range(nGamesDone))
  /\ fNoMore' = [a \in Alternative |-> FALSE]
  /\ call' = "running" /\ pc' = [t \in Thread |-> "next"]
  /\ UNCHANGED <<rollout, nGamesDone, alt, trial, judge, history>>

(* RolloutGeneral up to MT_WaitForTasks.  If every alternative is extended   *)
(* they are judged before any thread begins, and may need no more games: the *)
(* threads are then not started.  fInterrupt has been cleared when the next  *)
(* command was read.                                                         *)
RolloutGeneral ==
  /\ call = "idle" /\ calls < MaxCalls
  /\ calls' = calls + 1 /\ fInterrupt' = FALSE
  /\ cGames' \in TrialCounts
  /\ altTrialCount' = nGamesDone /\ altGameCount' = nGamesDone
  /\ ro_NextTrial' = Min({cGames'} \cup Range(nGamesDone))
  /\ fNoMore' \in IF 0 \in Range(nGamesDone) THEN {[a \in Alternative |-> FALSE]}
                                             ELSE Verdicts(nGamesDone)
  /\ IF Cardinality({a \in Alternative : ~fNoMore'[a]}) >= Needed
     THEN call' = "running" /\ pc' = [t \in Thread |-> "next"]
     ELSE UNCHANGED <<call, pc>>
  /\ UNCHANGED <<rollout, nGamesDone, alt, trial, judge, history>>

NextTrial(t) ==
  /\ pc[t] = "next"
  /\ ro_NextTrial' = ro_NextTrial + 1
  /\ alt' = [alt EXCEPT ![t] = 1]
  /\ Goto(t, IF ro_NextTrial + 1 <= cGames THEN "take" ELSE "ended")
  /\ UNCHANGED <<settings, altTrialCount, altGameCount, fNoMore, nGamesDone, fInterrupt,
                 trial, judge, history>>

(* The next alternative of the trial, or the judgement after the last one.   *)
Advance(t) ==
  /\ alt' = [alt EXCEPT ![t] = @ + 1]
  /\ Goto(t, IF alt[t] < nAlternatives THEN "take" ELSE "judge")

(* Mutant: the trial is numbered by the games that have ended.               *)
TakeTrialPlayed(t) ==
  /\ pc[t] = "take"
  /\ altTrialCount' = [altTrialCount EXCEPT ![alt[t]] = @ + 1]
  /\ trial' = [trial EXCEPT ![t] = altGameCount[alt[t]]]
  /\ Goto(t, "test")
  /\ UNCHANGED <<settings, ro_NextTrial, altGameCount, fNoMore, nGamesDone, fInterrupt,
                 alt, judge, history>>

TakeTrial(t) ==
  /\ pc[t] = "take"
  /\ altTrialCount' = [altTrialCount EXCEPT ![alt[t]] = @ + 1]
  /\ trial' = [trial EXCEPT ![t] = altTrialCount[alt[t]]]
  /\ Goto(t, "test")
  /\ UNCHANGED <<settings, ro_NextTrial, altGameCount, fNoMore, nGamesDone, fInterrupt,
                 alt, judge, history>>

TestTrial(t) ==
  /\ pc[t] = "test"
  /\ Goto(t, IF fNoMore[alt[t]] \/ trial[t] > cGames THEN "give_back" ELSE "roll")
  /\ UNCHANGED <<settings, counts, fInterrupt, alt, trial, judge, history>>

GiveBack(t) ==
  /\ pc[t] = "give_back"
  /\ altTrialCount' = [altTrialCount EXCEPT ![alt[t]] = @ - 1]
  /\ Advance(t)
  /\ UNCHANGED <<settings, ro_NextTrial, altGameCount, fNoMore, nGamesDone, fInterrupt,
                 trial, judge, history>>

(* BasicCubefulRollout has played the game, and its result is added.         *)
AddResult(t) ==
  LET a == alt[t]
      games == altGameCount[a] + 1
  IN  /\ pc[t] = "roll" /\ ~fInterrupt /\ Free
      /\ altGameCount' = [altGameCount EXCEPT ![a] = games]
      /\ nGamesDone' = [b \in Alternative |->
                          IF b \in Context(a) /\ nGamesDone[b] < games THEN games ELSE nGamesDone[b]]
      /\ counted' = [counted EXCEPT ![a][trial[t]] = @ + 1]
      /\ Advance(t)
      /\ UNCHANGED <<settings, ro_NextTrial, altTrialCount, fNoMore, fInterrupt, trial, judge,
                    interrupted>>

Interrupted(t) ==
  /\ pc[t] \in {"roll", "judge"} /\ fInterrupt
  /\ Goto(t, "ended")
  /\ UNCHANGED <<settings, counts, fInterrupt, alt, trial, judge, history>>

-----------------------------------------------------------------------------
(* After each trial, under MT_Exclusive: check_jsds and check_sds.           *)

BeginJudging(t) ==
  /\ pc[t] = "judge" /\ ~fInterrupt /\ Free
  /\ exclusive' = {t} /\ active_alternatives' = nAlternatives
  /\ CASE rollout.stop = "none" -> left' = {}
       [] rollout.stop = "STD" -> left' = Alternative
       [] rollout.stop = "JSD" -> \E best \in Alternative :
                            left' = IF rollout.cube THEN {1} ELSE Alternative \ {best}
  /\ Goto(t, "judging")
  /\ UNCHANGED <<settings, counts, fInterrupt, alt, trial, history>>

Judged(a, stopped, active) ==
  /\ left' = left \ {a} /\ fNoMore' = stopped /\ active_alternatives' = active
  /\ UNCHANGED <<settings, ro_NextTrial, altTrialCount, altGameCount, nGamesDone, fInterrupt,
                 local, exclusive, history>>

(* check_sds looks at the alternatives in order; one that has stopped stays  *)
(* so.  If only one side of a cube decision is to stop, both go on.          *)
MayStop(a) == ~fNoMore[a] /\ altGameCount[a] >= nMinimum

JudgeSTD(t) ==
  /\ pc[t] = "judging" /\ rollout.stop = "STD" /\ left # {}
  /\ LET a == Min(left) IN
       \/ Judged(a, fNoMore, active_alternatives)
       \/ MayStop(a) /\ Judged(a, [fNoMore EXCEPT ![a] = TRUE], active_alternatives - 1)

Uneven == rollout.cube /\ rollout.stop = "STD" /\ fNoMore[1] # fNoMore[2]

JudgeBoth(t) ==
  /\ pc[t] = "judging" /\ left = {} /\ Uneven
  /\ Judged(0, [a \in Alternative |-> FALSE], 2)

(* check_jsds stops a move that is far worse than the best, and resumes one  *)
(* that is not; a cube decision is stopped as a whole, one side after the    *)
(* other.                                                                    *)
JudgeJSD(t) ==
  /\ pc[t] = "judging" /\ rollout.stop = "JSD" /\ ~rollout.cube
  /\ \E a \in left :
       \/ altGameCount[a] < nMinimum /\ Judged(a, fNoMore, active_alternatives)
       \/ /\ altGameCount[a] >= nMinimum
          /\ \/ Judged(a, [fNoMore EXCEPT ![a] = TRUE], active_alternatives - 1)
             \/ Judged(a, [fNoMore EXCEPT ![a] = FALSE],
                       IF fNoMore[a] THEN active_alternatives + 1 ELSE active_alternatives)

JudgeCubeJSD(t) ==
  /\ pc[t] = "judging" /\ rollout.stop = "JSD" /\ rollout.cube
  /\ \/ left = {1} /\ Judged(1, fNoMore, active_alternatives)
     \/ /\ left = {1} /\ altGameCount[1] >= nMinimum
        /\ fNoMore' = [fNoMore EXCEPT ![1] = TRUE] /\ left' = {2}
        /\ UNCHANGED <<settings, ro_NextTrial, altTrialCount, altGameCount, nGamesDone, fInterrupt,
                       local, exclusive, history, active_alternatives>>
     \/ left = {2} /\ Judged(2, [fNoMore EXCEPT ![2] = TRUE], 0)

(* Mutants: a thread ends with as many alternatives in play as it needs; one *)
(* that ends keeps MT_Exclusive.                                             *)
EndJudgingSoon(t) ==
  /\ pc[t] = "judging" /\ left = {} /\ ~Uneven
  /\ Goto(t, IF active_alternatives <= Needed THEN "ended" ELSE "next")
  /\ exclusive' = {} /\ active_alternatives' = 0
  /\ UNCHANGED <<settings, counts, fInterrupt, alt, trial, left, history>>

EndJudgingKeeps(t) ==
  /\ pc[t] = "judging" /\ left = {} /\ ~Uneven
  /\ IF active_alternatives < Needed THEN Goto(t, "ended") /\ UNCHANGED exclusive
                                     ELSE Goto(t, "next") /\ exclusive' = {}
  /\ active_alternatives' = 0
  /\ UNCHANGED <<settings, counts, fInterrupt, alt, trial, left, history>>

EndJudging(t) ==
  /\ pc[t] = "judging" /\ left = {} /\ ~Uneven
  /\ Goto(t, IF active_alternatives < Needed THEN "ended" ELSE "next")
  /\ exclusive' = {} /\ active_alternatives' = 0
  /\ UNCHANGED <<settings, counts, fInterrupt, alt, trial, left, history>>

-----------------------------------------------------------------------------
Interrupt ==
  /\ call = "running" /\ ~fInterrupt
  /\ fInterrupt' = TRUE /\ interrupted' = TRUE
  /\ UNCHANGED <<settings, counts, local, judge, counted>>

(* MT_WaitForTasks has returned.                                             *)
EndRollout ==
  /\ call = "running" /\ \A t \in Thread : pc[t] = "ended"
  /\ call' = "idle"
  /\ UNCHANGED <<rollout, calls, cGames, counts, fInterrupt, local, judge, history>>

ThreadStep(t) ==
  \/ NextTrial(t) \/ TakeTrial(t) \/ TestTrial(t) \/ GiveBack(t) \/ AddResult(t) \/ Interrupted(t)
  \/ BeginJudging(t) \/ JudgeSTD(t) \/ JudgeBoth(t) \/ JudgeJSD(t) \/ JudgeCubeJSD(t) \/ EndJudging(t)

Next == RolloutGeneral \/ Interrupt \/ EndRollout \/ \E t \in Thread : ThreadStep(t)

Spec == Init /\ [][Next]_vars

(* Every worker is scheduled, and obtains the lock in the end.               *)
Fairness ==
  /\ WF_vars(EndRollout)
  /\ \A t \in Thread : WF_vars(ThreadStep(t)) /\ SF_vars(AddResult(t) \/ BeginJudging(t))

FairSpec == Spec /\ Fairness

-----------------------------------------------------------------------------
GamesAdded(a) == FoldFunction(+, 0, counted[a])

(* When nobody is rolling out, nGamesDone, by which an extension multiplies  *)
(* the saved mean (rollout.c:1410), is the number of games in that mean.     *)
(* The sides of a cube decision share nGamesDone, and may differ.            *)
ResultsWeighed ==
  call = "idle" /\ ~rollout.cube => \A a \in Alternative : nGamesDone[a] = GamesAdded(a)

(* Without resuming and interrupts the threads never play a trial of an      *)
(* alternative twice: every game counts with dice of its own.                *)
TrialsOnce ==
  rollout.stop # "JSD" /\ ~rollout.cube /\ ~interrupted /\ calls = 1 =>
    \A a \in Alternative, k \in Trial : counted[a][k] <= 1

(* A rollout that ends without an interrupt has done its trials or is down   *)
(* to fewer alternatives than it goes on for, whatever the other threads     *)
(* saw when they left.                                                       *)
EndsForReason ==
  call = "idle" /\ calls > 0 /\ ~fInterrupt =>
    ro_NextTrial >= cGames \/ Cardinality({a \in Alternative : ~fNoMore[a]}) < Needed

(* A move is stopped only after the least number of games, and one that is   *)
(* not stopped on its error has all its trials in the end, also if the       *)
(* rollout is extended.  In a first rollout none has more than "the upper     *)
(* bound on trials" (rollout.c:1416); an extension may give it more, since   *)
(* it refuses only a number, counted from 0, that is greater (line 1142).    *)
Complete ==
  call = "idle" /\ calls > 0 /\ ~rollout.cube /\ ~interrupted =>
    \A a \in Alternative :
      /\ altGameCount[a] >= Min({nMinimum, cGames})
      /\ ~fNoMore[a] /\ rollout.stop # "JSD" => altGameCount[a] >= cGames
      /\ calls = 1 => altGameCount[a] <= cGames

(* What holds of a rollout that has ended: why it did, and what it has done. *)
EndsRight == EndsForReason /\ Complete

(* A rollout ends: the threads run out of trials, stop or are interrupted.   *)
RolloutEnds == call = "running" ~> call = "idle"
=============================================================================
