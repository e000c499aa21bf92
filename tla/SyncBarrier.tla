----------------------------- MODULE SyncBarrier -----------------------------
(* MT_SyncStart and MT_SyncEnd of multithread.c, the two barriers that the   *)
(* calibration (speed.c) puts around its timed evaluations.  Each has a      *)
(* static count and a manual-reset event; the last thread to arrive sets the *)
(* event, the last to leave resets it.                                       *)
EXTENDS Integers, FiniteSets

CONSTANTS Thread,      \* the workers, each running one RunEvals task
          MaxTimeouts  \* how often a wait may run out of time (bound)

ASSUME ThreadAssumption == IsFiniteSet(Thread) /\ Thread # {}
ASSUME MaxTimeoutsAssumption == MaxTimeouts \in Nat

N == Cardinality(Thread)
Barrier == {"start", "end"}
Step == {"idle", "arrive", "dec", "store", "set", "wait", "leave", "reset", "evals"}

VARIABLES count,   \* the static count of each barrier
          event,   \* td.syncStart->signalled, td.syncEnd->signalled
          at,      \* the barrier each thread is at, or was last
          step,    \* where in its code each thread is
          temp,    \* what the plain count-- has read
          timeouts \* how many waits have run out of time

vars == <<count, event, at, step, temp, timeouts>>

Init ==
  /\ count = [b \in Barrier |-> 0] /\ event = [b \in Barrier |-> FALSE]
  /\ at = [t \in Thread |-> "end"] /\ step = [t \in Thread |-> "idle"]
  /\ temp = [t \in Thread |-> 0] /\ timeouts = 0

Goto(t, s) == step' = [step EXCEPT ![t] = s]

(* Where a thread goes from barrier b: to the evaluations, or its task ends. *)
Beyond(b) == IF b = "start" THEN "evals" ELSE "idle"

AllIdle == \A t \in Thread : step[t] = "idle"

(* CommandCalibrate begins: MT_SyncInit.                                     *)
MT_SyncInit ==
  /\ AllIdle
  /\ event' = [b \in Barrier |-> FALSE]
  /\ UNCHANGED <<count, at, step, temp, timeouts>>

(* One iteration: mt_add_tasks of one RunEvals per thread.  MT_WaitForTasks  *)
(* has returned from the iteration before.                                   *)
AddRunEvals ==
  /\ AllIdle
  /\ at' = [t \in Thread |-> "start"] /\ step' = [t \in Thread |-> "arrive"]
  /\ UNCHANGED <<count, event, temp, timeouts>>

(* MT_SafeIncValue: the atomic increment, which tells the last to arrive.    *)
Arrive(t) ==
  /\ step[t] = "arrive"
  /\ count' = [count EXCEPT ![at[t]] = @ + 1]
  /\ Goto(t, IF count[at[t]] + 1 = N THEN "dec" ELSE "wait")
  /\ UNCHANGED <<event, at, temp, timeouts>>

(* count--, which is not atomic: a read and a write.                         *)
DecRead(t) ==
  /\ step[t] = "dec"
  /\ temp' = [temp EXCEPT ![t] = count[at[t]]]
  /\ Goto(t, "store")
  /\ UNCHANGED <<count, event, at, timeouts>>

DecStore(t) ==
  /\ step[t] = "store"
  /\ count' = [count EXCEPT ![at[t]] = temp[t] - 1]
  /\ Goto(t, "set")
  /\ UNCHANGED <<event, at, temp, timeouts>>

(* Mutant: the event is not set.                                             *)
SetNothing(t) ==
  /\ step[t] = "set"
  /\ Goto(t, Beyond(at[t]))
  /\ UNCHANGED <<count, event, at, temp, timeouts>>

SetEvent(t) ==
  /\ step[t] = "set"
  /\ event' = [event EXCEPT ![at[t]] = TRUE]
  /\ Goto(t, Beyond(at[t]))
  /\ UNCHANGED <<count, at, temp, timeouts>>

EventSignalled(t) ==
  /\ step[t] = "wait" /\ event[at[t]]
  /\ Goto(t, "leave")
  /\ UNCHANGED <<count, event, at, temp, timeouts>>

(* WaitForManualEvent gives up after ten seconds, and the caller goes on.    *)
EventTimeout(t) ==
  /\ step[t] = "wait" /\ ~event[at[t]]
  /\ timeouts < MaxTimeouts /\ timeouts' = timeouts + 1
  /\ Goto(t, "leave")
  /\ UNCHANGED <<count, event, at, temp>>

(* MT_SafeDecCheck: the atomic decrement, which tells the last to leave.     *)
Leave(t) ==
  /\ step[t] = "leave"
  /\ count' = [count EXCEPT ![at[t]] = @ - 1]
  /\ Goto(t, IF count[at[t]] - 1 = 0 THEN "reset" ELSE Beyond(at[t]))
  /\ UNCHANGED <<event, at, temp, timeouts>>

(* Mutant: the event stays signalled.                                        *)
ResetNothing(t) ==
  /\ step[t] = "reset"
  /\ Goto(t, Beyond(at[t]))
  /\ UNCHANGED <<count, event, at, temp, timeouts>>

ResetEvent(t) ==
  /\ step[t] = "reset"
  /\ event' = [event EXCEPT ![at[t]] = FALSE]
  /\ Goto(t, Beyond(at[t]))
  /\ UNCHANGED <<count, at, temp, timeouts>>

Evaluate(t) ==
  /\ step[t] = "evals"
  /\ at' = [at EXCEPT ![t] = "end"]
  /\ Goto(t, "arrive")
  /\ UNCHANGED <<count, event, temp, timeouts>>

ThreadStep(t) == \/ Arrive(t) \/ DecRead(t) \/ DecStore(t) \/ SetEvent(t) \/ EventSignalled(t)
                 \/ Leave(t) \/ ResetEvent(t) \/ Evaluate(t)

Next == MT_SyncInit \/ AddRunEvals \/ \E t \in Thread : ThreadStep(t) \/ EventTimeout(t)

Spec == Init /\ [][Next]_vars

(* Every worker thread is scheduled; nothing obliges a calibration to begin, *)
(* and no property waits for the ten seconds to pass.                        *)
FairSpec == Spec /\ \A t \in Thread : WF_vars(ThreadStep(t))

-----------------------------------------------------------------------------
Arrived(t, b) == IF b = "start" THEN at[t] = "end" \/ step[t] # "arrive"
                                ELSE at[t] = "end" /\ step[t] # "arrive"
Passed(t, b) == IF b = "start" THEN at[t] = "end" \/ step[t] = "evals"
                               ELSE at[t] = "end" /\ step[t] = "idle"

(* "Wait for all threads to get here": no thread is past a barrier while     *)
(* another thread has still to arrive at it, so that the timed evaluations   *)
(* of an iteration run together.  (Here and below: unless one of them was    *)
(* ever ten seconds late.)                                                   *)
Together ==
  timeouts = 0 => \A b \in Barrier : \A t, u \in Thread : Passed(t, b) => Arrived(u, b)

(* Between iterations the barriers are as MT_SyncInit left them, so that the *)
(* next iteration can use them: nobody is counted and no event is signalled. *)
(* (A thread that is alone leaves the event signalled, but waits for none.)  *)
Reusable ==
  timeouts = 0 /\ AllIdle => \A b \in Barrier : count[b] = 0 /\ (event[b] => N = 1)

(* The barriers hold the threads together, again and again.                  *)
BarrierInv == Together /\ Reusable

(* An iteration ends: no thread is left waiting at a barrier for the others. *)
IterationEnds == ~AllIdle ~> AllIdle \/ timeouts > 0
=============================================================================
