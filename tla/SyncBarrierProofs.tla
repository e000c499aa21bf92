-------------------------- MODULE SyncBarrierProofs --------------------------
(* Proofs about SyncBarrier, for any number of threads and of timeouts.      *)
EXTENDS SyncBarrier, FiniteSetTheorems, TLAPS

USE ThreadAssumption, MaxTimeoutsAssumption

TypeOK ==
  /\ count \in [Barrier -> Int] /\ event \in [Barrier -> BOOLEAN]
  /\ at \in [Thread -> Barrier] /\ step \in [Thread -> Step]
  /\ temp \in [Thread -> Int] /\ timeouts \in Nat

-----------------------------------------------------------------------------
(* The inductive invariant, as long as no wait has run out of time.          *)

(* The threads that barrier b counts, and their number is what it counts.    *)
Counted(b) == {t \in Thread : at[t] = b /\ step[t] \in {"dec", "store", "wait", "leave"}}
CountInv == \A b \in Barrier : count[b] = Cardinality(Counted(b))

(* While the last to arrive is about to open the barrier all others wait, so *)
(* that its count--, which is not atomic, overlaps with no other access.     *)
Last == {"dec", "store", "set"}
LastInv ==
  \A t \in Thread :
    /\ step[t] \in Last => \A u \in Thread \ {t} : at[u] = at[t] /\ step[u] = "wait"
    /\ step[t] = "store" => temp[t] = count[at[t]]

(* A barrier whose event is signalled has let everybody in, and somebody has *)
(* still to leave it who will reset the event or leaves it to another.       *)
Open(b) ==
  /\ \A t \in Thread : Arrived(t, b) /\ (at[t] = b => step[t] \notin Last)
  /\ \E t \in Thread : at[t] = b /\ step[t] \in {"wait", "leave", "reset"}
OpenInv == \A b \in Barrier : event[b] => N = 1 \/ Open(b)

(* Threads leave while the event is signalled; the one that resets it is the *)
(* last of them.                                                             *)
LeaveInv ==
  \A t \in Thread :
    /\ step[t] \in {"leave", "reset"} => event[at[t]]
    /\ step[t] = "reset" =>
         \A u \in Thread \ {t} : at[u] = at[t] => step[u] \notin {"dec", "store", "wait", "leave", "reset"}

PlaceInv ==
  \A t \in Thread : /\ step[t] = "evals" => at[t] = "start"
                    /\ step[t] = "idle" => at[t] = "end"

InTime == CountInv /\ LastInv /\ OpenInv /\ LeaveInv /\ PlaceInv /\ Together
IInv == TypeOK /\ (timeouts = 0 => InTime)

-----------------------------------------------------------------------------
LEMMA BarrierFacts ==
  /\ N \in Nat \ {0}
  /\ \A b \in Barrier : IsFiniteSet(Counted(b)) /\ Cardinality(Counted(b)) \in Nat
<1>1. N \in Nat /\ N # 0
  BY FS_CardinalityType, FS_EmptySet DEF N
<1>2. ASSUME NEW b \in Barrier
      PROVE  IsFiniteSet(Counted(b)) /\ Cardinality(Counted(b)) \in Nat
  <2>1. Counted(b) \subseteq Thread BY DEF Counted
  <2>2. IsFiniteSet(Counted(b)) BY <2>1, FS_Subset
  <2> QED BY <2>2, FS_CardinalityType
<1> QED BY <1>1, <1>2

(* A thread that is not alone.                                               *)
LEMMA Others ==
  ASSUME NEW t \in Thread, N # 1
  PROVE  \E u \in Thread : u # t
<1>1. Thread # {t} BY FS_Singleton DEF N
<1> QED BY <1>1

LEMMA TypeInit == Init => TypeOK
BY DEF Init, TypeOK, Barrier, Step

LEMMA TypeNext == TypeOK /\ [Next]_vars => TypeOK'
<1> SUFFICES ASSUME TypeOK, [Next]_vars PROVE TypeOK'
  OBVIOUS
<1> USE DEF TypeOK, Goto, Beyond, Barrier, Step
<1>1. CASE UNCHANGED vars BY <1>1 DEF vars
<1>2. CASE MT_SyncInit BY <1>2 DEF MT_SyncInit
<1>3. CASE AddRunEvals BY <1>3 DEF AddRunEvals
<1>4. ASSUME NEW t \in Thread, ThreadStep(t) \/ EventTimeout(t) PROVE TypeOK'
  <2>1. CASE Arrive(t) BY <2>1 DEF Arrive
  <2>2. CASE DecRead(t) BY <2>2 DEF DecRead
  <2>3. CASE DecStore(t) BY <2>3 DEF DecStore
  <2>4. CASE SetEvent(t) BY <2>4 DEF SetEvent
  <2>5. CASE EventSignalled(t) BY <2>5 DEF EventSignalled
  <2>6. CASE EventTimeout(t) BY <2>6 DEF EventTimeout
  <2>7. CASE Leave(t) BY <2>7 DEF Leave
  <2>8. CASE ResetEvent(t) BY <2>8 DEF ResetEvent
  <2>9. CASE Evaluate(t) BY <2>9 DEF Evaluate
  <2> QED BY <1>4, <2>1, <2>2, <2>3, <2>4, <2>5, <2>6, <2>7, <2>8, <2>9 DEF ThreadStep
<1> QED BY <1>1, <1>2, <1>3, <1>4 DEF Next

-----------------------------------------------------------------------------
(* How a step of thread t changes the set of those its barrier counts.       *)
LEMMA CountedKept ==
  ASSUME TypeOK, CountInv, NEW t \in Thread, NEW s, Goto(t, s), UNCHANGED <<at, count>>,
         step[t] \in {"dec", "store", "wait", "leave"} <=> s \in {"dec", "store", "wait", "leave"}
  PROVE  CountInv'
<1>1. \A b \in Barrier : Counted(b)' = Counted(b)
  BY DEF Counted, Goto, TypeOK
<1> QED BY <1>1 DEF CountInv

LEMMA CountedMore ==
  ASSUME TypeOK, CountInv, NEW t \in Thread, NEW s \in {"dec", "wait"}, Goto(t, s), UNCHANGED at,
         step[t] = "arrive", count' = [count EXCEPT ![at[t]] = @ + 1]
  PROVE  CountInv'
<1>1. \A b \in Barrier : Counted(b)' = IF b = at[t] THEN Counted(b) \cup {t} ELSE Counted(b)
  BY DEF Counted, Goto, TypeOK
<1>2. t \notin Counted(at[t]) /\ at[t] \in Barrier BY DEF Counted, TypeOK
<1>3. Cardinality(Counted(at[t]) \cup {t}) = Cardinality(Counted(at[t])) + 1
  BY <1>2, BarrierFacts, FS_AddElement
<1> QED BY <1>1, <1>3 DEF CountInv, TypeOK

LEMMA CountedLess ==
  ASSUME TypeOK, CountInv, NEW t \in Thread, NEW s, s \notin {"dec", "store", "wait", "leave"},
         Goto(t, s), UNCHANGED at, step[t] \in {"dec", "store", "wait", "leave"},
         count' = [count EXCEPT ![at[t]] = count[at[t]] - 1]
  PROVE  CountInv'
<1>1. \A b \in Barrier : Counted(b)' = IF b = at[t] THEN Counted(b) \ {t} ELSE Counted(b)
  BY DEF Counted, Goto, TypeOK
<1>2. t \in Counted(at[t]) /\ at[t] \in Barrier BY DEF Counted, TypeOK
<1>3. Cardinality(Counted(at[t]) \ {t}) = Cardinality(Counted(at[t])) - 1
  BY <1>2, BarrierFacts, FS_RemoveElement
<1> QED BY <1>1, <1>3 DEF CountInv, TypeOK

(* The last to arrive finds all others waiting at an event that is not       *)
(* signalled, and so has the barrier to itself until it has signalled it.    *)
LEMMA LastArrives ==
  ASSUME TypeOK, InTime, NEW t \in Thread, step[t] = "arrive", count[at[t]] + 1 = N
  PROVE  \A u \in Thread \ {t} : at[u] = at[t] /\ step[u] = "wait"
<1> DEFINE b == at[t]
<1>1. b \in Barrier BY DEF TypeOK
<1>2. t \notin Counted(b) /\ Counted(b) \cup {t} \subseteq Thread BY DEF Counted
<1>3. Cardinality(Counted(b) \cup {t}) = Cardinality(Thread)
  <2>1. Cardinality(Counted(b) \cup {t}) = Cardinality(Counted(b)) + 1
    BY <1>1, <1>2, BarrierFacts, FS_AddElement
  <2> QED BY <1>1, <2>1 DEF InTime, CountInv, N
<1>4. Counted(b) \cup {t} = Thread BY <1>2, <1>3, FS_Subset
<1>5. ASSUME NEW u \in Thread \ {t} PROVE at[u] = b /\ step[u] = "wait"
  <2>1. at[u] = b /\ step[u] \in {"dec", "store", "wait", "leave"} BY <1>4 DEF Counted
  <2>2. step[u] \notin Last BY DEF InTime, LastInv, Last
  <2>3. N # 1 BY FS_Singleton DEF N
  <2>4. ~event[b] BY <1>1, <2>3 DEF InTime, OpenInv, Open, Arrived, Barrier
  <2>5. step[u] # "leave" BY <2>1, <2>4 DEF InTime, LeaveInv
  <2> QED BY <2>1, <2>2, <2>5 DEF Last
<1> QED BY <1>5

(* While it has, the event is not signalled.                                 *)
LEMMA LastCloses ==
  ASSUME TypeOK, InTime, NEW t \in Thread, step[t] \in Last \cup {"arrive"}, N # 1
  PROVE  ~event[at[t]]
BY DEF TypeOK, InTime, OpenInv, Open, Arrived, Barrier, Last

LEMMA StepArrive ==
  ASSUME TypeOK, InTime, timeouts = 0, NEW t \in Thread, Arrive(t)
  PROVE  InTime'
<1> USE DEF TypeOK, Goto
<1>1. at[t] \in Barrier /\ step[t] = "arrive" /\ UNCHANGED <<at, event, temp>>
  BY DEF Arrive
<1>2. PICK s \in {"dec", "wait"} : Goto(t, s) /\ (s = "dec" <=> count[at[t]] + 1 = N)
  BY DEF Arrive
<1>3. /\ \A u \in Thread : step'[u] = IF u = t THEN s ELSE step[u]
      /\ \A u \in Thread : step[u] \in Last => u # t
  BY <1>1, <1>2 DEF Last
<1>4. CountInv' BY <1>1, <1>2, CountedMore DEF InTime, Arrive
<1>5. \A u \in Thread : step[u] \notin Last
  BY <1>1, <1>3 DEF InTime, LastInv
<1>6. LastInv'
  BY <1>1, <1>2, <1>3, <1>5, LastArrives DEF LastInv, Last
<1>7. OpenInv'
  <2> SUFFICES ASSUME NEW b \in Barrier, event[b], N # 1 PROVE Open(b)'
    BY <1>1 DEF OpenInv
  <2>1. Open(b) BY DEF InTime, OpenInv
  <2>2. b # at[t] BY <2>1, LastCloses, <1>1
  <2> QED BY <1>1, <1>3, <2>1, <2>2 DEF Open, Arrived, Barrier
<1>8. LeaveInv'
  <2>1. ASSUME NEW u \in Thread \ {t} PROVE ~event[at[t]]
    BY <1>1, LastCloses, FS_Singleton DEF N
  <2> QED BY <1>1, <1>3, <2>1 DEF InTime, LeaveInv
<1>9. PlaceInv' BY <1>1, <1>2, <1>3 DEF InTime, PlaceInv
<1>10. Together'
  BY <1>1, <1>2, <1>3 DEF InTime, Together, Passed, Arrived, Barrier
<1> QED BY <1>4, <1>6, <1>7, <1>8, <1>9, <1>10 DEF InTime

LEMMA StepDecRead ==
  ASSUME TypeOK, InTime, timeouts = 0, NEW t \in Thread, DecRead(t)
  PROVE  InTime'
<1>1. /\ step[t] = "dec" /\ UNCHANGED <<at, event, count>> /\ Goto(t, "store")
      /\ temp' = [temp EXCEPT ![t] = count[at[t]]]
  BY DEF DecRead
<1>2. \A u \in Thread : step'[u] = IF u = t THEN "store" ELSE step[u]
  BY <1>1 DEF Goto, TypeOK
<1>3. CountInv' BY <1>1, CountedKept DEF InTime
<1>4. LastInv' BY <1>1, <1>2 DEF InTime, LastInv, Last, TypeOK
<1>5. OpenInv' BY <1>1, <1>2 DEF InTime, OpenInv, Open, Arrived, Last, Barrier
<1>6. LeaveInv' BY <1>1, <1>2 DEF InTime, LeaveInv
<1>7. PlaceInv' BY <1>1, <1>2 DEF InTime, PlaceInv
<1>8. Together' BY <1>1, <1>2 DEF InTime, Together, Passed, Arrived, Barrier
<1> QED BY <1>3, <1>4, <1>5, <1>6, <1>7, <1>8 DEF InTime

LEMMA StepDecStore ==
  ASSUME TypeOK, InTime, timeouts = 0, NEW t \in Thread, DecStore(t)
  PROVE  InTime'
<1>1. /\ step[t] = "store" /\ UNCHANGED <<at, event, temp>> /\ Goto(t, "set")
      /\ count' = [count EXCEPT ![at[t]] = temp[t] - 1] /\ temp[t] = count[at[t]]
  BY DEF DecStore, InTime, LastInv
<1>2. \A u \in Thread : step'[u] = IF u = t THEN "set" ELSE step[u]
  BY <1>1 DEF Goto, TypeOK
<1>3. CountInv' BY <1>1, CountedLess DEF InTime
<1>4. LastInv' BY <1>1, <1>2 DEF InTime, LastInv, Last, TypeOK
<1>5. OpenInv' BY <1>1, <1>2 DEF InTime, OpenInv, Open, Arrived, Last, Barrier
<1>6. LeaveInv' BY <1>1, <1>2 DEF InTime, LeaveInv
<1>7. PlaceInv' BY <1>1, <1>2 DEF InTime, PlaceInv
<1>8. Together' BY <1>1, <1>2 DEF InTime, Together, Passed, Arrived, Barrier
<1> QED BY <1>3, <1>4, <1>5, <1>6, <1>7, <1>8 DEF InTime

LEMMA StepSet ==
  ASSUME TypeOK, InTime, timeouts = 0, NEW t \in Thread, SetEvent(t)
  PROVE  InTime'
<1> DEFINE b == at[t]
<1>1. /\ step[t] = "set" /\ UNCHANGED <<at, count, temp>> /\ Goto(t, Beyond(b))
      /\ event' = [event EXCEPT ![b] = TRUE] /\ b \in Barrier
  BY DEF SetEvent, TypeOK
<1>2. \A u \in Thread : step'[u] = IF u = t THEN Beyond(b) ELSE step[u]
  BY <1>1 DEF Goto, TypeOK
<1>3. Beyond(b) \in {"evals", "idle"} BY DEF Beyond
<1>4. \A u \in Thread \ {t} : at[u] = b /\ step[u] = "wait"
  BY <1>1 DEF InTime, LastInv, Last
<1>5. CountInv' BY <1>1, <1>3, CountedKept DEF InTime
<1>6. LastInv' BY <1>1, <1>2, <1>3, <1>4 DEF LastInv, Last
<1>7. OpenInv'
  <2> SUFFICES ASSUME NEW c \in Barrier, event'[c], N # 1 PROVE Open(c)'
    BY DEF OpenInv
  <2>1. CASE c = b
    <3>1. PICK u \in Thread : u # t BY Others
    <3> QED BY <1>1, <1>2, <1>4, <2>1, <3>1 DEF Open, Arrived, Barrier, Last, Beyond
  <2>2. CASE c # b
    <3>1. event[c] BY <1>1, <2>2 DEF TypeOK
    <3>2. \E u \in Thread : at[u] = c /\ step[u] \in {"wait", "leave", "reset"}
      BY <3>1 DEF InTime, OpenInv, Open
    <3> QED BY <1>1, <1>4, <2>2, <3>2
  <2> QED BY <2>1, <2>2
<1>8. LeaveInv' BY <1>1, <1>2, <1>3, <1>4 DEF LeaveInv
<1>9. PlaceInv' BY <1>1, <1>2 DEF InTime, PlaceInv, Beyond, Barrier
<1>10. Together' BY <1>1, <1>2, <1>4 DEF Together, Passed, Arrived, Beyond, Barrier
<1> QED BY <1>5, <1>6, <1>7, <1>8, <1>9, <1>10 DEF InTime

LEMMA StepSignalled ==
  ASSUME TypeOK, InTime, timeouts = 0, NEW t \in Thread, EventSignalled(t)
  PROVE  InTime'
<1>1. /\ step[t] = "wait" /\ event[at[t]] /\ UNCHANGED <<at, event, count, temp>>
      /\ Goto(t, "leave") /\ at[t] \in Barrier
  BY DEF EventSignalled, TypeOK
<1>2. \A u \in Thread : step'[u] = IF u = t THEN "leave" ELSE step[u]
  BY <1>1 DEF Goto, TypeOK
<1>3. \A u \in Thread \ {t} : at[u] = at[t] => step[u] \notin Last
  <2>1. ASSUME NEW u \in Thread \ {t} PROVE N # 1
    BY FS_Singleton DEF N
  <2> QED BY <1>1, <2>1 DEF InTime, OpenInv, Open
<1>4. CountInv' BY <1>1, CountedKept DEF InTime
<1>5. LastInv' BY <1>1, <1>2, <1>3 DEF InTime, LastInv, Last
<1>6. OpenInv' BY <1>1, <1>2 DEF InTime, OpenInv, Open, Arrived, Last, Barrier
<1>7. LeaveInv' BY <1>1, <1>2 DEF InTime, LeaveInv
<1>8. PlaceInv' BY <1>1, <1>2 DEF InTime, PlaceInv
<1>9. Together' BY <1>1, <1>2 DEF InTime, Together, Passed, Arrived, Barrier
<1> QED BY <1>4, <1>5, <1>6, <1>7, <1>8, <1>9 DEF InTime

(* The last to leave is the one that resets the event.                       *)
LEMMA StepLeave ==
  ASSUME TypeOK, InTime, timeouts = 0, NEW t \in Thread, Leave(t)
  PROVE  InTime'
<1> DEFINE b == at[t]
<1>1. /\ step[t] = "leave" /\ UNCHANGED <<at, event, temp>> /\ b \in Barrier
      /\ count' = [count EXCEPT ![b] = count[b] - 1] /\ event[b]
  BY DEF Leave, TypeOK, InTime, LeaveInv
<1>2. PICK s : /\ Goto(t, s) /\ s = IF count[b] - 1 = 0 THEN "reset" ELSE Beyond(b)
               /\ s \in {"reset", "evals", "idle"}
  BY DEF Leave, Beyond
<1>3. \A u \in Thread : step'[u] = IF u = t THEN s ELSE step[u]
  BY <1>2 DEF Goto, TypeOK
<1>4. CountInv' BY <1>1, <1>2, CountedLess DEF InTime
<1>5. Counted(b)' = {} <=> count[b] - 1 = 0
  <2>1. IsFiniteSet(Counted(b)')
    <3>1. Counted(b)' \subseteq Thread BY DEF Counted
    <3> QED BY <3>1, FS_Subset
  <2>2. Cardinality(Counted(b)') = count[b] - 1 BY <1>1, <1>4 DEF CountInv, TypeOK
  <2> QED BY <2>1, <2>2, FS_EmptySet
<1>6. \A u \in Thread \ {t} : at[u] = b => step[u] \notin Last
  <2>1. ASSUME NEW u \in Thread \ {t} PROVE N # 1
    BY FS_Singleton DEF N
  <2> QED BY <1>1, <2>1 DEF InTime, OpenInv, Open
<1>7. LastInv'
  BY <1>1, <1>2, <1>3, <1>6 DEF InTime, LastInv, Last, TypeOK
<1>8. OpenInv'
  <2> SUFFICES ASSUME NEW c \in Barrier, event[c], N # 1 PROVE Open(c)'
    BY <1>1 DEF OpenInv
  <2>1. Open(c) BY DEF InTime, OpenInv
  <2>2. \A u \in Thread : (Arrived(u, c) /\ (at[u] = c => step[u] \notin Last))'
    BY <1>1, <1>2, <1>3, <2>1 DEF Open, Arrived, Barrier, Last
  <2>3. CASE c # b
    BY <1>1, <1>3, <2>1, <2>2, <2>3 DEF Open
  <2>4. CASE c = b /\ s = "reset"
    BY <1>1, <1>3, <2>2, <2>4 DEF Open
  <2>5. CASE c = b /\ s # "reset"
    <3>1. PICK u \in Thread : u \in Counted(b)' BY <1>2, <1>5, <2>5 DEF Counted
    <3>2. at[u] = b /\ step'[u] \in {"wait", "leave"}
      BY <1>1, <2>2, <2>5, <3>1 DEF Counted, Last
    <3> QED BY <1>1, <2>2, <2>5, <3>2 DEF Open
  <2> QED BY <2>3, <2>4, <2>5
<1>9. LeaveInv'
  <2>1. \A u \in Thread \ {t} : at[u] = b => step[u] # "reset"
    BY <1>1 DEF InTime, LeaveInv
  <2>2. s = "reset" =>
          \A u \in Thread \ {t} : at[u] = b => step[u] \notin {"dec", "store", "wait", "leave"}
    <3>1. s = "reset" => Counted(b)' = {} BY <1>2, <1>5 DEF Beyond
    <3> QED BY <1>1, <1>3, <3>1 DEF Counted
  <2> QED BY <1>1, <1>2, <1>3, <2>1, <2>2 DEF InTime, LeaveInv
<1>10. PlaceInv' BY <1>1, <1>2, <1>3 DEF InTime, PlaceInv, Beyond, Barrier
<1>11. Together'
  <2>1. \A u \in Thread : Arrived(u, b)
    <3>1. CASE N = 1
      <4>1. \A u \in Thread : u = t BY <3>1, Others, FS_Singleton DEF N
      <4> QED BY <1>1, <4>1 DEF Arrived, Barrier
    <3>2. CASE N # 1 BY <1>1, <3>2 DEF InTime, OpenInv, Open
    <3> QED BY <3>1, <3>2
  <2>2. \A u \in Thread, c \in Barrier : Arrived(u, c) => Arrived(u, c)'
    BY <1>1, <1>2, <1>3 DEF Arrived
  <2>3. \A u \in Thread, c \in Barrier : Passed(u, c)' => Passed(u, c) \/ c = b
    BY <1>1, <1>2, <1>3 DEF Passed, Beyond, Barrier
  <2> QED BY <2>1, <2>2, <2>3 DEF InTime, Together
<1> QED BY <1>4, <1>7, <1>8, <1>9, <1>10, <1>11 DEF InTime

LEMMA StepReset ==
  ASSUME TypeOK, InTime, timeouts = 0, NEW t \in Thread, ResetEvent(t)
  PROVE  InTime'
<1> DEFINE b == at[t]
<1>1. /\ step[t] = "reset" /\ UNCHANGED <<at, count, temp>> /\ Goto(t, Beyond(b))
      /\ event' = [event EXCEPT ![b] = FALSE] /\ b \in Barrier /\ event[b]
  BY DEF ResetEvent, TypeOK, InTime, LeaveInv
<1>2. \A u \in Thread : step'[u] = IF u = t THEN Beyond(b) ELSE step[u]
  BY <1>1 DEF Goto, TypeOK
<1>3. Beyond(b) \in {"evals", "idle"} BY DEF Beyond
<1>4. \A u \in Thread \ {t} : at[u] = b => step[u] \notin {"dec", "store", "wait", "leave", "reset"}
  BY <1>1 DEF InTime, LeaveInv
<1>5. CountInv' BY <1>1, <1>3, CountedKept DEF InTime
<1>6. LastInv' BY <1>1, <1>2, <1>3 DEF InTime, LastInv, Last
<1>7. OpenInv' BY <1>1, <1>2, <1>3 DEF InTime, OpenInv, Open, Arrived, Last, Barrier, TypeOK
<1>8. LeaveInv' BY <1>1, <1>2, <1>3, <1>4 DEF InTime, LeaveInv, TypeOK
<1>9. PlaceInv' BY <1>1, <1>2 DEF InTime, PlaceInv, Beyond, Barrier
<1>10. Together'
  <2>1. \A u \in Thread : Arrived(u, b)
    <3>1. CASE N = 1
      <4>1. \A u \in Thread : u = t BY <3>1, FS_Singleton DEF N
      <4> QED BY <1>1, <4>1 DEF Arrived, Barrier
    <3>2. CASE N # 1 BY <1>1, <3>2 DEF InTime, OpenInv, Open
    <3> QED BY <3>1, <3>2
  <2>2. \A u \in Thread, c \in Barrier : Arrived(u, c) => Arrived(u, c)'
    BY <1>1, <1>2, <1>3 DEF Arrived
  <2>3. \A u \in Thread, c \in Barrier : Passed(u, c)' => Passed(u, c) \/ c = b
    BY <1>1, <1>2, <1>3 DEF Passed, Beyond, Barrier
  <2> QED BY <2>1, <2>2, <2>3 DEF InTime, Together
<1> QED BY <1>5, <1>6, <1>7, <1>8, <1>9, <1>10 DEF InTime

LEMMA StepEvaluate ==
  ASSUME TypeOK, InTime, timeouts = 0, NEW t \in Thread, Evaluate(t)
  PROVE  InTime'
<1>1. /\ step[t] = "evals" /\ at[t] = "start" /\ UNCHANGED <<event, count, temp>>
      /\ \A u \in Thread : /\ step'[u] = IF u = t THEN "arrive" ELSE step[u]
                           /\ at'[u] = IF u = t THEN "end" ELSE at[u]
  BY DEF Evaluate, Goto, TypeOK, InTime, PlaceInv
<1>2. CountInv'
  <2>1. \A b \in Barrier : Counted(b)' = Counted(b) BY <1>1 DEF Counted
  <2> QED BY <1>1, <2>1 DEF InTime, CountInv
<1>3. LastInv' BY <1>1 DEF InTime, LastInv, Last
<1>4. OpenInv' BY <1>1 DEF InTime, OpenInv, Open, Arrived, Last, Barrier
<1>5. LeaveInv' BY <1>1 DEF InTime, LeaveInv
<1>6. PlaceInv' BY <1>1 DEF InTime, PlaceInv
<1>7. Together' BY <1>1 DEF InTime, Together, Passed, Arrived, Barrier
<1> QED BY <1>2, <1>3, <1>4, <1>5, <1>6, <1>7 DEF InTime

(* Between two iterations nobody is counted, and no event is signalled.      *)
LEMMA AtRest ==
  ASSUME TypeOK, InTime, AllIdle
  PROVE  \A b \in Barrier : count[b] = 0 /\ Counted(b) = {} /\ (event[b] => N = 1)
<1> SUFFICES ASSUME NEW b \in Barrier
             PROVE  count[b] = 0 /\ Counted(b) = {} /\ (event[b] => N = 1)
  OBVIOUS
<1>1. Counted(b) = {} BY DEF Counted, AllIdle
<1>2. count[b] = 0 BY <1>1, FS_EmptySet DEF InTime, CountInv
<1>3. event[b] => N = 1 BY DEF InTime, OpenInv, Open, AllIdle
<1> QED BY <1>1, <1>2, <1>3

LEMMA StepMain ==
  ASSUME TypeOK, InTime, timeouts = 0, MT_SyncInit \/ AddRunEvals
  PROVE  InTime'
<1>1. AllIdle BY DEF MT_SyncInit, AddRunEvals
<1>2. CASE MT_SyncInit
  <2>1. UNCHANGED <<count, at, step, temp, timeouts>> /\ \A b \in Barrier : ~event'[b]
    BY <1>2 DEF MT_SyncInit
  <2>2. CountInv' BY <2>1 DEF InTime, CountInv, Counted
  <2> QED BY <1>1, <2>1, <2>2
          DEF InTime, LastInv, Last, OpenInv, LeaveInv, PlaceInv, Together, Passed, Arrived, AllIdle
<1>3. CASE AddRunEvals
  <2>1. /\ UNCHANGED <<count, event, temp>>
        /\ \A t \in Thread : at'[t] = "start" /\ step'[t] = "arrive"
    BY <1>3 DEF AddRunEvals
  <2>2. CountInv'
    <3>1. \A b \in Barrier : Counted(b)' = {} BY <2>1 DEF Counted
    <3> QED BY <1>1, <2>1, <3>1, AtRest, FS_EmptySet DEF CountInv
  <2>3. OpenInv' BY <1>1, <2>1, AtRest DEF OpenInv
  <2> QED BY <2>1, <2>2, <2>3
          DEF InTime, LastInv, Last, LeaveInv, PlaceInv, Together, Passed, Arrived
<1> QED BY <1>2, <1>3

LEMMA InductiveInit == Init => IInv
<1> SUFFICES ASSUME Init PROVE IInv
  OBVIOUS
<1>1. \A t \in Thread : at[t] = "end" /\ step[t] = "idle" BY DEF Init
<1>2. CountInv
  <2>1. \A b \in Barrier : Counted(b) = {} BY <1>1 DEF Counted
  <2> QED BY <2>1, FS_EmptySet DEF Init, CountInv
<1>3. LastInv /\ OpenInv /\ LeaveInv /\ PlaceInv /\ Together
  BY <1>1 DEF Init, LastInv, Last, OpenInv, LeaveInv, PlaceInv, Together, Passed, Arrived
<1> QED BY <1>2, <1>3, TypeInit DEF IInv, InTime

LEMMA Inductive == Spec => []IInv
<1>1. IInv /\ [Next]_vars => IInv'
  <2> SUFFICES ASSUME IInv, [Next]_vars, timeouts' = 0 PROVE InTime'
    BY TypeNext DEF IInv
  <2>1. CASE UNCHANGED vars
    BY <2>1 DEF vars, IInv, InTime, CountInv, Counted, LastInv, OpenInv, Open, LeaveInv, PlaceInv,
                Together, Passed, Arrived
  <2>2. timeouts = 0
    BY DEF Next, vars, MT_SyncInit, AddRunEvals, ThreadStep, Arrive, DecRead, DecStore, SetEvent,
           EventSignalled, EventTimeout, Leave, ResetEvent, Evaluate, IInv, TypeOK
  <2>3. TypeOK /\ InTime BY <2>2 DEF IInv
  <2>4. ASSUME NEW t \in Thread, EventTimeout(t) PROVE FALSE
    BY <2>2, <2>4 DEF EventTimeout
  <2> QED
    BY <2>1, <2>2, <2>3, <2>4, StepMain, StepArrive, StepDecRead, StepDecStore, StepSet,
       StepSignalled, StepLeave, StepReset, StepEvaluate
       DEF Next, ThreadStep
<1> QED
  BY <1>1, InductiveInit, PTL DEF Spec

(* The barriers of the calibration hold any number of threads together, in   *)
(* one iteration after the other, although a count is changed by a plain --  *)
(* and the event of a barrier is reset after its last thread was counted.    *)
THEOREM BarriersHold == Spec => []BarrierInv
<1>1. IInv => BarrierInv
  <2> SUFFICES ASSUME IInv PROVE BarrierInv
    OBVIOUS
  <2>1. Together BY DEF IInv, InTime, Together
  <2>2. Reusable BY AtRest DEF IInv, Reusable
  <2> QED BY <2>1, <2>2 DEF BarrierInv
<1> QED
  BY <1>1, Inductive, PTL
=============================================================================
