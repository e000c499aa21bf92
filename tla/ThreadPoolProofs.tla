--------------------------- MODULE ThreadPoolProofs ---------------------------
(* Proofs about ThreadPool, for any number of threads and any size of batch. *)
EXTENDS ThreadPool, FiniteSetTheorems, TLAPS

USE MaxThreadsAssumption, MaxTasksAssumption, CreateMayFailAssumption

(* Main is not one of the workers, and every worker is a thread.             *)
LEMMA ThreadFacts ==
  /\ Main \in Thread /\ Main \notin Worker
  /\ Worker \subseteq Thread /\ Worker \subseteq Nat /\ NoThread \notin Thread
BY DEF Main, Worker, Thread, NoThread

(* Goto keeps the type of pc if a thread stays in its own program.           *)
LEMMA GotoMain ==
  ASSUME TypeOK, NEW l \in MainPC, Goto(Main, l)
  PROVE  /\ pc' \in [Thread -> MainPC \cup WorkerPC]
         /\ pc'[Main] \in MainPC /\ \A w \in Worker : pc'[w] \in WorkerPC
BY ThreadFacts DEF TypeOK, Goto

LEMMA GotoWorker ==
  ASSUME TypeOK, NEW v \in Worker, NEW l \in WorkerPC, Goto(v, l)
  PROVE  /\ pc' \in [Thread -> MainPC \cup WorkerPC]
         /\ pc'[Main] \in MainPC /\ \A w \in Worker : pc'[w] \in WorkerPC
BY ThreadFacts DEF TypeOK, Goto

(* The tasks of a batch that the queue has numbers for.                      *)
LEMMA BatchType ==
  ASSUME NEW fun \in Fun, NEW k \in Nat, addedTasks \in Nat, addedTasks + k <= MaxTasks
  PROVE  Batch(fun, k) \in Seq(Task)
<1>1. \A i \in 1..k : [fun |-> fun, id |-> addedTasks + i] \in Task
  BY DEF Task, TaskId
<1> QED
  BY <1>1 DEF Batch

-----------------------------------------------------------------------------
(* Types.                                                                    *)

LEMMA TypeInit == Init => TypeOK
<1> SUFFICES ASSUME Init PROVE TypeOK
  OBVIOUS
<1>1. tasks \in Seq(Task) /\ toAdd \in Seq(Task)
  BY DEF Init
<1>2. pc \in [Thread -> MainPC \cup WorkerPC]
  BY DEF Init, MainPC, WorkerPC
<1>3. pc[Main] \in MainPC /\ \A w \in Worker : pc[w] \in WorkerPC
  BY ThreadFacts DEF Init, MainPC, WorkerPC
<1>4. /\ got \in [Worker -> Task \cup {NoTask}] /\ held \in [Worker -> Task \cup {NoTask}]
      /\ freed \in [Worker -> BOOLEAN] /\ fate \in [TaskId -> Fate]
  BY DEF Init, Fate
<1> QED
  BY <1>1, <1>2, <1>3, <1>4 DEF Init, TypeOK

LEMMA TypeMain ==
  ASSUME TypeOK, MainStep \/ MainChoice
  PROVE  TypeOK'
<1> USE DEF queue, counters, control, local
<1>1. CASE LockToAdd
  <2> "add" \in MainPC BY DEF MainPC
  <2> QED BY <1>1, GotoMain, ThreadFacts DEF LockToAdd, TypeOK
<1>2. CASE MT_AddTask
  <2>1. "add" \in MainPC /\ "add_event" \in MainPC BY DEF MainPC
  <2>2. Head(toAdd) \in Task /\ Tail(toAdd) \in Seq(Task) BY <1>2 DEF MT_AddTask, TypeOK
  <2>3. Append(tasks, Head(toAdd)) \in Seq(Task) BY <2>2 DEF TypeOK
  <2>4. fate' \in [TaskId -> Fate] BY <1>2 DEF MT_AddTask, TypeOK, Fate
  <2> QED BY <1>2, <2>1, <2>2, <2>3, <2>4, GotoMain DEF MT_AddTask, TypeOK
<1>3. CASE SetActivity
  <2> "add" \in MainPC BY DEF MainPC
  <2> QED BY <1>3, GotoMain DEF SetActivity, TypeOK
<1>4. CASE UnlockAdded
  <2> "wait" \in MainPC /\ "idle" \in MainPC BY DEF MainPC
  <2> QED BY <1>4, GotoMain DEF UnlockAdded, TypeOK
<1>5. CASE MT_WaitForTasks
  <2> "poll" \in MainPC BY DEF MainPC
  <2> QED BY <1>5, GotoMain DEF MT_WaitForTasks, TypeOK
<1>6. CASE WaitReturns
  <2>1. "join" \in MainPC /\ "idle" \in MainPC BY DEF MainPC
  <2>2. fate' \in [TaskId -> Fate] BY <1>6 DEF WaitReturns, Fate
  <2>3. locking' \in BOOLEAN /\ target' \in {0} \cup Worker BY <1>6 DEF WaitReturns, TypeOK
  <2> QED BY <1>6, <2>1, <2>2, <2>3, GotoMain DEF WaitReturns, TypeOK
<1>7. CASE JoinThreads
  <2>1. pc' \in [Thread -> MainPC \cup WorkerPC] BY <1>7 DEF JoinThreads, MainPC, WorkerPC
  <2>2. pc'[Main] \in MainPC /\ \A w \in Worker : pc'[w] \in WorkerPC
    BY <1>7, ThreadFacts DEF JoinThreads, MainPC, WorkerPC
  <2> QED BY <1>7, <2>1, <2>2 DEF JoinThreads, TypeOK
<1>8. ASSUME NEW S \in SUBSET Worker, MT_CreateThreads(S) PROVE TypeOK'
  <2>1. pc' \in [Thread -> MainPC \cup WorkerPC] BY <1>8 DEF MT_CreateThreads, MainPC, WorkerPC
  <2>2. pc'[Main] \in MainPC /\ \A w \in Worker : pc'[w] \in WorkerPC
    BY <1>8, ThreadFacts DEF MT_CreateThreads, MainPC, WorkerPC
  <2>3. addedTasks' \in Nat BY <1>8, ThreadFacts DEF MT_CreateThreads, TypeOK
  <2> QED BY <1>8, <2>1, <2>2, <2>3 DEF MT_CreateThreads, TypeOK
<1>9. CASE MT_StartThreads
  <2> "create" \in MainPC /\ 1 \in Worker BY DEF MainPC, Worker
  <2> QED BY <1>9, GotoMain DEF MT_StartThreads, TypeOK
<1>10. CASE CallWait
  <2> "wait" \in MainPC BY DEF MainPC
  <2> QED BY <1>10, GotoMain DEF CallWait, TypeOK
<1>11. ASSUME NEW k \in 1..MaxTasks, AddTasks(k) PROVE TypeOK'
  <2>1. "add_lock" \in MainPC /\ "Job" \in Fun BY DEF MainPC, Fun
  <2>2. toAdd' \in Seq(Task) BY <1>11, <2>1, BatchType DEF AddTasks, TypeOK
  <2> QED BY <1>11, <2>1, <2>2, GotoMain DEF AddTasks, TypeOK
<1>12. ASSUME NEW n \in 0..MaxThreads, MT_CloseThreads(n) PROVE TypeOK'
  <2>1. "add_lock" \in MainPC /\ "CloseThread" \in Fun /\ n \in {0} \cup Worker
    BY DEF MainPC, Fun, Worker
  <2>2. numThreads \in Nat /\ numThreads <= MaxTasks BY DEF TypeOK, Worker
  <2>3. toAdd' \in Seq(Task) BY <1>12, <2>1, <2>2, BatchType DEF MT_CloseThreads, TypeOK
  <2> QED BY <1>12, <2>1, <2>3, GotoMain DEF MT_CloseThreads, TypeOK
<1>13. ASSUME NEW n \in 1..MaxThreads, FirstSetNumThreads(n) PROVE TypeOK'
  <2> "create" \in MainPC /\ n \in Worker BY DEF MainPC, Worker
  <2> QED BY <1>13, GotoMain DEF FirstSetNumThreads, TypeOK
<1> QED
  BY <1>1, <1>2, <1>3, <1>4, <1>5, <1>6, <1>7, <1>8, <1>9, <1>10, <1>11, <1>12, <1>13
     DEF MainStep, MainChoice

LEMMA TypeWorker ==
  ASSUME TypeOK, NEW v \in Worker, WorkerStep(v) \/ EventTimeout(v)
  PROVE  TypeOK'
<1> USE DEF queue, counters, control, local
<1>1. CASE StartInc(v)
  <2> "start_done" \in WorkerPC BY DEF WorkerPC
  <2> QED BY <1>1, GotoWorker DEF StartInc, TypeOK
<1>2. CASE StartDone(v)
  <2> "event" \in WorkerPC BY DEF WorkerPC
  <2> QED BY <1>2, GotoWorker DEF StartDone, TypeOK
<1>3. CASE EventSignalled(v) \/ EventTimeout(v)
  <2> "get_lock" \in WorkerPC BY DEF WorkerPC
  <2> QED BY <1>3, GotoWorker DEF EventSignalled, EventTimeout, TypeOK
<1>4. CASE GetLock(v)
  <2> "get_pop" \in WorkerPC BY DEF WorkerPC
  <2> QED BY <1>4, GotoWorker, ThreadFacts DEF GetLock, TypeOK
<1>5. CASE GetPop(v)
  <2>1. "get_release" \in WorkerPC /\ "get_reset" \in WorkerPC BY DEF WorkerPC
  <2>2. CASE tasks = <<>>
    BY <1>5, <2>1, <2>2, GotoWorker DEF GetPop, TypeOK
  <2>3. CASE tasks # <<>>
    <3>1. Head(tasks) \in Task /\ Tail(tasks) \in Seq(Task) BY <2>3 DEF TypeOK
    <3>2. fate' \in [TaskId -> Fate] BY <1>5, <2>3 DEF GetPop, TypeOK, Fate
    <3>3. got' \in [Worker -> Task \cup {NoTask}] BY <1>5, <2>3, <3>1 DEF GetPop, TypeOK
    <3> QED BY <1>5, <2>1, <2>3, <3>1, <3>2, <3>3, GotoWorker DEF GetPop, TypeOK
  <2> QED BY <2>2, <2>3
<1>6. CASE GetReset(v)
  <2> "get_release" \in WorkerPC BY DEF WorkerPC
  <2> QED BY <1>6, GotoWorker DEF GetReset, TypeOK
<1>7. CASE GetRelease(v)
  <2>1. /\ "check" \in WorkerPC /\ "run" \in WorkerPC
        /\ "ab_result" \in WorkerPC /\ "ab_done" \in WorkerPC
    BY DEF WorkerPC
  <2>2. /\ got' \in [Worker -> Task \cup {NoTask}]
        /\ held' \in [Worker -> Task \cup {NoTask}]
    BY <1>7 DEF GetRelease, TypeOK
  <2> QED BY <1>7, <2>1, <2>2, GotoWorker DEF GetRelease, TypeOK
<1>8. CASE RunJob(v)
  <2>1. "done" \in WorkerPC BY DEF WorkerPC
  <2>2. fate' \in [TaskId -> Fate] BY <1>8 DEF RunJob, TypeOK, Fate
  <2> QED BY <1>8, <2>1, <2>2, GotoWorker DEF RunJob, TypeOK
<1>9. CASE RunAbort(v)
  <2> "get_lock" \in WorkerPC BY DEF WorkerPC
  <2> QED BY <1>9, GotoWorker DEF RunAbort, TypeOK
<1>10. CASE AbortDone(v)
  <2>1. "get_lock" \in WorkerPC BY DEF WorkerPC
  <2>2. fate' \in [TaskId -> Fate] BY <1>10 DEF AbortDone, TypeOK, Fate
  <2> QED BY <1>10, <2>1, <2>2, GotoWorker DEF AbortDone, TypeOK
<1>11. CASE AbortResult(v)
  <2>1. "done" \in WorkerPC BY DEF WorkerPC
  <2>2. fate' \in [TaskId -> Fate] BY <1>11 DEF AbortResult, TypeOK, Fate
  <2> QED BY <1>11, <2>1, <2>2, GotoWorker DEF AbortResult, TypeOK
<1>12. CASE CloseThread(v)
  <2>1. "done" \in WorkerPC BY DEF WorkerPC
  <2>2. fate' \in [TaskId -> Fate] BY <1>12 DEF CloseThread, TypeOK, Fate
  <2> QED BY <1>12, <2>1, <2>2, GotoWorker DEF CloseThread, TypeOK
<1>13. CASE MT_TaskDone(v)
  <2> "check" \in WorkerPC BY DEF WorkerPC
  <2> QED BY <1>13, GotoWorker DEF MT_TaskDone, TypeOK
<1>14. CASE CheckClosing(v)
  <2> "exited" \in WorkerPC /\ "event" \in WorkerPC BY DEF WorkerPC
  <2> QED BY <1>14, GotoWorker DEF CheckClosing, TypeOK
<1> QED
  BY <1>1, <1>2, <1>3, <1>4, <1>5, <1>6, <1>7, <1>8, <1>9, <1>10, <1>11, <1>12, <1>13, <1>14
     DEF WorkerStep

(* Every variable has its type: in particular the number of threads is never *)
(* more than MaxThreads, and the threads that MT_CloseThreads closes and the *)
(* tasks that callers add find room in the queue.                            *)
THEOREM TypeCorrect == Spec => []TypeOK
<1>1. TypeOK /\ [Next]_vars => TypeOK'
  <2> SUFFICES ASSUME TypeOK, [Next]_vars PROVE TypeOK'
    OBVIOUS
  <2>1. CASE UNCHANGED vars
    BY <2>1 DEF vars, queue, counters, control, local, TypeOK
  <2> QED
    BY <2>1, TypeMain, TypeWorker DEF Next
<1> QED
  BY <1>1, TypeInit, PTL DEF Spec

-----------------------------------------------------------------------------
(* The inductive invariant.  Beyond the types and the mutual exclusion it    *)
(* says where a worker can be while the threads are being changed, and what  *)
(* the event is between the change of the list and that of the event.        *)

(* The workers beyond numThreads are off, and all are when main creates      *)
(* threads: so MT_CreateThreads puts no thread that holds the lock back to   *)
(* its start.                                                                *)
OffInv ==
  /\ \A w \in Worker : w > numThreads => pc[w] = "off"
  /\ pc[Main] = "create" => \A w \in Worker : pc[w] = "off"

(* The event is signalled exactly when the list is not empty, except in the  *)
(* middle of MT_AddTask and MT_GetTask.                                      *)
Between == {"add_event", "get_reset"}
EventInv ==
  /\ (\A t \in Thread : pc[t] \notin Between) => (activity <=> tasks # <<>>)
  /\ pc[Main] = "add_event" => tasks # <<>>
  /\ \A w \in Worker : pc[w] = "get_reset" => tasks = <<>>

IInv == TypeOK /\ MutexInv /\ OffInv /\ EventInv

(* A thread that goes on without taking or releasing the lock.               *)
LEMMA MutexKept ==
  ASSUME TypeOK, MutexInv, NEW t \in Thread, NEW l, Goto(t, l), UNCHANGED queueLock,
         l \in Critical <=> pc[t] \in Critical
  PROVE  MutexInv'
BY DEF TypeOK, MutexInv, Goto

LEMMA MutexTaken ==
  ASSUME TypeOK, MutexInv, NEW t \in Thread, NEW l \in Critical, Goto(t, l),
         queueLock = NoThread, queueLock' = t
  PROVE  MutexInv'
BY ThreadFacts DEF TypeOK, MutexInv, Goto

LEMMA MutexReleased ==
  ASSUME TypeOK, MutexInv, NEW t \in Thread, NEW l, Goto(t, l),
         pc[t] \in Critical, l \notin Critical, queueLock' = NoThread
  PROVE  MutexInv'
BY ThreadFacts DEF TypeOK, MutexInv, Goto

(* A thread that is not, and does not come, between the change of the list   *)
(* and that of the event, and changes neither.                               *)
LEMMA EventKept ==
  ASSUME TypeOK, EventInv, NEW t \in Thread, NEW l, Goto(t, l), UNCHANGED <<tasks, activity>>,
         l \notin Between, pc[t] \notin Between
  PROVE  EventInv'
BY ThreadFacts DEF TypeOK, EventInv, Goto, Between

(* While one thread is in its critical section, no other is between them.    *)
LEMMA OnlyOne ==
  ASSUME MutexInv, NEW t \in Thread, pc[t] \in Critical
  PROVE  \A u \in Thread : u # t => pc[u] \notin Between
BY DEF MutexInv, Critical, Between

LEMMA OffMain ==
  ASSUME TypeOK, OffInv, NEW l, Goto(Main, l), UNCHANGED numThreads, l # "create"
  PROVE  OffInv'
BY ThreadFacts DEF TypeOK, OffInv, Goto

LEMMA OffWorker ==
  ASSUME TypeOK, OffInv, NEW w \in Worker, NEW l, Goto(w, l), UNCHANGED numThreads,
         pc[w] # "off"
  PROVE  OffInv'
BY ThreadFacts DEF TypeOK, OffInv, Goto

-----------------------------------------------------------------------------
LEMMA InductiveInit == Init => IInv
<1> SUFFICES ASSUME Init PROVE IInv
  OBVIOUS
<1>1. TypeOK BY TypeInit
<1>2. MutexInv BY ThreadFacts DEF Init, MutexInv, Critical
<1>3. OffInv BY ThreadFacts DEF Init, OffInv
<1>4. EventInv BY ThreadFacts DEF Init, EventInv, Between
<1> QED BY <1>1, <1>2, <1>3, <1>4 DEF IInv

(* The steps of main that set pc as a whole: no worker is then in its        *)
(* critical section, before or after.                                        *)
LEMMA InductiveRestart ==
  ASSUME IInv, JoinThreads \/ \E S \in SUBSET Worker : MT_CreateThreads(S)
  PROVE  MutexInv' /\ OffInv' /\ EventInv'
<1> USE ThreadFacts DEF IInv, queue
<1>1. \A t \in Thread : t = Main \/ t \in Worker
  BY DEF Thread
<1>2. CASE JoinThreads
  <2>1. \A w \in Worker : pc[w] \in {"off", "exited"}
    BY <1>2 DEF JoinThreads, OffInv, Worker, TypeOK
  <2>2. /\ \A w \in Worker : pc'[w] = "off"
        /\ pc'[Main] \in {"closed", "create"} /\ pc[Main] = "join"
        /\ UNCHANGED <<tasks, activity, queueLock>>
    BY <1>2 DEF JoinThreads
  <2>3. MutexInv' BY <1>1, <2>1, <2>2 DEF MutexInv, Critical
  <2>4. OffInv' BY <2>2 DEF OffInv
  <2>5. EventInv' BY <1>1, <2>1, <2>2 DEF EventInv, Between
  <2> QED BY <2>3, <2>4, <2>5
<1>3. ASSUME NEW S \in SUBSET Worker, MT_CreateThreads(S)
      PROVE  MutexInv' /\ OffInv' /\ EventInv'
  <2>1. pc[Main] = "create" /\ \A w \in Worker : pc[w] = "off"
    BY <1>3 DEF MT_CreateThreads, OffInv
  <2>2. /\ \A w \in Worker : pc'[w] = IF w \in S THEN "start_inc" ELSE "off"
        /\ pc'[Main] = "wait" /\ UNCHANGED <<tasks, activity, queueLock>>
    BY <1>3 DEF MT_CreateThreads
  <2>3. MutexInv' BY <1>1, <2>1, <2>2 DEF MutexInv, Critical
  <2>4. S \subseteq 1..numThreads /\ UNCHANGED numThreads
    BY <1>3 DEF MT_CreateThreads
  <2>5. OffInv' BY <2>2, <2>4 DEF OffInv, TypeOK, Worker
  <2>6. EventInv' BY <1>1, <2>1, <2>2 DEF EventInv, Between
  <2> QED BY <2>3, <2>5, <2>6
<1> QED
  BY <1>2, <1>3

LEMMA InductiveMain ==
  ASSUME IInv, MainStep \/ MainChoice
  PROVE  MutexInv' /\ OffInv' /\ EventInv'
<1> USE ThreadFacts DEF IInv, queue, control
<1>1. CASE LockToAdd
  <2>1. MutexInv' BY <1>1, MutexTaken DEF LockToAdd, Critical
  <2>2. OffInv' BY <1>1, OffMain DEF LockToAdd
  <2>3. EventInv' BY <1>1, EventKept DEF LockToAdd, Between
  <2> QED BY <2>1, <2>2, <2>3
<1>2. CASE MT_AddTask
  <2>1. MutexInv' BY <1>2, MutexKept DEF MT_AddTask, Critical
  <2>2. OffInv' BY <1>2, OffMain DEF MT_AddTask
  <2>3. \A t \in Thread : pc[t] \notin Between
    BY <1>2, OnlyOne DEF MT_AddTask, Critical, Between
  <2>4. activity <=> tasks # <<>>
    BY <2>3 DEF EventInv
  <2>5. tasks' # <<>> /\ (Len(tasks') = 1 <=> tasks = <<>>)
    BY <1>2 DEF MT_AddTask, TypeOK
  <2>6. /\ \A t \in Thread : t # Main => pc'[t] = pc[t]
        /\ pc'[Main] = IF tasks = <<>> THEN "add_event" ELSE "add"
        /\ UNCHANGED activity
    BY <1>2, <2>5 DEF MT_AddTask, Goto, TypeOK
  <2>7. EventInv' BY <2>3, <2>4, <2>5, <2>6 DEF EventInv, Between
  <2> QED BY <2>1, <2>2, <2>7
<1>3. CASE SetActivity
  <2>1. MutexInv' BY <1>3, MutexKept DEF SetActivity, Critical
  <2>2. OffInv' BY <1>3, OffMain DEF SetActivity
  <2>3. \A t \in Thread : t # Main => pc[t] \notin Between
    BY <1>3, OnlyOne DEF SetActivity, Critical
  <2>4. tasks' # <<>> /\ activity' BY <1>3 DEF SetActivity, EventInv
  <2>5. \A t \in Thread : pc'[t] \notin Between
    BY <1>3, <2>3 DEF SetActivity, Goto, TypeOK, Between
  <2>6. EventInv' BY <2>4, <2>5 DEF EventInv, Between
  <2> QED BY <2>1, <2>2, <2>6
<1>4. CASE UnlockAdded
  <2>1. MutexInv' BY <1>4, MutexReleased DEF UnlockAdded, Critical
  <2>2. OffInv' BY <1>4, OffMain DEF UnlockAdded
  <2>3. EventInv' BY <1>4, EventKept DEF UnlockAdded, Between
  <2> QED BY <2>1, <2>2, <2>3
<1>5. CASE MT_WaitForTasks
  <2>1. MutexInv' BY <1>5, MutexKept DEF MT_WaitForTasks, Critical
  <2>2. OffInv' BY <1>5, OffMain DEF MT_WaitForTasks
  <2>3. EventInv' BY <1>5, EventKept DEF MT_WaitForTasks, Between
  <2> QED BY <2>1, <2>2, <2>3
<1>6. CASE WaitReturns
  <2>1. MutexInv' BY <1>6, MutexKept DEF WaitReturns, Critical
  <2>2. OffInv' BY <1>6, OffMain DEF WaitReturns
  <2>3. EventInv' BY <1>6, EventKept DEF WaitReturns, Between
  <2> QED BY <2>1, <2>2, <2>3
<1>7. ASSUME NEW l \in {"create", "add_lock", "wait"}, pc[Main] = "idle", Goto(Main, l),
             UNCHANGED queue
      PROVE  MutexInv' /\ EventInv'
  <2>1. MutexInv' BY <1>7, MutexKept DEF Critical
  <2>2. EventInv' BY <1>7, EventKept DEF Between
  <2> QED BY <2>1, <2>2
<1>8. ASSUME NEW n \in 1..MaxThreads, pc[Main] = "idle", numThreads = 0, numThreads' = n,
             Goto(Main, "create")
      PROVE  OffInv'
  <2>1. \A w \in Worker : w > 0 BY DEF Worker
  <2>2. \A w \in Worker : pc[w] = "off" BY <1>8, <2>1 DEF OffInv
  <2>3. \A w \in Worker : pc'[w] = "off" BY <1>8, <2>2 DEF Goto, TypeOK
  <2> QED BY <2>3 DEF OffInv
<1>9. CASE MT_StartThreads
  BY <1>7, <1>8, <1>9 DEF MT_StartThreads
<1>10. CASE \E n \in 1..MaxThreads : FirstSetNumThreads(n)
  BY <1>7, <1>8, <1>10 DEF FirstSetNumThreads
<1>11. CASE CallWait
  BY <1>7, <1>11, OffMain DEF CallWait
<1>12. CASE \E k \in 1..MaxTasks : AddTasks(k)
  BY <1>7, <1>12, OffMain DEF AddTasks
<1>13. CASE \E n \in 0..MaxThreads : MT_CloseThreads(n)
  BY <1>7, <1>13, OffMain DEF MT_CloseThreads
<1> QED
  BY <1>1, <1>2, <1>3, <1>4, <1>5, <1>6, <1>9, <1>10, <1>11, <1>12, <1>13, InductiveRestart
     DEF MainStep, MainChoice

(* The steps of a worker that do not touch the queue.                        *)
Outside(v) ==
  \/ StartInc(v) \/ StartDone(v) \/ EventSignalled(v) \/ EventTimeout(v)
  \/ RunJob(v) \/ RunAbort(v) \/ AbortDone(v) \/ AbortResult(v)
  \/ CloseThread(v) \/ MT_TaskDone(v) \/ CheckClosing(v)

LEMMA InductiveOutside ==
  ASSUME IInv, NEW v \in Worker, Outside(v)
  PROVE  MutexInv' /\ OffInv' /\ EventInv'
<1>1. PICK l \in WorkerPC :
        /\ Goto(v, l) /\ l \notin Critical \cup Between
        /\ pc[v] \notin Critical \cup Between \cup {"off"}
  BY DEF Outside, StartInc, StartDone, EventSignalled, EventTimeout, RunJob, RunAbort, AbortDone,
         AbortResult, CloseThread, MT_TaskDone, CheckClosing, WorkerPC, Critical, Between
<1>2. UNCHANGED <<tasks, activity, queueLock, numThreads>>
  BY DEF Outside, StartInc, StartDone, EventSignalled, EventTimeout, RunJob, RunAbort, AbortDone,
         AbortResult, CloseThread, MT_TaskDone, CheckClosing, queue, control
<1>3. MutexInv' BY <1>1, <1>2, MutexKept, ThreadFacts DEF IInv
<1>4. OffInv' BY <1>1, <1>2, OffWorker DEF IInv
<1>5. EventInv' BY <1>1, <1>2, EventKept, ThreadFacts DEF IInv
<1> QED BY <1>3, <1>4, <1>5

LEMMA InductiveWorker ==
  ASSUME IInv, NEW v \in Worker, WorkerStep(v) \/ EventTimeout(v)
  PROVE  MutexInv' /\ OffInv' /\ EventInv'
<1> USE ThreadFacts DEF IInv, queue, control
<1>1. CASE Outside(v)
  BY <1>1, InductiveOutside
<1>2. CASE GetLock(v)
  <2>1. MutexInv' BY <1>2, MutexTaken DEF GetLock, Critical
  <2>2. OffInv' BY <1>2, OffWorker DEF GetLock
  <2>3. EventInv' BY <1>2, EventKept DEF GetLock, Between
  <2> QED BY <2>1, <2>2, <2>3
<1>3. CASE GetPop(v)
  <2>1. MutexInv' BY <1>3, MutexKept DEF GetPop, Critical
  <2>2. OffInv' BY <1>3, OffWorker DEF GetPop
  <2>3. \A t \in Thread : pc[t] \notin Between
    BY <1>3, OnlyOne DEF GetPop, Critical, Between
  <2>4. activity <=> tasks # <<>>
    BY <2>3 DEF EventInv
  <2>5. /\ \A t \in Thread : t # v => pc'[t] = pc[t]
        /\ pc'[v] = IF tasks # <<>> /\ tasks' = <<>> THEN "get_reset" ELSE "get_release"
        /\ UNCHANGED activity /\ (tasks = <<>> => tasks' = <<>>)
    BY <1>3 DEF GetPop, Goto, TypeOK
  <2>6. EventInv' BY <2>3, <2>4, <2>5 DEF EventInv, Between
  <2> QED BY <2>1, <2>2, <2>6
<1>4. CASE GetReset(v)
  <2>1. MutexInv' BY <1>4, MutexKept DEF GetReset, Critical
  <2>2. OffInv' BY <1>4, OffWorker DEF GetReset
  <2>3. \A t \in Thread : t # v => pc[t] \notin Between
    BY <1>4, OnlyOne DEF GetReset, Critical
  <2>4. tasks' = <<>> /\ ~activity' BY <1>4 DEF GetReset, EventInv
  <2>5. \A t \in Thread : pc'[t] \notin Between
    BY <1>4, <2>3 DEF GetReset, Goto, TypeOK, Between
  <2>6. EventInv' BY <2>4, <2>5 DEF EventInv, Between
  <2> QED BY <2>1, <2>2, <2>6
<1>5. CASE GetRelease(v)
  <2>1. PICK l \in {"check", "run", "ab_result", "ab_done"} : Goto(v, l)
    BY <1>5 DEF GetRelease
  <2>2. MutexInv' BY <1>5, <2>1, MutexReleased DEF GetRelease, Critical
  <2>3. OffInv' BY <1>5, <2>1, OffWorker DEF GetRelease
  <2>4. EventInv' BY <1>5, <2>1, EventKept DEF GetRelease, Between
  <2> QED BY <2>2, <2>3, <2>4
<1> QED
  BY <1>1, <1>2, <1>3, <1>4, <1>5 DEF WorkerStep, Outside

LEMMA Inductive == Spec => []IInv
<1>1. IInv /\ [Next]_vars => IInv'
  <2> SUFFICES ASSUME IInv, [Next]_vars PROVE IInv'
    OBVIOUS
  <2>1. CASE UNCHANGED vars
    BY <2>1 DEF vars, queue, counters, control, local, IInv, TypeOK, MutexInv, OffInv, EventInv
  <2>2. CASE Next
    <3>1. TypeOK' BY <2>2, TypeMain, TypeWorker DEF Next, IInv
    <3>2. MutexInv' /\ OffInv' /\ EventInv' BY <2>2, InductiveMain, InductiveWorker DEF Next
    <3> QED BY <3>1, <3>2 DEF IInv
  <2> QED BY <2>1, <2>2
<1> QED
  BY <1>1, InductiveInit, PTL DEF Spec

(* queueLock is a mutex: the list and the event are never changed by two     *)
(* threads at once, whatever the number of workers.                          *)
THEOREM MutualExclusion == Spec => []MutexInv
BY Inductive, PTL DEF IInv

(* The check of the list and the reset of the event by the workers, and the  *)
(* addition and the signal by main, never end with a task on the list that   *)
(* no worker is told of, or with workers that spin on an empty list.         *)
THEOREM WakeupsKept == Spec => []NoLostWakeup
<1>1. IInv => NoLostWakeup
  <2> SUFFICES ASSUME IInv, queueLock = NoThread PROVE activity <=> tasks # <<>>
    BY DEF NoLostWakeup
  <2>1. \A t \in Thread : pc[t] \notin Between
    BY ThreadFacts DEF IInv, MutexInv, Critical, Between
  <2> QED BY <2>1 DEF IInv, EventInv
<1> QED
  BY <1>1, Inductive, PTL

-----------------------------------------------------------------------------
(* The tasks: where each of them is, and what the counters say of them.      *)

(* Main waits for the threads that it has just made to start.                *)
Starting == pc[Main] \in {"wait", "poll"} /\ Waiter = "create"
Begun == {"start_inc", "start_done"}
Adding == {"add_lock", "add", "add_event"}
Getting == {"get_lock", "get_pop", "get_reset", "get_release"}
Due == IF closingThreads THEN "CloseThread" ELSE "Job"

MainInv ==
  /\ pc[Main] = "idle" => ~closingThreads /\ target = 0
  /\ pc[Main] \in Adding => closingThreads \/ target = 0
  /\ pc[Main] \in {"join", "closed"} => closingThreads
  /\ pc[Main] \in {"join", "closed", "create"} => addedTasks = 0
  /\ pc[Main] = "create" \/ Starting => numThreads = target /\ target # 0
  /\ pc[Main] = "poll" => totalTasks = addedTasks
  /\ Starting => addedTasks = numThreads
  /\ numThreads = 0 => pc[Main] = "idle" /\ addedTasks = 0
  /\ ~closingThreads /\ target = 0 /\ numThreads # 0 => (locking <=> numThreads > 1)

(* What a worker has in hand at each place, and where it can still run.      *)
HandInv ==
  \A w \in Worker :
    /\ got[w] # NoTask => pc[w] \in {"get_reset", "get_release", "ab_done"}
    /\ pc[w] = "ab_done" => got[w] # NoTask
    /\ held[w] # NoTask => pc[w] \in Getting \cup {"run", "ab_done", "ab_result", "done"}
    /\ pc[w] \in {"run", "ab_done", "ab_result", "done"} => held[w] # NoTask
    /\ held[w] # NoTask /\ pc[w] \notin {"run", "done"} => held[w].fun = "Job"
    /\ freed[w] => /\ pc[w] \in {"done", "check", "exited", "off"}
                   /\ pc[w] \in {"done", "check"} => closingThreads

(* All tasks there are belong to the same kind of batch.                     *)
FunInv ==
  /\ \A w \in Worker : /\ got[w] # NoTask => got[w].fun = Due
                       /\ held[w] # NoTask => held[w].fun = Due
  /\ \A j \in 1..Len(tasks) : tasks[j].fun = Due
  /\ \A j \in 1..Len(toAdd) : toAdd[j].fun = Due

(* No task is in two places, and its fate is that of its place.  (The number *)
(* of no task is 0.)                                                         *)
PlacesInv ==
  /\ \A w \in Worker :
       /\ got[w] # NoTask => fate[got[w].id] = "taken"
       /\ held[w] # NoTask => fate[held[w].id] \in IF pc[w] = "done" THEN {"ran", "failed"} ELSE {"taken"}
       /\ got[w] # NoTask => got[w].id # held[w].id
       /\ \A v \in Worker \ {w} :
            /\ got[w] # NoTask => got[w].id \notin {got[v].id, held[v].id}
            /\ held[w] # NoTask => held[w].id # held[v].id
  /\ \A j \in 1..Len(tasks) : fate[tasks[j].id] = "queued"
  /\ \A j, k \in 1..Len(tasks) : j # k => tasks[j].id # tasks[k].id

(* Tasks are numbered as they are added.                                     *)
AddInv ==
  /\ \A i \in TaskId : fate[i] = "unused" <=> i > addedTasks \/ Starting
  /\ \A j \in 1..Len(toAdd) : toAdd[j].id = addedTasks + j
  /\ pc[Main] \notin Adding => toAdd = <<>>

(* doneTasks counts the tasks that have ended, but for those that a worker   *)
(* is about to count, and, of new threads, those that have started.          *)
Ended == {"ran", "failed", "aborted"}
Counted == {i \in TaskId : fate[i] \in Ended /\ \A w \in Worker : pc[w] = "done" => held[w].id # i}
Started == {w \in Worker : pc[w] \notin Begun \cup {"off"}}
CountInv == /\ Starting => doneTasks = Cardinality(Started)
            /\ ~Starting => /\ doneTasks = Cardinality(Counted)
                            /\ \A w \in Worker : pc[w] \notin Begun

(* The result says whether a job of this batch failed; no thread fails to    *)
(* close.                                                                    *)
Failed == \E i \in TaskId : fate[i] = "failed"
ResultInv == /\ addedTasks # 0 /\ ~Starting => (result = -1 <=> Failed)
             /\ closingThreads => ~Failed

TasksInv == MainInv /\ HandInv /\ FunInv /\ PlacesInv /\ AddInv /\ CountInv /\ ResultInv

(* What the workers have in hand is a task, or nothing, which has number 0.  *)
LEMMA InHand ==
  ASSUME TypeOK, NEW w \in Worker
  PROVE  /\ got[w] \in Task \cup {NoTask} /\ held[w] \in Task \cup {NoTask}
         /\ got[w].id \in {0} \cup TaskId /\ (got[w] = NoTask <=> got[w].id = 0)
         /\ held[w].id \in {0} \cup TaskId /\ (held[w] = NoTask <=> held[w].id = 0)
<1>1. got[w] \in Task \cup {NoTask} /\ held[w] \in Task \cup {NoTask} BY DEF TypeOK
<1>2. NoTask.id = 0 /\ \A x \in Task : x.id \in TaskId /\ x.id # 0 BY DEF NoTask, Task, TaskId
<1> QED BY <1>1, <1>2

(* A step of a worker changes only that worker, and nothing that main sets.  *)
LEMMA Alone ==
  ASSUME TypeOK, NEW v \in Worker, WorkerStep(v) \/ EventTimeout(v)
  PROVE  /\ pc'[Main] = pc[Main] /\ pc[v] # "off"
         /\ UNCHANGED <<addedTasks, totalTasks, control, toAdd, reply>>
         /\ \A w \in Worker \ {v} : /\ pc'[w] = pc[w] /\ got'[w] = got[w]
                                    /\ held'[w] = held[w] /\ freed'[w] = freed[w]
<1> USE ThreadFacts DEF queue, counters, control, local, Goto, TypeOK
<1>1. CASE StartInc(v) \/ StartDone(v) \/ EventSignalled(v) \/ EventTimeout(v) \/ GetLock(v)
  BY <1>1 DEF StartInc, StartDone, EventSignalled, EventTimeout, GetLock
<1>2. CASE GetPop(v) \/ GetReset(v)
  BY <1>2 DEF GetPop, GetReset
<1>3. CASE GetRelease(v)
  BY <1>3 DEF GetRelease
<1>4. CASE RunJob(v) \/ RunAbort(v) \/ AbortDone(v)
  BY <1>4 DEF RunJob, RunAbort, AbortDone
<1>5. CASE AbortResult(v) \/ CloseThread(v) \/ MT_TaskDone(v) \/ CheckClosing(v)
  BY <1>5 DEF AbortResult, CloseThread, MT_TaskDone, CheckClosing
<1> QED BY <1>1, <1>2, <1>3, <1>4, <1>5 DEF WorkerStep

LEMMA MainAlone ==
  ASSUME NEW v \in Worker, TypeOK, WorkerStep(v) \/ EventTimeout(v)
  PROVE  (Starting' <=> Starting) /\ Due' = Due
BY Alone DEF Starting, Waiter, Due, control

-----------------------------------------------------------------------------
(* Main's own state.                                                         *)

LEMMA MainWorker ==
  ASSUME TypeOK, MainInv, NEW v \in Worker, WorkerStep(v) \/ EventTimeout(v)
  PROVE  MainInv'
BY Alone DEF MainInv, Starting, Waiter, Adding, control

LEMMA MainMain ==
  ASSUME TypeOK, MainInv, MainStep \/ MainChoice
  PROVE  MainInv'
<1> USE ThreadFacts DEF TypeOK, Goto, queue, counters, control, local, MainInv, Starting, Waiter, Adding
<1>1. CASE LockToAdd
  BY <1>1 DEF LockToAdd
<1>2. CASE MT_AddTask
  <2>1. pc'[Main] \in {"add", "add_event"} BY <1>2 DEF MT_AddTask
  <2> QED BY <1>2, <2>1 DEF MT_AddTask
<1>3. CASE SetActivity
  BY <1>3 DEF SetActivity
<1>4. CASE UnlockAdded
  BY <1>4 DEF UnlockAdded
<1>5. CASE MT_WaitForTasks
  BY <1>5 DEF MT_WaitForTasks
<1>6. CASE WaitReturns
  <2>1. /\ pc[Main] = "poll" /\ addedTasks' = 0 /\ UNCHANGED <<numThreads, closingThreads>>
        /\ pc'[Main] = IF closingThreads THEN "join" ELSE "idle"
    BY <1>6 DEF WaitReturns
  <2>2. CASE closingThreads
    BY <1>6, <2>1, <2>2 DEF WaitReturns
  <2>3. CASE ~closingThreads /\ target # 0
    <3>1. target' = 0 /\ (locking' <=> target # 1) /\ numThreads = target /\ numThreads # 0
      BY <1>6, <2>1, <2>3 DEF WaitReturns
    <3>2. locking' <=> numThreads > 1
      BY <3>1 DEF Worker
    <3> QED BY <2>1, <2>3, <3>1, <3>2
  <2>4. CASE ~closingThreads /\ target = 0
    BY <1>6, <2>1, <2>4 DEF WaitReturns
  <2> QED BY <2>2, <2>3, <2>4
<1>7. CASE JoinThreads
  BY <1>7 DEF JoinThreads
<1>8. ASSUME NEW S \in SUBSET Worker, MT_CreateThreads(S) PROVE MainInv'
  <2>1. pc'[Main] = "wait" /\ pc[Main] = "create" BY <1>8 DEF MT_CreateThreads
  <2> QED BY <1>8, <2>1 DEF MT_CreateThreads
<1>9. CASE MT_StartThreads
  BY <1>9 DEF MT_StartThreads
<1>10. CASE CallWait
  BY <1>10 DEF CallWait
<1>11. ASSUME NEW k \in 1..MaxTasks, AddTasks(k) PROVE MainInv'
  BY <1>11 DEF AddTasks
<1>12. ASSUME NEW n \in 0..MaxThreads, MT_CloseThreads(n) PROVE MainInv'
  BY <1>12 DEF MT_CloseThreads
<1>13. ASSUME NEW n \in 1..MaxThreads, FirstSetNumThreads(n) PROVE MainInv'
  BY <1>13 DEF FirstSetNumThreads
<1> QED
  BY <1>1, <1>2, <1>3, <1>4, <1>5, <1>6, <1>7, <1>8, <1>9, <1>10, <1>11, <1>12, <1>13
     DEF MainStep, MainChoice

-----------------------------------------------------------------------------
(* The workers' hands.                                                       *)

(* What HandInv says of one worker.                                          *)
HandOK(w) ==
  /\ got[w] # NoTask => pc[w] \in {"get_reset", "get_release", "ab_done"}
  /\ pc[w] = "ab_done" => got[w] # NoTask
  /\ held[w] # NoTask => pc[w] \in Getting \cup {"run", "ab_done", "ab_result", "done"}
  /\ pc[w] \in {"run", "ab_done", "ab_result", "done"} => held[w] # NoTask
  /\ held[w] # NoTask /\ pc[w] \notin {"run", "done"} => held[w].fun = "Job"
  /\ freed[w] => /\ pc[w] \in {"done", "check", "exited", "off"}
                 /\ pc[w] \in {"done", "check"} => closingThreads

LEMMA HandWorker ==
  ASSUME TypeOK, HandInv, FunInv, NEW v \in Worker, WorkerStep(v) \/ EventTimeout(v)
  PROVE  HandInv'
<1>1. \A w \in Worker \ {v} : HandOK(w)'
  BY Alone DEF HandOK, HandInv, control
<1>2. HandOK(v)'
  <2> USE InHand DEF HandInv, HandOK, Getting, TypeOK, Goto, queue, counters, control, local
  <2>1. CASE StartInc(v) \/ StartDone(v) \/ EventSignalled(v) \/ EventTimeout(v) \/ GetLock(v)
    BY <2>1, ThreadFacts DEF StartInc, StartDone, EventSignalled, EventTimeout, GetLock
  <2>2. CASE GetPop(v) 
    <3>1. CASE tasks = <<>>
      BY <2>2, <3>1, ThreadFacts DEF GetPop
    <3>2. CASE tasks # <<>>
      <4>1. Head(tasks) \in Task /\ Head(tasks) # NoTask
        <5>1. Head(tasks) \in Task BY <3>2 DEF TypeOK
        <5>2. NoTask \notin Task BY DEF Task, NoTask, TaskId
        <5> QED BY <5>1, <5>2
      <4>2. got'[v] = Head(tasks) /\ pc'[v] \in {"get_reset", "get_release"}
        BY <2>2, <3>2, ThreadFacts DEF GetPop
      <4> QED BY <2>2, <4>1, <4>2 DEF GetPop
    <3> QED BY <3>1, <3>2
  <2>3. CASE GetReset(v)
    BY <2>3, ThreadFacts DEF GetReset
  <2>4. CASE GetRelease(v)
    BY <2>4, ThreadFacts DEF GetRelease
  <2>5. CASE RunJob(v) \/ RunAbort(v) \/ AbortDone(v)
    <3>1. CASE RunJob(v) BY <3>1, ThreadFacts DEF RunJob
    <3>2. CASE RunAbort(v) BY <3>2, ThreadFacts DEF RunAbort
    <3>3. CASE AbortDone(v)
      <4>1. /\ pc[v] = "ab_done" /\ pc'[v] = "get_lock" /\ got'[v] = NoTask
            /\ UNCHANGED <<held, freed, closingThreads>>
        BY <3>3, ThreadFacts DEF AbortDone
      <4>2. held[v] # NoTask /\ held[v].fun = "Job" /\ ~freed[v] BY <4>1
      <4> QED BY <4>1, <4>2
    <3> QED BY <2>5, <3>1, <3>2, <3>3
  <2>6. CASE AbortResult(v) \/ MT_TaskDone(v) \/ CheckClosing(v)
    BY <2>6, ThreadFacts DEF AbortResult, MT_TaskDone, CheckClosing
  <2>7. CASE CloseThread(v)
    <3>1. closingThreads
      BY <2>7 DEF CloseThread, FunInv, Due
    <3> QED BY <2>7, <3>1, ThreadFacts DEF CloseThread
  <2> QED BY <2>1, <2>2, <2>3, <2>4, <2>5, <2>6, <2>7 DEF WorkerStep
<1> QED BY <1>1, <1>2 DEF HandInv, HandOK

LEMMA HandMain ==
  ASSUME IInv, HandInv, MainStep \/ MainChoice
  PROVE  HandInv'
<1> USE ThreadFacts DEF queue, counters, control, local
<1>1. ASSUME UNCHANGED <<got, held, freed>>, \A w \in Worker : pc'[w] = pc[w],
             closingThreads' = closingThreads \/ closingThreads'
      PROVE  HandInv'
  BY <1>1 DEF HandInv
<1>2. CASE JoinThreads
  <2>1. \A w \in Worker : pc[w] \in {"off", "exited"} /\ pc'[w] = "off"
    BY <1>2 DEF JoinThreads, IInv, OffInv, Worker, TypeOK
  <2>2. UNCHANGED <<got, held, freed, closingThreads>> BY <1>2 DEF JoinThreads
  <2> QED BY <2>1, <2>2 DEF HandInv, Getting
<1>3. ASSUME NEW S \in SUBSET Worker, MT_CreateThreads(S) PROVE HandInv'
  <2>1. \A w \in Worker : pc[w] = "off" BY <1>3 DEF MT_CreateThreads, IInv, OffInv
  <2>2. \A w \in Worker : pc'[w] \in {"off", "start_inc"} /\ freed'[w] = FALSE
    BY <1>3 DEF MT_CreateThreads
  <2>3. UNCHANGED <<got, held>> BY <1>3 DEF MT_CreateThreads
  <2> QED BY <2>1, <2>2, <2>3 DEF HandInv, Getting
<1>4. ASSUME MainStep \/ MainChoice, ~JoinThreads, ~\E S \in SUBSET Worker : MT_CreateThreads(S)
      PROVE  /\ UNCHANGED <<got, held, freed>> /\ \A w \in Worker : pc'[w] = pc[w]
             /\ closingThreads' = closingThreads \/ closingThreads'
  BY <1>4 DEF MainStep, MainChoice, LockToAdd, MT_AddTask, SetActivity, UnlockAdded, MT_WaitForTasks,
     WaitReturns, MT_StartThreads, CallWait, AddTasks, MT_CloseThreads, FirstSetNumThreads, Goto,
     IInv, TypeOK
<1> QED BY <1>1, <1>2, <1>3, <1>4

-----------------------------------------------------------------------------
(* What passes from hand to hand.                                            *)

(* The element that is taken off, and the list that is left.                 *)
LEMMA HeadTail ==
  ASSUME NEW s \in Seq(Task), s # <<>>
  PROVE  /\ Head(s) = s[1] /\ Head(s) \in Task /\ Tail(s) \in Seq(Task)
         /\ 1 \in 1..Len(s) /\ Len(Tail(s)) = Len(s) - 1
         /\ \A j \in 1..Len(Tail(s)) : j + 1 \in 1..Len(s) /\ Tail(s)[j] = s[j + 1]
OBVIOUS

LEMMA Appended ==
  ASSUME NEW s \in Seq(Task), NEW x \in Task
  PROVE  /\ Len(Append(s, x)) = Len(s) + 1
         /\ \A j \in 1..Len(s) + 1 : Append(s, x)[j] = IF j = Len(s) + 1 THEN x ELSE s[j]
OBVIOUS

LEMMA BatchIs ==
  ASSUME NEW fun, NEW k \in Nat, addedTasks \in Nat
  PROVE  /\ Len(Batch(fun, k)) = k
         /\ \A j \in 1..k : Batch(fun, k)[j].fun = fun /\ Batch(fun, k)[j].id = addedTasks + j
BY DEF Batch

(* The steps of a worker, as far as they hand tasks on.                      *)
Only(v) == UNCHANGED <<tasks, fate, got, held>> /\ pc[v] # "done" /\ pc'[v] # "done"
Pops(v) == /\ tasks # <<>> /\ tasks' = Tail(tasks)
           /\ got' = [got EXCEPT ![v] = Head(tasks)]
           /\ fate' = [fate EXCEPT ![Head(tasks).id] = "taken"]
           /\ pc[v] = "get_pop" /\ pc'[v] # "done" /\ UNCHANGED held
Holds(v) == /\ held[v] = NoTask /\ pc[v] = "get_release" /\ pc'[v] \in {"check", "run"}
            /\ held' = [held EXCEPT ![v] = got[v]] /\ got' = [got EXCEPT ![v] = NoTask]
            /\ UNCHANGED <<tasks, fate>>
Ends(v) == /\ pc[v] \in {"run", "ab_result"} /\ pc'[v] = "done"
           /\ \/ fate' = [fate EXCEPT ![held[v].id] = "ran"]
              \/ fate' = [fate EXCEPT ![held[v].id] = "failed"]
           /\ UNCHANGED <<tasks, got, held>>
Drops(v) == /\ pc[v] = "ab_done" /\ pc'[v] # "done"
            /\ fate' = [fate EXCEPT ![got[v].id] = "aborted"]
            /\ got' = [got EXCEPT ![v] = NoTask]
            /\ UNCHANGED <<tasks, held>>
Counts(v) == /\ pc[v] = "done" /\ pc'[v] # "done"
             /\ held' = [held EXCEPT ![v] = NoTask]
             /\ UNCHANGED <<tasks, fate, got>>

LEMMA HandedOn ==
  ASSUME TypeOK, NEW v \in Worker, WorkerStep(v) \/ EventTimeout(v)
  PROVE  Only(v) \/ Pops(v) \/ Holds(v) \/ Ends(v) \/ Drops(v) \/ Counts(v)
<1> USE ThreadFacts DEF queue, local, Goto, TypeOK
<1>1. CASE StartInc(v) \/ StartDone(v) \/ EventSignalled(v) \/ EventTimeout(v) \/ GetLock(v)
           \/ GetReset(v) \/ RunAbort(v) \/ CheckClosing(v)
  BY <1>1 DEF StartInc, StartDone, EventSignalled, EventTimeout, GetLock, GetReset, RunAbort,
              CheckClosing, Only
<1>2. CASE GetPop(v)
  BY <1>2 DEF GetPop, Only, Pops
<1>3. CASE GetRelease(v)
  BY <1>3 DEF GetRelease, Only, Holds
<1>4. CASE RunJob(v) \/ AbortResult(v) \/ CloseThread(v)
  BY <1>4 DEF RunJob, AbortResult, CloseThread, Ends
<1>5. CASE AbortDone(v)
  BY <1>5 DEF AbortDone, Drops
<1>6. CASE MT_TaskDone(v)
  BY <1>6 DEF MT_TaskDone, Counts
<1> QED BY <1>1, <1>2, <1>3, <1>4, <1>5, <1>6 DEF WorkerStep

(* What a worker that runs or ends a task has.                               *)
LEMMA Holding ==
  ASSUME TypeOK, HandInv, PlacesInv, NEW v \in Worker
  PROVE  /\ pc[v] \in {"run", "ab_result"} => /\ held[v].id \in TaskId /\ fate[held[v].id] = "taken"
                                              /\ got[v] = NoTask
         /\ pc[v] = "ab_done" => got[v].id \in TaskId /\ fate[got[v].id] = "taken"
         /\ pc[v] = "done" => /\ held[v].id \in TaskId /\ fate[held[v].id] \in {"ran", "failed"}
                              /\ got[v] = NoTask
         /\ pc[v] = "get_pop" => got[v] = NoTask
BY InHand DEF HandInv, PlacesInv

LEMMA FateOfHead ==
  ASSUME TypeOK, PlacesInv, tasks # <<>>
  PROVE  Head(tasks).id \in TaskId /\ fate[Head(tasks).id] = "queued"
<1>1. Head(tasks) = tasks[1] /\ Head(tasks) \in Task /\ 1 \in 1..Len(tasks)
  BY HeadTail DEF TypeOK
<1> QED BY <1>1 DEF PlacesInv, Task

-----------------------------------------------------------------------------
(* Where the tasks are.                                                      *)

PlaceOK(w) ==
  /\ got[w] # NoTask => fate[got[w].id] = "taken"
  /\ held[w] # NoTask => fate[held[w].id] \in IF pc[w] = "done" THEN {"ran", "failed"} ELSE {"taken"}
  /\ got[w] # NoTask => got[w].id # held[w].id
Apart(w, v) ==
  /\ got[w] # NoTask => got[w].id \notin {got[v].id, held[v].id}
  /\ held[w] # NoTask => held[w].id # held[v].id
ListOK ==
  /\ \A j \in 1..Len(tasks) : fate[tasks[j].id] = "queued"
  /\ \A j, k \in 1..Len(tasks) : j # k => tasks[j].id # tasks[k].id

LEMMA PlacesParts == PlacesInv <=> /\ \A w \in Worker : PlaceOK(w)
                                   /\ \A w \in Worker, v \in Worker : v # w => Apart(w, v)
                                   /\ ListOK
<1>1. PlacesInv => /\ \A w \in Worker : PlaceOK(w)
                   /\ \A w \in Worker, v \in Worker : v # w => Apart(w, v)
                   /\ ListOK
  BY DEF PlacesInv, PlaceOK, Apart, ListOK
<1>2. ASSUME \A w \in Worker : PlaceOK(w),
             \A w \in Worker, v \in Worker : v # w => Apart(w, v), ListOK
      PROVE  PlacesInv
  BY <1>2 DEF PlacesInv, PlaceOK, Apart, ListOK
<1> QED BY <1>1, <1>2

LEMMA PlacesWorker ==
  ASSUME TypeOK, HandInv, PlacesInv, NEW v \in Worker, WorkerStep(v) \/ EventTimeout(v)
  PROVE  PlacesInv'
<1> DEFINE n == tasks[1].id
<1>1. /\ \A w \in Worker : PlaceOK(w)
      /\ \A w \in Worker, u \in Worker : u # w => Apart(w, u)
      /\ ListOK
  BY PlacesParts
<1>2. /\ \A w \in Worker \ {v} : pc'[w] = pc[w] /\ got'[w] = got[w] /\ held'[w] = held[w]
      /\ got \in [Worker -> Task \cup {NoTask}] /\ held \in [Worker -> Task \cup {NoTask}]
      /\ fate \in [TaskId -> Fate]
  BY Alone DEF TypeOK
<1>3. \A w \in Worker : /\ got[w].id \in {0} \cup TaskId /\ (got[w] = NoTask <=> got[w].id = 0)
                        /\ held[w].id \in {0} \cup TaskId /\ (held[w] = NoTask <=> held[w].id = 0)
  BY InHand
<1>4. NoTask.id = 0 /\ 0 \notin TaskId BY DEF NoTask, TaskId
<1>5. ASSUME /\ \A w \in Worker : PlaceOK(w)'
             /\ \A w \in Worker, u \in Worker : u # w => Apart(w, u)'
             /\ ListOK'
      PROVE  PlacesInv'
  BY <1>5 DEF PlacesInv, PlaceOK, Apart, ListOK
<1>6. CASE Only(v)
  <2>1. \A w \in Worker : PlaceOK(w)' BY <1>1, <1>2, <1>6 DEF Only, PlaceOK
  <2>2. \A w \in Worker, u \in Worker : u # w => Apart(w, u)' BY <1>1, <1>6 DEF Only, Apart
  <2>3. ListOK' BY <1>1, <1>6 DEF Only, ListOK
  <2> QED BY <1>5, <2>1, <2>2, <2>3
<1>7. CASE Pops(v)
  <2>1. /\ Head(tasks) = tasks[1] /\ tasks[1] \in Task /\ 1 \in 1..Len(tasks)
        /\ Len(tasks') = Len(tasks) - 1 /\ Len(tasks) \in Nat
        /\ \A j \in 1..Len(tasks') : j + 1 \in 1..Len(tasks) /\ tasks'[j] = tasks[j + 1]
    BY <1>7, HeadTail DEF Pops, TypeOK
  <2>2. n \in TaskId /\ fate[n] = "queued" BY <1>7, <2>1, FateOfHead DEF Pops
  <2> HIDE DEF n
  <2>3. /\ fate' = [fate EXCEPT ![n] = "taken"] /\ got'[v] = tasks[1] /\ tasks[1] # NoTask
        /\ got'[v].id = n /\ got[v] = NoTask /\ held' = held /\ pc[v] # "done" /\ pc'[v] # "done"
    BY <1>2, <1>4, <1>7, <2>1, <2>2, Holding DEF Pops, n
  <2>4. \A w \in Worker : got[w].id # n /\ held[w].id # n
    BY <1>1, <1>3, <1>4, <2>2 DEF PlaceOK
  <2>5. \A w \in Worker : PlaceOK(w)'
    <3>1. PlaceOK(v)' BY <1>1, <1>2, <1>3, <2>2, <2>3, <2>4 DEF PlaceOK
    <3>2. \A w \in Worker \ {v} : PlaceOK(w)' BY <1>1, <1>2, <1>3, <2>2, <2>3, <2>4 DEF PlaceOK
    <3> QED BY <3>1, <3>2
  <2>6. \A w \in Worker, u \in Worker : u # w => Apart(w, u)'
    BY <1>1, <1>2, <1>3, <1>4, <2>2, <2>3, <2>4 DEF Apart
  <2>7. ListOK'
    <3>1. \A j \in 1..Len(tasks') : tasks'[j].id # n
      BY <1>1, <2>1 DEF ListOK, n
    <3>2. \A j \in 1..Len(tasks') : fate[tasks'[j].id] = "queued"
      BY <1>1, <2>1 DEF ListOK
    <3>3. \A j \in 1..Len(tasks') : tasks'[j].id \in TaskId
      <4>1. \A j \in 1..Len(tasks) : tasks[j] \in Task BY DEF TypeOK
      <4>2. \A x \in Task : x.id \in TaskId BY DEF Task
      <4> QED BY <2>1, <4>1, <4>2
    <3>4. \A j \in 1..Len(tasks') : fate'[tasks'[j].id] = "queued"
      BY <1>2, <2>2, <2>3, <3>1, <3>2, <3>3
    <3>5. \A j, k \in 1..Len(tasks') : j # k => tasks'[j].id # tasks'[k].id
      BY <1>1, <2>1 DEF ListOK
    <3> QED BY <3>4, <3>5 DEF ListOK
  <2> QED BY <1>5, <2>5, <2>6, <2>7
<1>8. CASE Holds(v)
  <2>1. /\ got'[v] = NoTask /\ held'[v] = got[v] /\ held[v] = NoTask
        /\ pc[v] # "done" /\ pc'[v] # "done"
        /\ fate' = fate /\ tasks' = tasks
    BY <1>2, <1>8 DEF Holds
  <2>2. \A w \in Worker : PlaceOK(w)'
    BY <1>1, <1>2, <1>3, <1>4, <2>1 DEF PlaceOK
  <2>3. \A w \in Worker, u \in Worker : u # w => Apart(w, u)'
    BY <1>1, <1>2, <1>3, <1>4, <2>1 DEF Apart
  <2>4. ListOK' BY <1>1, <2>1 DEF ListOK
  <2> QED BY <1>5, <2>2, <2>3, <2>4
<1>9. CASE Ends(v)
  <2>1. /\ held[v].id \in TaskId /\ fate[held[v].id] = "taken" /\ got[v] = NoTask
    BY <1>9, Holding DEF Ends
  <2>2. PICK end \in {"ran", "failed"} : fate' = [fate EXCEPT ![held[v].id] = end]
    BY <1>9 DEF Ends
  <2>3. pc'[v] = "done" /\ got' = got /\ held' = held /\ tasks' = tasks BY <1>9 DEF Ends
  <2>4. PlaceOK(v)' BY <1>2, <2>1, <2>2, <2>3 DEF PlaceOK
  <2>5. \A w \in Worker \ {v} : PlaceOK(w)'
    <3> TAKE w \in Worker \ {v}
    <3>1. (got[w] # NoTask => got[w].id # held[v].id) /\ (held[w] # NoTask => held[w].id # held[v].id)
      BY <1>1 DEF Apart
    <3> QED BY <1>1, <1>2, <1>3, <2>1, <2>2, <2>3, <3>1 DEF PlaceOK
  <2>6. \A w \in Worker, u \in Worker : u # w => Apart(w, u)' BY <1>1, <2>3 DEF Apart
  <2>7. ListOK' BY <1>1, <1>2, <2>1, <2>2, <2>3, SMTT(30) DEF ListOK
  <2> QED BY <1>5, <2>4, <2>5, <2>6, <2>7
<1>10. CASE Drops(v)
  <2>1. /\ got[v].id \in TaskId /\ fate[got[v].id] = "taken" /\ got[v] # NoTask
        /\ pc[v] # "done" /\ pc'[v] # "done"
    BY <1>4, <1>10, Holding DEF Drops
  <2>2. fate' = [fate EXCEPT ![got[v].id] = "aborted"] /\ held' = held /\ tasks' = tasks /\ got'[v] = NoTask
    BY <1>2, <1>10 DEF Drops
  <2>3. PlaceOK(v)' BY <1>1, <1>2, <1>3, <1>4, <2>1, <2>2 DEF PlaceOK
  <2>4. \A w \in Worker \ {v} : PlaceOK(w)'
    <3> TAKE w \in Worker \ {v}
    <3>1. (got[w] # NoTask => got[w].id # got[v].id) /\ (held[w] # NoTask => held[w].id # got[v].id)
      BY <1>1, <2>1 DEF Apart
    <3> QED BY <1>1, <1>2, <1>3, <2>1, <2>2, <3>1 DEF PlaceOK
  <2>5. \A w \in Worker, u \in Worker : u # w => Apart(w, u)'
    BY <1>1, <1>2, <1>3, <1>4, <2>2 DEF Apart
  <2>6. ListOK' BY <1>1, <1>2, <2>1, <2>2 DEF ListOK
  <2> QED BY <1>5, <2>3, <2>4, <2>5, <2>6
<1>11. CASE Counts(v)
  <2>1. held'[v] = NoTask /\ got' = got /\ fate' = fate /\ tasks' = tasks /\ got[v] = NoTask
    BY <1>2, <1>11, Holding DEF Counts
  <2>2. \A w \in Worker : PlaceOK(w)' BY <1>1, <1>2, <1>3, <1>4, <2>1 DEF PlaceOK
  <2>3. \A w \in Worker, u \in Worker : u # w => Apart(w, u)'
    BY <1>1, <1>2, <1>3, <1>4, <2>1 DEF Apart
  <2>4. ListOK' BY <1>1, <2>1 DEF ListOK
  <2> QED BY <1>5, <2>2, <2>3, <2>4
<1> QED BY <1>6, <1>7, <1>8, <1>9, <1>10, <1>11, HandedOn

(* No worker's step makes a task unused, or uses one.                        *)
LEMMA UsedWorker ==
  ASSUME TypeOK, HandInv, PlacesInv, NEW v \in Worker, WorkerStep(v) \/ EventTimeout(v)
  PROVE  \A i \in TaskId : fate'[i] = "unused" <=> fate[i] = "unused"
BY HandedOn, Holding, FateOfHead DEF Only, Pops, Holds, Ends, Drops, Counts, TypeOK

LEMMA AddWorker ==
  ASSUME TypeOK, HandInv, PlacesInv, AddInv, NEW v \in Worker, WorkerStep(v) \/ EventTimeout(v)
  PROVE  AddInv'
BY UsedWorker, Alone, MainAlone DEF AddInv

LEMMA FunWorker ==
  ASSUME TypeOK, HandInv, FunInv, NEW v \in Worker, WorkerStep(v) \/ EventTimeout(v)
  PROVE  FunInv'
<1>1. /\ \A w \in Worker \ {v} : got'[w] = got[w] /\ held'[w] = held[w]
      /\ got \in [Worker -> Task \cup {NoTask}] /\ held \in [Worker -> Task \cup {NoTask}]
      /\ UNCHANGED toAdd
  BY Alone DEF TypeOK
<1>2. Due' = Due BY MainAlone
<1>3. CASE Pops(v)
  <2>1. /\ Head(tasks) = tasks[1] /\ 1 \in 1..Len(tasks)
        /\ \A j \in 1..Len(tasks') : j + 1 \in 1..Len(tasks) /\ tasks'[j] = tasks[j + 1]
    BY <1>3, HeadTail DEF Pops, TypeOK
  <2>2. got'[v] = tasks[1] /\ held' = held BY <1>1, <1>3, <2>1 DEF Pops
  <2> QED BY <1>1, <1>2, <2>1, <2>2 DEF FunInv
<1>4. CASE ~Pops(v)
  <2>1. tasks' = tasks /\ got'[v] \in {got[v], NoTask} /\ held'[v] \in {held[v], NoTask, got[v]}
    BY <1>1, <1>4, HandedOn DEF Only, Pops, Holds, Ends, Drops, Counts
  <2> QED BY <1>1, <1>2, <2>1 DEF FunInv
<1> QED BY <1>3, <1>4

-----------------------------------------------------------------------------
(* What the workers count.                                                   *)

LEMMA FiniteCounts ==
  /\ IsFiniteSet(Counted) /\ Cardinality(Counted) \in Nat
  /\ IsFiniteSet(Started) /\ Cardinality(Started) \in Nat
<1>1. IsFiniteSet(TaskId) /\ IsFiniteSet(Worker) BY FS_Interval DEF TaskId, Worker
<1>2. Counted \in SUBSET TaskId /\ Started \in SUBSET Worker BY DEF Counted, Started
<1>3. IsFiniteSet(Counted) /\ IsFiniteSet(Started) BY <1>1, <1>2, FS_Subset
<1> QED BY <1>3, FS_CardinalityType

(* A step that makes no task count, and one that makes one task count.       *)
LEMMA CountedSame ==
  ASSUME \A i \in TaskId : fate'[i] \in Ended /\ (\A w \in Worker : pc'[w] = "done" => held'[w].id # i)
           <=> fate[i] \in Ended /\ (\A w \in Worker : pc[w] = "done" => held[w].id # i)
  PROVE  Counted' = Counted
BY DEF Counted

LEMMA CountedMore ==
  ASSUME NEW x \in TaskId, x \notin Counted,
         \A i \in TaskId : fate'[i] \in Ended /\ (\A w \in Worker : pc'[w] = "done" => held'[w].id # i)
           <=> i = x \/ (fate[i] \in Ended /\ (\A w \in Worker : pc[w] = "done" => held[w].id # i))
  PROVE  Cardinality(Counted') = Cardinality(Counted) + 1
<1>1. Counted' = Counted \cup {x} BY DEF Counted
<1> QED BY <1>1, FiniteCounts, FS_AddElement

(* Tasks are counted by MT_TaskDone and in MT_AbortTasks, and then alone.    *)
LEMMA CountedWorker ==
  ASSUME TypeOK, HandInv, PlacesInv, NEW v \in Worker, WorkerStep(v) \/ EventTimeout(v)
  PROVE  IF pc[v] \in {"ab_done", "done"}
         THEN Cardinality(Counted') = Cardinality(Counted) + 1
         ELSE Counted' = Counted
<1>1. /\ \A w \in Worker \ {v} : pc'[w] = pc[w] /\ got'[w] = got[w] /\ held'[w] = held[w]
      /\ got \in [Worker -> Task \cup {NoTask}] /\ held \in [Worker -> Task \cup {NoTask}]
      /\ fate \in [TaskId -> Fate]
  BY Alone DEF TypeOK
<1>2. /\ \A w \in Worker : PlaceOK(w)
      /\ \A w \in Worker, u \in Worker : u # w => Apart(w, u)
  BY PlacesParts
<1>3. NoTask.id = 0 /\ 0 \notin TaskId BY DEF NoTask, TaskId
<1>4. CASE Only(v)
  <2>1. Counted' = Counted BY <1>1, <1>4, CountedSame DEF Only
  <2>2. pc[v] # "ab_done"
    <3> SUFFICES ASSUME pc[v] = "ab_done" PROVE FALSE OBVIOUS
    <3>1. AbortDone(v)
      BY DEF WorkerStep, StartInc, StartDone, EventSignalled, EventTimeout, GetLock, GetPop, GetReset,
         GetRelease, RunJob, RunAbort, AbortResult, CloseThread, MT_TaskDone, CheckClosing
    <3>2. got'[v] = NoTask BY <1>1, <3>1 DEF AbortDone
    <3> QED BY <1>4, <3>2 DEF Only, HandInv
  <2> QED BY <1>4, <2>1, <2>2 DEF Only
<1>5. CASE Pops(v)
  <2>1. Head(tasks).id \in TaskId /\ fate[Head(tasks).id] = "queued" BY <1>5, FateOfHead DEF Pops
  <2>2. /\ fate' = [fate EXCEPT ![Head(tasks).id] = "taken"] /\ held' = held
        /\ pc[v] = "get_pop" /\ pc'[v] # "done"
    BY <1>5 DEF Pops
  <2>3. \A i \in TaskId : fate'[i] \in Ended <=> fate[i] \in Ended
    BY <1>1, <2>1, <2>2 DEF Ended
  <2> QED BY <1>1, <2>2, <2>3, CountedSame
<1>6. CASE Holds(v)
  <2>1. fate' = fate /\ pc[v] = "get_release" /\ pc'[v] # "done" BY <1>6 DEF Holds
  <2> QED BY <1>1, <2>1, CountedSame
<1>7. CASE Ends(v)
  <2>1. held[v].id \in TaskId /\ fate[held[v].id] = "taken" BY <1>7, Holding DEF Ends
  <2>2. PICK end \in {"ran", "failed"} : fate' = [fate EXCEPT ![held[v].id] = end]
    BY <1>7 DEF Ends
  <2>3. pc[v] \in {"run", "ab_result"} /\ pc'[v] = "done" /\ held' = held BY <1>7 DEF Ends
  <2>4. \A i \in TaskId : fate'[i] \in Ended <=> i = held[v].id \/ fate[i] \in Ended
    BY <1>1, <2>1, <2>2 DEF Ended
  <2>5. Counted' = Counted
    <3>1. fate[held[v].id] \notin Ended BY <2>1 DEF Ended
    <3> QED BY <1>1, <2>3, <2>4, <3>1, CountedSame
  <2> QED BY <2>3, <2>5
<1>8. CASE Drops(v)
  <2>1. got[v].id \in TaskId /\ fate[got[v].id] = "taken" BY <1>8, Holding DEF Drops
  <2>2. /\ fate' = [fate EXCEPT ![got[v].id] = "aborted"] /\ held' = held
        /\ pc[v] = "ab_done" /\ pc'[v] # "done"
    BY <1>8 DEF Drops
  <2>3. \A i \in TaskId : fate'[i] \in Ended <=> i = got[v].id \/ fate[i] \in Ended
    BY <1>1, <2>1, <2>2 DEF Ended
  <2>4. got[v].id \notin Counted BY <2>1 DEF Counted, Ended
  <2>5. \A w \in Worker \ {v} : pc[w] = "done" => held[w].id # got[v].id
    <3>1. got[v] # NoTask BY <1>3, <2>1
    <3> QED BY <1>2, <3>1 DEF Apart
  <2> QED BY <1>1, <2>1, <2>2, <2>3, <2>4, <2>5, CountedMore
<1>9. CASE Counts(v)
  <2>1. held[v].id \in TaskId /\ fate[held[v].id] \in Ended BY <1>9, Holding DEF Counts, Ended
  <2>2. fate' = fate /\ held'[v] = NoTask /\ pc[v] = "done" /\ pc'[v] # "done"
    BY <1>1, <1>9 DEF Counts
  <2>3. \A w \in Worker \ {v} : held[w].id # held[v].id
    <3>1. held[v] # NoTask BY <1>3, <2>1
    <3> QED BY <1>2, <3>1 DEF Apart
  <2>4. held[v].id \notin Counted BY <2>2 DEF Counted
  <2> QED BY <1>1, <2>1, <2>2, <2>3, <2>4, CountedMore
<1> QED BY <1>4, <1>5, <1>6, <1>7, <1>8, <1>9, HandedOn

(* Only StartDone makes a thread one that has started.                       *)
LEMMA StartedWorker ==
  ASSUME TypeOK, NEW v \in Worker, WorkerStep(v) \/ EventTimeout(v)
  PROVE  /\ pc[v] = "start_done" => /\ Cardinality(Started') = Cardinality(Started) + 1
                                    /\ pc'[v] \notin Begun
         /\ pc[v] # "start_done" => Started' = Started /\ (pc'[v] \in Begun <=> pc[v] \in Begun)
<1>1. /\ \A w \in Worker \ {v} : pc'[w] = pc[w]
      /\ pc[v] # "off"
  BY Alone
<1>2. CASE pc[v] = "start_done"
  <2>1. pc'[v] = "event"
    BY <1>2, ThreadFacts DEF WorkerStep, StartInc, StartDone, EventSignalled, EventTimeout, GetLock, GetPop,
       GetReset, GetRelease, RunJob, RunAbort, AbortDone, AbortResult, CloseThread, MT_TaskDone,
       CheckClosing, Goto, TypeOK
  <2>2. Started' = Started \cup {v} /\ v \notin Started
    BY <1>1, <1>2, <2>1 DEF Started, Begun
  <2> QED BY <1>2, <2>1, <2>2, FiniteCounts, FS_AddElement DEF Begun
<1>3. CASE pc[v] # "start_done"
  <2>1. (pc'[v] \in Begun <=> pc[v] \in Begun) /\ pc'[v] # "off"
    BY <1>1, <1>3, ThreadFacts DEF WorkerStep, StartInc, StartDone, EventSignalled, EventTimeout, GetLock,
       GetPop, GetReset, GetRelease, RunJob, RunAbort, AbortDone, AbortResult, CloseThread, MT_TaskDone,
       CheckClosing, Goto, TypeOK, Begun
  <2>2. Started' = Started BY <1>1, <2>1 DEF Started
  <2> QED BY <1>3, <2>1, <2>2
<1> QED BY <1>2, <1>3

LEMMA DoneWorker ==
  ASSUME NEW v \in Worker, WorkerStep(v) \/ EventTimeout(v)
  PROVE  doneTasks' = IF pc[v] \in {"start_done", "ab_done", "done"} THEN doneTasks + 1 ELSE doneTasks
BY DEF WorkerStep, StartInc, StartDone, EventSignalled, EventTimeout, GetLock, GetPop, GetReset,
   GetRelease, RunJob, RunAbort, AbortDone, AbortResult, CloseThread, MT_TaskDone, CheckClosing, counters

LEMMA CountWorker ==
  ASSUME TypeOK, HandInv, PlacesInv, AddInv, CountInv,
         NEW v \in Worker, WorkerStep(v) \/ EventTimeout(v)
  PROVE  CountInv'
<1>1. \A w \in Worker \ {v} : pc'[w] = pc[w]
  BY Alone
<1>2. CASE Starting
  <2>1. Starting' BY <1>2, MainAlone
  <2>2. \A i \in TaskId : fate[i] = "unused" BY <1>2 DEF AddInv
  <2>3. pc[v] \notin {"ab_done", "done"} BY <2>2, Holding
  <2> QED BY <1>2, <2>1, <2>3, StartedWorker, DoneWorker DEF CountInv
<1>3. CASE ~Starting
  <2>1. ~Starting' BY <1>3, MainAlone
  <2>2. \A w \in Worker : pc[w] \notin Begun BY <1>3 DEF CountInv
  <2>3. pc[v] # "start_done" BY <2>2 DEF Begun
  <2>4. \A w \in Worker : pc'[w] \notin Begun BY <1>1, <2>2, <2>3, StartedWorker
  <2> QED BY <1>3, <2>1, <2>3, <2>4, CountedWorker, DoneWorker DEF CountInv
<1> QED BY <1>2, <1>3

-----------------------------------------------------------------------------
(* What the workers report.                                                  *)

LEMMA ResultWorker ==
  ASSUME TypeOK, HandInv, FunInv, PlacesInv, AddInv, CountInv, ResultInv,
         NEW v \in Worker, WorkerStep(v) \/ EventTimeout(v)
  PROVE  ResultInv'
<1>1. addedTasks' = addedTasks /\ (Starting' <=> Starting) /\ closingThreads' = closingThreads
      /\ fate \in [TaskId -> Fate] /\ result \in Nat \cup {-1}
  BY Alone, MainAlone DEF control, TypeOK
<1>2. CASE Starting
  <2>1. \A i \in TaskId : fate[i] = "unused" BY <1>2 DEF AddInv
  <2>2. \A i \in TaskId : fate'[i] = "unused" BY <2>1, UsedWorker
  <2> QED BY <1>1, <1>2, <2>2 DEF ResultInv, Failed
<1>3. CASE ~Starting
  <2>1. pc[v] \notin Begun BY <1>3 DEF CountInv
  <2>2. ASSUME pc[v] = "run", held[v].fun = "Job" \/ held[v].fun = "CloseThread" PROVE held[v].fun = Due
    BY <2>2 DEF HandInv, FunInv
  <2>3. CASE RunJob(v) \/ AbortResult(v)
    <3>1. pc[v] \in {"run", "ab_result"} /\ held[v].fun = "Job"
      BY <2>3 DEF RunJob, AbortResult, HandInv
    <3>2. held[v].id \in TaskId /\ fate[held[v].id] = "taken" /\ held[v] # NoTask
      BY <3>1, Holding DEF HandInv
    <3>3. ~closingThreads BY <3>1, <3>2 DEF FunInv, Due
    <3>4. \/ fate' = [fate EXCEPT ![held[v].id] = "ran"] /\ result' = result
          \/ fate' = [fate EXCEPT ![held[v].id] = "failed"] /\ result' = -1
      BY <2>3 DEF RunJob, AbortResult
    <3>5. CASE fate' = [fate EXCEPT ![held[v].id] = "ran"] /\ result' = result
      <4>1. Failed' <=> Failed BY <1>1, <3>2, <3>5 DEF Failed
      <4> QED BY <1>1, <3>5, <4>1 DEF ResultInv
    <3>6. CASE fate' = [fate EXCEPT ![held[v].id] = "failed"] /\ result' = -1
      <4>1. Failed' BY <1>1, <3>2, <3>6 DEF Failed
      <4> QED BY <1>1, <3>3, <3>6, <4>1 DEF ResultInv
    <3> QED BY <3>4, <3>5, <3>6
  <2>4. CASE CloseThread(v)
    <3>1. pc[v] = "run" /\ held[v].fun = "CloseThread" /\ result' = result + 1
          /\ fate' = [fate EXCEPT ![held[v].id] = "ran"]
      BY <2>4 DEF CloseThread
    <3>2. closingThreads /\ held[v].id \in TaskId /\ fate[held[v].id] = "taken"
      BY <2>2, <3>1, Holding DEF Due
    <3>3. ~Failed /\ ~Failed' BY <1>1, <3>1, <3>2 DEF ResultInv, Failed
    <3>4. addedTasks # 0 BY <1>3, <3>2 DEF AddInv, TaskId
    <3>5. result # -1 BY <1>3, <3>3, <3>4 DEF ResultInv
    <3>6. result' # -1 BY <1>1, <3>1, <3>5
    <3> QED BY <3>3, <3>6 DEF ResultInv
  <2>5. CASE ~RunJob(v) /\ ~AbortResult(v) /\ ~CloseThread(v)
    <3>1. result' = result
      BY <2>1, <2>5 DEF WorkerStep, StartInc, StartDone, EventSignalled, EventTimeout, GetLock, GetPop,
         GetReset, GetRelease, RunAbort, AbortDone, MT_TaskDone, CheckClosing, counters, Begun
    <3>2. ~Ends(v)
      <4>1. pc'[v] # "done" \/ pc[v] \notin {"run", "ab_result"}
        BY <2>5, ThreadFacts DEF WorkerStep, StartInc, StartDone, EventSignalled, EventTimeout, GetLock, GetPop,
           GetReset, GetRelease, RunAbort, AbortDone, MT_TaskDone, CheckClosing, Goto, TypeOK
      <4> QED BY <4>1 DEF Ends
    <3>3. Failed' <=> Failed
      <4>1. CASE Pops(v) BY <1>1, <4>1, FateOfHead DEF Pops, Failed
      <4>2. CASE Drops(v) BY <1>1, <4>2, Holding DEF Drops, Failed
      <4>3. CASE fate' = fate BY <4>3 DEF Failed
      <4> QED BY <3>2, <4>1, <4>2, <4>3, HandedOn DEF Only, Holds, Counts
    <3> QED BY <1>1, <3>1, <3>3 DEF ResultInv
  <2> QED BY <2>3, <2>4, <2>5
<1> QED BY <1>2, <1>3

-----------------------------------------------------------------------------
(* The steps of main.                                                        *)

LEMMA NoneLeft ==
  ASSUME TypeOK, PlacesInv, \A i \in TaskId : fate[i] \notin {"queued", "taken"},
         \A w \in Worker : pc[w] # "done"
  PROVE  /\ tasks = <<>>
         /\ \A w \in Worker : got[w] = NoTask /\ held[w] = NoTask
<1>1. tasks = <<>> BY FateOfHead
<1>2. \A w \in Worker : got[w] = NoTask /\ held[w] = NoTask BY InHand DEF PlacesInv
<1> QED BY <1>1, <1>2

(* When no task was added, none is anywhere.                                 *)
LEMMA NoneAdded ==
  ASSUME TypeOK, HandInv, PlacesInv, AddInv, addedTasks = 0 \/ Starting
  PROVE  /\ \A i \in TaskId : fate[i] = "unused"
         /\ tasks = <<>>
         /\ \A w \in Worker : got[w] = NoTask /\ held[w] = NoTask /\ pc[w] # "done"
<1>1. \A i \in TaskId : fate[i] = "unused" BY DEF AddInv, TaskId
<1>2. \A w \in Worker : pc[w] # "done" BY <1>1, Holding
<1> QED BY <1>1, <1>2, NoneLeft

(* When the counters are equal, all tasks have ended, and all threads that   *)
(* main has just made have started.                                          *)
LEMMA AllEnded ==
  ASSUME IInv, TasksInv, pc[Main] = "poll", doneTasks = totalTasks
  PROVE  /\ \A i \in TaskId : fate[i] \notin {"queued", "taken"}
         /\ tasks = <<>>
         /\ \A w \in Worker : /\ got[w] = NoTask /\ held[w] = NoTask
                              /\ pc[w] # "done" /\ pc[w] \notin Begun
<1> USE DEF IInv, TasksInv
<1>1. addedTasks \in Nat /\ doneTasks = addedTasks BY DEF MainInv, TypeOK
<1>2. CASE Starting
  <2>1. addedTasks = numThreads /\ numThreads \in Nat BY <1>2, ThreadFacts DEF MainInv, TypeOK
  <2>2. \A w \in Worker : pc[w] # "off" => w \in 1..numThreads BY <2>1 DEF OffInv, Worker
  <2>3. Started \in SUBSET (1..numThreads) BY <2>2 DEF Started
  <2>4. Cardinality(Started) = numThreads BY <1>1, <1>2, <2>1 DEF CountInv
  <2>5. IsFiniteSet(1..numThreads) /\ Cardinality(1..numThreads) = numThreads
    BY <2>1, FS_Interval
  <2>6. Started = 1..numThreads BY <2>3, <2>4, <2>5, FS_Subset
  <2>7. \A w \in Worker : pc[w] \notin Begun BY <2>2, <2>6 DEF Started, Begun
  <2> QED BY <1>2, <2>7, NoneAdded
<1>3. CASE ~Starting
  <2>1. \A i \in TaskId : fate[i] = "unused" <=> i > addedTasks BY <1>3 DEF AddInv
  <2>2. Counted \in SUBSET (1..addedTasks)
    BY <1>1, <2>1 DEF Counted, Ended, TaskId
  <2>3. Cardinality(Counted) = addedTasks BY <1>1, <1>3 DEF CountInv
  <2>4. IsFiniteSet(1..addedTasks) /\ Cardinality(1..addedTasks) = addedTasks
    BY <1>1, FS_Interval
  <2>5. Counted = 1..addedTasks BY <2>2, <2>3, <2>4, FS_Subset
  <2>6. \A i \in TaskId : fate[i] = "unused" \/ i \in Counted BY <1>1, <2>1, <2>5 DEF TaskId
  <2>7. \A i \in TaskId : fate[i] \notin {"queued", "taken"} BY <2>6 DEF Counted, Ended
  <2>8. \A w \in Worker : pc[w] # "done"
    <3> SUFFICES ASSUME NEW w \in Worker, pc[w] = "done" PROVE FALSE OBVIOUS
    <3>1. held[w].id \in TaskId /\ fate[held[w].id] \in {"ran", "failed"} BY Holding
    <3>2. held[w].id \in Counted BY <2>6, <3>1
    <3> QED BY <3>2 DEF Counted
  <2>9. \A w \in Worker : pc[w] \notin Begun BY <1>3 DEF CountInv
  <2> QED BY <2>7, <2>8, <2>9, NoneLeft
<1> QED BY <1>2, <1>3

(* The steps that neither add a task nor begin or end a batch of them.       *)
Quiet == \/ LockToAdd \/ SetActivity \/ UnlockAdded \/ MT_WaitForTasks \/ JoinThreads
         \/ MainChoice

LEMMA QuietFrame ==
  ASSUME IInv, MainInv, AddInv, Quiet
  PROVE  /\ UNCHANGED <<tasks, fate, got, held, doneTasks, addedTasks, result>>
         /\ Starting' <=> Starting
         /\ \A w \in Worker : pc'[w] = pc[w] \/ (pc[w] = "exited" /\ pc'[w] = "off")
         /\ Starting => \A w \in Worker : pc'[w] = pc[w]
         /\ closingThreads' = closingThreads \/ (closingThreads' /\ addedTasks = 0)
         /\ \/ UNCHANGED toAdd /\ (pc'[Main] \notin Adding => toAdd = <<>>)
            \/ /\ pc'[Main] \in Adding
               /\ \E k \in Nat : toAdd' = Batch(Due', k)
<1> USE ThreadFacts DEF IInv, TypeOK, Goto, queue, counters, control, local, MainInv, Starting, Waiter,
                        Adding, AddInv
<1>1. CASE LockToAdd BY <1>1 DEF LockToAdd
<1>2. CASE SetActivity BY <1>2 DEF SetActivity
<1>3. CASE UnlockAdded BY <1>3 DEF UnlockAdded
<1>4. CASE MT_WaitForTasks BY <1>4 DEF MT_WaitForTasks
<1>5. CASE JoinThreads
  <2>1. \A w \in Worker : pc[w] \in {"off", "exited"} /\ pc'[w] = "off"
    BY <1>5 DEF JoinThreads, OffInv, Worker
  <2>2. pc[Main] = "join" /\ pc'[Main] \in {"closed", "create"} BY <1>5 DEF JoinThreads
  <2> QED BY <1>5, <2>1, <2>2 DEF JoinThreads
<1>6. CASE MT_StartThreads BY <1>6 DEF MT_StartThreads
<1>7. CASE CallWait BY <1>7 DEF CallWait
<1>8. ASSUME NEW k \in 1..MaxTasks, AddTasks(k)
      PROVE  pc'[Main] \in Adding /\ k \in Nat /\ toAdd' = Batch(Due', k)
  BY <1>8 DEF AddTasks, Due
<1>9. CASE \E k \in 1..MaxTasks : AddTasks(k) 
  BY <1>8, <1>9 DEF AddTasks
<1>10. ASSUME NEW n \in 0..MaxThreads, MT_CloseThreads(n)
       PROVE  pc'[Main] \in Adding /\ numThreads \in Nat /\ toAdd' = Batch(Due', numThreads)
  BY <1>10 DEF MT_CloseThreads, Due
<1>11. CASE \E n \in 0..MaxThreads : MT_CloseThreads(n)
  BY <1>10, <1>11 DEF MT_CloseThreads
<1>12. CASE \E n \in 1..MaxThreads : FirstSetNumThreads(n)
  BY <1>12 DEF FirstSetNumThreads
<1> QED BY <1>1, <1>2, <1>3, <1>4, <1>5, <1>6, <1>7, <1>9, <1>11, <1>12 DEF Quiet, MainChoice

(* A quiet step changes nothing that the invariants say of the tasks.        *)
LEMMA QuietKeeps ==
  ASSUME IInv, TasksInv, Quiet
  PROVE  FunInv' /\ PlacesInv' /\ AddInv' /\ CountInv' /\ ResultInv'
<1>1. TypeOK /\ MainInv /\ HandInv /\ FunInv /\ PlacesInv /\ AddInv /\ CountInv /\ ResultInv
  BY DEF IInv, TasksInv
<1>2. /\ UNCHANGED <<tasks, fate, got, held, doneTasks, addedTasks, result>>
      /\ Starting' <=> Starting
      /\ \A w \in Worker : pc'[w] = pc[w] \/ (pc[w] = "exited" /\ pc'[w] = "off")
      /\ Starting => \A w \in Worker : pc'[w] = pc[w]
      /\ closingThreads' = closingThreads \/ (closingThreads' /\ addedTasks = 0)
  BY <1>1, QuietFrame
<1>3. \/ UNCHANGED toAdd /\ (pc'[Main] \notin Adding => toAdd = <<>>)
      \/ pc'[Main] \in Adding /\ \E k \in Nat : toAdd' = Batch(Due', k)
  BY <1>1, QuietFrame
<1>4. Due' = Due \/ (tasks = <<>> /\ \A w \in Worker : got[w] = NoTask /\ held[w] = NoTask)
  BY <1>1, <1>2, NoneAdded DEF Due
<1>5. /\ \A j \in 1..Len(toAdd') : toAdd'[j].fun = Due' /\ toAdd'[j].id = addedTasks + j
      /\ pc'[Main] \notin Adding => toAdd' = <<>>
  <2>1. CASE UNCHANGED toAdd /\ (pc'[Main] \notin Adding => toAdd = <<>>)
    <3>1. Due' = Due \/ toAdd = <<>>
      <4>1. Due' = Due \/ (~closingThreads /\ closingThreads') BY <1>2 DEF Due
      <4>2. CASE ~closingThreads /\ closingThreads'
        <5>1. pc'[Main] \in Adding /\ pc[Main] = "idle"
          BY <4>2, ThreadFacts DEF Quiet, MainChoice, LockToAdd, SetActivity, UnlockAdded, MT_WaitForTasks,
             JoinThreads, MT_StartThreads, CallWait, AddTasks, MT_CloseThreads, FirstSetNumThreads, control,
             Goto, Adding, IInv, TypeOK
        <5> QED BY <1>1, <5>1 DEF AddInv, Adding
      <4> QED BY <4>1, <4>2
    <3> QED BY <1>1, <2>1, <3>1 DEF FunInv, AddInv
  <2>2. ASSUME pc'[Main] \in Adding, NEW k \in Nat, toAdd' = Batch(Due', k)
        PROVE  \A j \in 1..Len(toAdd') : toAdd'[j].fun = Due' /\ toAdd'[j].id = addedTasks + j
    <3>1. addedTasks \in Nat BY <1>1 DEF TypeOK
    <3>2. PICK fun : fun = Due' OBVIOUS
    <3> QED BY <2>2, <3>1, <3>2, BatchIs
  <2> QED BY <1>3, <2>1, <2>2
<1>6. FunInv' BY <1>1, <1>2, <1>4, <1>5 DEF FunInv
<1>7. PlacesInv' BY <1>1, <1>2 DEF PlacesInv
<1>8. AddInv' BY <1>1, <1>2, <1>5 DEF AddInv
<1>9. CountInv'
  <2>1. Counted' = Counted BY <1>2, CountedSame
  <2>2. CASE Starting
    <3>1. Started' = Started BY <1>2, <2>2 DEF Started
    <3> QED BY <1>1, <1>2, <2>2, <3>1 DEF CountInv
  <2>3. CASE ~Starting
    <3>1. \A w \in Worker : pc'[w] \notin Begun BY <1>1, <1>2, <2>3 DEF CountInv, Begun
    <3> QED BY <1>1, <1>2, <2>1, <2>3, <3>1 DEF CountInv
  <2> QED BY <2>2, <2>3
<1>10. ResultInv'
  <2>1. Failed' <=> Failed BY <1>2 DEF Failed
  <2>2. addedTasks = 0 => ~Failed BY <1>1, NoneAdded DEF Failed
  <2> QED BY <1>1, <1>2, <2>1, <2>2 DEF ResultInv
<1> QED BY <1>6, <1>7, <1>8, <1>9, <1>10

(* The task that MT_AddTask adds is the next one, and the queue has not      *)
(* seen it before.                                                           *)
LEMMA NextTask ==
  ASSUME TypeOK, MainInv, AddInv, FunInv, MT_AddTask
  PROVE  /\ Head(toAdd) \in Task /\ Head(toAdd).id = addedTasks + 1 /\ Head(toAdd).id \in TaskId
         /\ Head(toAdd).fun = Due
         /\ fate[Head(toAdd).id] = "unused"
         /\ ~Starting /\ ~Starting' /\ Due' = Due
         /\ \A w \in Worker : pc'[w] = pc[w]
         /\ UNCHANGED <<got, held, doneTasks>>
<1>1. toAdd # <<>> /\ toAdd \in Seq(Task) BY DEF MT_AddTask, TypeOK
<1>2. Head(toAdd) = toAdd[1] /\ toAdd[1] \in Task /\ 1 \in 1..Len(toAdd) BY <1>1, HeadTail
<1>3. toAdd[1].id = addedTasks + 1 /\ toAdd[1].id \in TaskId /\ toAdd[1].fun = Due
  BY <1>2 DEF AddInv, FunInv, Task
<1>4. pc[Main] = "add" /\ pc'[Main] \in {"add", "add_event"} /\ \A w \in Worker : pc'[w] = pc[w]
  BY ThreadFacts DEF MT_AddTask, Goto, TypeOK
<1>5. ~Starting /\ ~Starting' BY <1>4 DEF Starting
<1>6. fate[toAdd[1].id] = "unused" 
  <2>1. addedTasks + 1 > addedTasks BY DEF TypeOK
  <2> QED BY <1>3, <1>5, <2>1 DEF AddInv
<1>7. UNCHANGED <<got, held, doneTasks, closingThreads>> BY DEF MT_AddTask, local, control
<1> QED BY <1>2, <1>3, <1>4, <1>5, <1>6, <1>7 DEF Due

LEMMA AddKeeps ==
  ASSUME IInv, TasksInv, MT_AddTask
  PROVE  FunInv' /\ PlacesInv' /\ AddInv' /\ CountInv' /\ ResultInv'
<1> DEFINE x == Head(toAdd)
<1>1. TypeOK /\ MainInv /\ HandInv /\ FunInv /\ PlacesInv /\ AddInv /\ CountInv /\ ResultInv
  BY DEF IInv, TasksInv
<1>2. /\ x \in Task /\ x.id = addedTasks + 1 /\ x.id \in TaskId /\ x.fun = Due
      /\ fate[x.id] = "unused" /\ ~Starting /\ ~Starting' /\ Due' = Due
      /\ \A w \in Worker : pc'[w] = pc[w]
      /\ UNCHANGED <<got, held, doneTasks>>
  BY <1>1, NextTask
<1>3. /\ Len(tasks') = Len(tasks) + 1 /\ Len(tasks) \in Nat
      /\ \A j \in 1..Len(tasks) + 1 : tasks'[j] = IF j = Len(tasks) + 1 THEN x ELSE tasks[j]
  BY <1>1, <1>2, Appended DEF MT_AddTask, TypeOK
<1>4. /\ Len(toAdd') = Len(toAdd) - 1 /\ Len(toAdd) \in Nat
      /\ \A j \in 1..Len(toAdd') : j + 1 \in 1..Len(toAdd) /\ toAdd'[j] = toAdd[j + 1]
  BY <1>1, HeadTail DEF MT_AddTask, TypeOK
<1>5. /\ addedTasks \in Nat /\ addedTasks' = addedTasks + 1
      /\ fate' = [fate EXCEPT ![x.id] = "queued"] /\ fate \in [TaskId -> Fate]
      /\ result' = IF addedTasks = 0 THEN 0 ELSE result
      /\ pc[Main] = "add" /\ pc'[Main] \in {"add", "add_event"} /\ closingThreads' = closingThreads
  BY <1>1, ThreadFacts DEF MT_AddTask, control, Goto, TypeOK
<1>6. /\ \A w \in Worker : got[w].id # x.id /\ held[w].id # x.id
      /\ \A w \in Worker : /\ got[w].id \in {0} \cup TaskId /\ (got[w] = NoTask <=> got[w].id = 0)
                           /\ held[w].id \in {0} \cup TaskId /\ (held[w] = NoTask <=> held[w].id = 0)
      /\ 0 \notin TaskId
  <2>1. 0 \notin TaskId BY DEF TaskId
  <2> QED BY <1>1, <1>2, <2>1, InHand DEF PlacesInv
<1>7. /\ \A j \in 1..Len(tasks) : tasks[j].id # x.id /\ fate[tasks[j].id] = "queued" /\ tasks[j].id \in TaskId
  <2>1. \A j \in 1..Len(tasks) : tasks[j] \in Task BY <1>1 DEF TypeOK
  <2>2. \A y \in Task : y.id \in TaskId BY DEF Task
  <2> QED BY <1>1, <1>2, <2>1, <2>2 DEF PlacesInv
<1> HIDE DEF x
<1>8. FunInv'
  <2>1. \A j \in 1..Len(tasks') : tasks'[j].fun = Due BY <1>1, <1>2, <1>3 DEF FunInv
  <2>2. \A j \in 1..Len(toAdd') : toAdd'[j].fun = Due BY <1>1, <1>4 DEF FunInv
  <2> QED BY <1>1, <1>2, <2>1, <2>2 DEF FunInv
<1>9. PlacesInv'
  <2>1. \A w \in Worker : PlaceOK(w)' BY <1>1, <1>2, <1>5, <1>6 DEF PlacesInv, PlaceOK
  <2>2. \A w \in Worker, u \in Worker : u # w => Apart(w, u)' BY <1>1, <1>2 DEF PlacesInv, Apart
  <2>3. \A j \in 1..Len(tasks') : fate'[tasks'[j].id] = "queued" BY <1>2, <1>3, <1>5, <1>7
  <2>4. \A j, k \in 1..Len(tasks') : j # k => tasks'[j].id # tasks'[k].id
    BY <1>1, <1>3, <1>7, SMTT(30) DEF PlacesInv
  <2> QED BY <2>1, <2>2, <2>3, <2>4 DEF PlacesInv, PlaceOK, Apart
<1>10. AddInv'
  <2>1. \A i \in TaskId : fate[i] = "unused" <=> i > addedTasks BY <1>1, <1>2 DEF AddInv
  <2>2. \A i \in TaskId : i > addedTasks + 1 <=> i > addedTasks /\ i # x.id BY <1>2, <1>5 DEF TaskId
  <2>3. \A i \in TaskId : fate'[i] = "unused" <=> i > addedTasks' BY <1>2, <1>5, <2>1, <2>2
  <2>4. \A j \in 1..Len(toAdd') : toAdd'[j].id = addedTasks' + j
    <3>1. \A j \in 1..Len(toAdd') : toAdd'[j].id = addedTasks + (j + 1) BY <1>1, <1>4 DEF AddInv
    <3> QED BY <1>4, <1>5, <3>1
  <2> QED BY <1>2, <1>5, <2>3, <2>4 DEF AddInv, Adding
<1>11. CountInv'
  <2>1. \A i \in TaskId : fate'[i] \in Ended <=> fate[i] \in Ended BY <1>2, <1>5 DEF Ended
  <2>2. Counted' = Counted BY <1>2, <2>1, CountedSame
  <2> QED BY <1>1, <1>2, <2>2 DEF CountInv
<1>12. ResultInv'
  <2>1. Failed' <=> Failed BY <1>2, <1>5 DEF Failed
  <2>2. addedTasks = 0 => ~Failed BY <1>1, NoneAdded DEF Failed
  <2> QED BY <1>1, <1>2, <1>5, <2>1, <2>2 DEF ResultInv
<1> QED BY <1>8, <1>9, <1>10, <1>11, <1>12

LEMMA ReturnKeeps ==
  ASSUME IInv, TasksInv, WaitReturns
  PROVE  FunInv' /\ PlacesInv' /\ AddInv' /\ CountInv' /\ ResultInv'
<1> USE ThreadFacts DEF WaitReturns, local, queue
<1>1. TypeOK /\ MainInv /\ FunInv /\ AddInv
  BY DEF IInv, TasksInv
<1>2. /\ tasks' = <<>> /\ \A i \in TaskId : fate'[i] = "unused"
      /\ \A w \in Worker : /\ got'[w] = NoTask /\ held'[w] = NoTask
                           /\ pc'[w] # "done" /\ pc'[w] \notin Begun
  BY <1>1, AllEnded DEF Goto, TypeOK
<1>3. ~Starting' /\ pc'[Main] \notin Adding /\ pc[Main] \notin Adding
  BY <1>1 DEF Goto, TypeOK, Starting, Adding
<1>4. addedTasks' = 0 /\ doneTasks' = 0 /\ toAdd' = <<>> /\ toAdd = <<>>
  BY <1>1, <1>3 DEF AddInv
<1>5. FunInv' BY <1>2, <1>4 DEF FunInv
<1>6. PlacesInv' BY <1>2 DEF PlacesInv
<1>7. AddInv' BY <1>2, <1>3, <1>4 DEF AddInv, TaskId
<1>8. CountInv'
  <2>1. Counted' = {} BY <1>2 DEF Counted, Ended
  <2> QED BY <1>2, <1>3, <1>4, <2>1, FS_EmptySet DEF CountInv
<1>9. ResultInv' BY <1>2, <1>4 DEF ResultInv, Failed
<1> QED BY <1>5, <1>6, <1>7, <1>8, <1>9

LEMMA CreateKeeps ==
  ASSUME IInv, TasksInv, NEW S \in SUBSET Worker, MT_CreateThreads(S)
  PROVE  FunInv' /\ PlacesInv' /\ AddInv' /\ CountInv' /\ ResultInv'
<1> USE ThreadFacts DEF MT_CreateThreads, queue
<1>1. TypeOK /\ MainInv /\ HandInv /\ PlacesInv /\ AddInv /\ CountInv
  BY DEF IInv, TasksInv
<1>2. pc[Main] = "create" /\ addedTasks = 0 /\ ~Starting BY <1>1 DEF MainInv, Starting
<1>3. /\ tasks' = <<>> /\ \A i \in TaskId : fate'[i] = "unused" /\ fate[i] = "unused"
      /\ \A w \in Worker : got'[w] = NoTask /\ held'[w] = NoTask
  BY <1>1, <1>2, NoneAdded
<1>4. Starting'
  <2>1. ~closingThreads' /\ pc'[Main] = "wait" /\ target' = target OBVIOUS
  <2>2. target # 0 BY <1>1, <1>2 DEF MainInv
  <2> QED BY <2>1, <2>2 DEF Starting, Waiter
<1>5. toAdd' = <<>> BY <1>1, <1>2 DEF AddInv, Adding
<1>6. \A w \in Worker : pc'[w] \in {"start_inc", "off"} OBVIOUS
<1>7. FunInv' BY <1>3, <1>5 DEF FunInv
<1>8. PlacesInv' BY <1>3 DEF PlacesInv
<1>9. AddInv' BY <1>3, <1>4, <1>5 DEF AddInv
<1>10. CountInv'
  <2>1. Counted = {} BY <1>3 DEF Counted, Ended
  <2>2. doneTasks = 0 BY <1>1, <1>2, <2>1, FS_EmptySet DEF CountInv
  <2>3. Started' = {} BY <1>6 DEF Started, Begun
  <2> QED BY <1>4, <2>2, <2>3, FS_EmptySet DEF CountInv
<1>11. ResultInv' BY <1>3, <1>4 DEF ResultInv, Failed
<1> QED BY <1>7, <1>8, <1>9, <1>10, <1>11

-----------------------------------------------------------------------------
LEMMA TasksInit == Init => TasksInv
<1> SUFFICES ASSUME Init PROVE TasksInv
  OBVIOUS
<1> USE ThreadFacts DEF Init
<1>1. pc[Main] = "idle" /\ \A w \in Worker : pc[w] = "off" OBVIOUS
<1>2. /\ tasks = <<>> /\ toAdd = <<>> /\ \A i \in TaskId : fate[i] = "unused"
      /\ \A w \in Worker : got[w] = NoTask /\ held[w] = NoTask /\ freed[w] = FALSE
  OBVIOUS
<1>3. ~Starting BY <1>1 DEF Starting
<1>4. MainInv BY <1>1, <1>3 DEF MainInv, Adding
<1>5. HandInv BY <1>1, <1>2 DEF HandInv, Getting
<1>6. FunInv BY <1>2 DEF FunInv
<1>7. PlacesInv BY <1>2 DEF PlacesInv
<1>8. AddInv BY <1>1, <1>2, <1>3 DEF AddInv, TaskId, Adding
<1>9. CountInv
  <2>1. Counted = {} BY <1>2 DEF Counted, Ended
  <2>2. doneTasks = 0 OBVIOUS
  <2> QED BY <1>1, <1>3, <2>1, <2>2, FS_EmptySet DEF CountInv, Begun
<1>10. ResultInv BY <1>2 DEF ResultInv, Failed
<1> QED BY <1>4, <1>5, <1>6, <1>7, <1>8, <1>9, <1>10 DEF TasksInv

LEMMA TasksStep ==
  ASSUME IInv, TasksInv, [Next]_vars
  PROVE  TasksInv'
<1>1. CASE MainStep \/ MainChoice
  <2>1. MainInv' BY <1>1, MainMain DEF IInv, TasksInv
  <2>2. HandInv' BY <1>1, HandMain DEF IInv, TasksInv
  <2>3. FunInv' /\ PlacesInv' /\ AddInv' /\ CountInv' /\ ResultInv'
    BY <1>1, QuietKeeps, AddKeeps, ReturnKeeps, CreateKeeps DEF MainStep, Quiet
  <2> QED BY <2>1, <2>2, <2>3 DEF TasksInv
<1>2. ASSUME NEW v \in Worker, WorkerStep(v) \/ EventTimeout(v) PROVE TasksInv'
  BY <1>2, MainWorker, HandWorker, FunWorker, PlacesWorker, AddWorker, CountWorker, ResultWorker
     DEF IInv, TasksInv
<1>3. CASE UNCHANGED vars
  <2> USE <1>3 DEF vars, queue, counters, control, local
  <2>1. (Starting' <=> Starting) /\ Due' = Due BY DEF Starting, Waiter, Due
  <2>2. Counted' = Counted /\ Started' = Started /\ (Failed' <=> Failed)
    BY DEF Counted, Started, Failed
  <2>3. MainInv' BY <2>1 DEF TasksInv, MainInv
  <2>4. HandInv' BY DEF TasksInv, HandInv
  <2>5. FunInv' BY <2>1 DEF TasksInv, FunInv
  <2>6. PlacesInv' BY DEF TasksInv, PlacesInv
  <2>7. AddInv' BY <2>1 DEF TasksInv, AddInv
  <2>8. CountInv' BY <2>1, <2>2 DEF TasksInv, CountInv
  <2>9. ResultInv' BY <2>1, <2>2 DEF TasksInv, ResultInv
  <2> QED BY <2>3, <2>4, <2>5, <2>6, <2>7, <2>8, <2>9 DEF TasksInv
<1> QED BY <1>1, <1>2, <1>3 DEF Next

LEMMA TasksInductive == Spec => [](IInv /\ TasksInv)
<1>1. Spec => []IInv BY Inductive
<1>2. IInv /\ TasksInv /\ [Next]_vars => TasksInv' BY TasksStep
<1> QED BY <1>1, <1>2, TasksInit, PTL DEF Spec

(* CloseThread, with its assertion that closingThreads is set, and jobs are  *)
(* never mixed; a job runs with the eval functions that lock the cache       *)
(* exactly when there is more than one thread; and no worker runs anything   *)
(* after CloseThread has freed its data.                                     *)
THEOREM TasksRunInTurn == Spec => []TasksInTurn
<1>1. IInv /\ TasksInv => TasksInTurn
  <2> SUFFICES ASSUME IInv, TasksInv, NEW w \in Worker, pc[w] = "run"
               PROVE  /\ held[w].fun = "CloseThread" <=> closingThreads
                      /\ held[w].fun = "Job" => (locking <=> numThreads > 1)
                      /\ ~freed[w]
    BY DEF TasksInTurn, RunsInTurn, NoUseAfterFree
  <2> USE DEF IInv, TasksInv
  <2>1. held[w] # NoTask /\ held[w].fun = Due /\ ~freed[w] BY DEF HandInv, FunInv
  <2>2. held[w].id \in TaskId /\ fate[held[w].id] = "taken" BY Holding
  <2>3. ASSUME ~closingThreads PROVE locking <=> numThreads > 1
    <3>1. ~Starting /\ addedTasks # 0 BY <2>2, NoneAdded
    <3>2. pc[Main] \in Adding \cup {"idle", "wait", "poll"}
      BY <2>3, <3>1 DEF MainInv, TypeOK, MainPC, Adding
    <3>3. target = 0 /\ numThreads # 0 BY <2>3, <3>1, <3>2 DEF MainInv, Starting, Waiter
    <3> QED BY <2>3, <3>3 DEF MainInv
  <2> QED BY <2>1, <2>3 DEF Due
<1> QED BY <1>1, TasksInductive, PTL

-----------------------------------------------------------------------------
(* The refinement of TaskBatch.                                              *)

LEMMA RefinesInit == Init => Promise!Init
BY DEF Init, Promise!Init

LEMMA RefinesMain ==
  ASSUME IInv, TasksInv, MainStep \/ MainChoice
  PROVE  Promise!Next \/ UNCHANGED Promise!vars
<1> USE DEF IInv, TasksInv
<1>1. CASE MT_AddTask
  <2>1. /\ Head(toAdd).id \in TaskId /\ fate[Head(toAdd).id] = "unused"
    BY <1>1, NextTask
  <2>2. Promise!Add(Head(toAdd).id) BY <1>1, <2>1 DEF MT_AddTask, Promise!Add, Promise!Become
  <2> QED BY <2>1, <2>2 DEF Promise!Next
<1>2. CASE WaitReturns
  <2>1. \A i \in TaskId : fate[i] \notin {"queued", "taken"} BY <1>2, AllEnded DEF WaitReturns
  <2>2. fate' = [i \in TaskId |-> "unused"] /\ reply' = result BY <1>2 DEF WaitReturns
  <2>3. ASSUME \E i \in TaskId : fate[i] # "unused"
        PROVE  reply' = -1 <=> \E i \in TaskId : fate[i] = "failed"
    <3>1. addedTasks # 0 /\ ~Starting BY <2>3, NoneAdded
    <3> QED BY <2>2, <3>1 DEF ResultInv, Failed
  <2>4. Promise!Return BY <2>1, <2>2, <2>3 DEF Promise!Return
  <2> QED BY <2>4 DEF Promise!Next
<1>3. CASE Quiet
  <2>1. fate' = fate BY <1>3, QuietFrame
  <2>2. reply' = reply
    BY <1>3 DEF Quiet, MainChoice, LockToAdd, SetActivity, UnlockAdded, MT_WaitForTasks, JoinThreads,
       MT_StartThreads, CallWait, AddTasks, MT_CloseThreads, FirstSetNumThreads
  <2> QED BY <2>1, <2>2 DEF Promise!vars
<1>4. CASE \E S \in SUBSET Worker : MT_CreateThreads(S)
  BY <1>4 DEF MT_CreateThreads, Promise!vars
<1> QED BY <1>1, <1>2, <1>3, <1>4 DEF MainStep, Quiet

LEMMA RefinesWorker ==
  ASSUME IInv, TasksInv, NEW v \in Worker, WorkerStep(v) \/ EventTimeout(v)
  PROVE  Promise!Next \/ UNCHANGED Promise!vars
<1> USE DEF IInv, TasksInv
<1>1. reply' = reply BY Alone
<1>2. CASE Pops(v)
  <2>1. Head(tasks).id \in TaskId /\ fate[Head(tasks).id] = "queued" BY <1>2, FateOfHead DEF Pops
  <2>2. Promise!Take(Head(tasks).id) BY <1>1, <1>2, <2>1 DEF Pops, Promise!Take, Promise!Become
  <2> QED BY <2>1, <2>2 DEF Promise!Next
<1>3. CASE Ends(v)
  <2>1. held[v].id \in TaskId /\ fate[held[v].id] = "taken" BY <1>3, Holding DEF Ends
  <2>2. PICK end \in {"ran", "failed"} : fate' = [fate EXCEPT ![held[v].id] = end] BY <1>3 DEF Ends
  <2>3. Promise!Finish(held[v].id) BY <1>1, <2>1, <2>2 DEF Promise!Finish, Promise!Become
  <2> QED BY <2>1, <2>3 DEF Promise!Next
<1>4. CASE Drops(v)
  <2>1. got[v].id \in TaskId /\ fate[got[v].id] = "taken" BY <1>4, Holding DEF Drops
  <2>2. Promise!Finish(got[v].id) BY <1>1, <1>4, <2>1 DEF Drops, Promise!Finish, Promise!Become
  <2> QED BY <2>1, <2>2 DEF Promise!Next
<1>5. CASE Only(v) \/ Holds(v) \/ Counts(v)
  BY <1>1, <1>5 DEF Only, Holds, Counts, Promise!vars
<1> QED BY <1>2, <1>3, <1>4, <1>5, HandedOn

(* The pool keeps the promise of TaskBatch: every task added is taken once   *)
(* and ends once, MT_WaitForTasks returns only when all of them have ended,  *)
(* and returns -1 exactly when one of them failed, for any number of threads *)
(* and whichever of them could not be created.                               *)
THEOREM Refines == Spec => Implements
<1>1. IInv /\ TasksInv /\ [Next]_vars => [Promise!Next]_(Promise!vars)
  <2> SUFFICES ASSUME IInv, TasksInv, [Next]_vars
               PROVE  Promise!Next \/ UNCHANGED Promise!vars
    OBVIOUS
  <2>1. CASE UNCHANGED vars BY <2>1 DEF vars, Promise!vars
  <2> QED BY <2>1, RefinesMain, RefinesWorker DEF Next
<1> QED
  BY <1>1, RefinesInit, TasksInductive, PTL DEF Spec, Implements, Promise!Spec
=============================================================================
