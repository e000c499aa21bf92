----------------------------- MODULE ThreadPool -----------------------------
(* The task queue and its worker threads: multithread.c and mtsupport.c.     *)
(*                                                                           *)
(* The main thread adds tasks, waits for all of them and changes the number  *)
(* of workers; a worker waits for the manual-reset event `activity', takes   *)
(* one task under queueLock, runs it and counts it in doneTasks.  A step is  *)
(* the code between two accesses to what threads share, so a thread may be   *)
(* overtaken between the pop and the reset of the event, or between counting *)
(* a task and looking at closingThreads.                                     *)
EXTENDS Naturals, Integers, Sequences, FiniteSets

CONSTANTS MaxThreads,     \* MAX_NUMTHREADS
          MaxTasks,       \* the largest batch between two waits (bound)
          CreateMayFail   \* may g_thread_try_new return NULL?

ASSUME MaxThreadsAssumption == MaxThreads \in Nat \ {0}
ASSUME MaxTasksAssumption == MaxTasks \in Nat /\ MaxTasks >= MaxThreads
ASSUME CreateMayFailAssumption == CreateMayFail \in BOOLEAN

Main == 0
Worker == 1..MaxThreads
Thread == {Main} \cup Worker
NoThread == -1

TaskId == 1..MaxTasks
Fun == {"Job", "CloseThread"}
Task == [fun : Fun, id : TaskId]
NoTask == [fun |-> "None", id |-> 0]

VARIABLES
  tasks,          \* td.tasks, the list
  activity,       \* td.activity->signalled
  queueLock,      \* who holds td.queueLock
  doneTasks, addedTasks, totalTasks, result, closingThreads, numThreads,
  locking,        \* do the eval function pointers lock the cache?
  pc,             \* where each thread is
  got,            \* what each worker's last MT_GetTask returned
  held,           \* the task each worker's loop is running
  freed,          \* has CloseThread freed the worker's ThreadLocalData?
  toAdd,          \* main: what is left of the batch being added
  target,         \* main: the argument of MT_SetNumThreads, 0 for MT_Close
  reply,          \* what the last MT_WaitForTasks returned
  fate            \* history: what became of each task of this batch

queue == <<tasks, activity, queueLock>>
counters == <<doneTasks, addedTasks, totalTasks, result>>
control == <<closingThreads, numThreads, locking, target>>
local == <<got, held, freed>>
vars == <<queue, counters, control, local, pc, toAdd, reply, fate>>

(* "failed" is a job that reported failure, by MT_SetResultFailed or by      *)
(* MT_AbortTasks; "aborted" is one that MT_AbortTasks took off the list.     *)
Fate == {"unused", "queued", "taken", "ran", "failed", "aborted"}

MainPC == {"idle", "add_lock", "add", "add_event", "wait", "poll", "create", "join", "closed"}
WorkerPC == {"off", "start_inc", "start_done", "event", "get_lock", "get_pop", "get_reset",
             "get_release", "run", "ab_done", "ab_result", "done", "check", "exited"}

Goto(t, l) == pc' = [pc EXCEPT ![t] = l]

Init ==
  /\ tasks = <<>> /\ activity = FALSE /\ queueLock = NoThread
  /\ doneTasks = 0 /\ addedTasks = 0 /\ totalTasks = -1 /\ result = 0
  /\ closingThreads = FALSE /\ numThreads = 0 /\ locking = FALSE /\ target = 0
  /\ pc = [t \in Thread |-> IF t = Main THEN "idle" ELSE "off"]
  /\ got = [w \in Worker |-> NoTask]
  /\ held = [w \in Worker |-> NoTask]
  /\ freed = [w \in Worker |-> FALSE]
  /\ toAdd = <<>> /\ reply = 0
  /\ fate = [i \in TaskId |-> "unused"]

-----------------------------------------------------------------------------
(* Main: adding tasks.                                                       *)

(* Mutant: numbered from the count before the batch.                         *)
BatchFromZero(fun, k) == [i \in 1..k |-> [fun |-> fun, id |-> addedTasks + i - 1]]

(* The tasks a call hands over: k of them, numbered on from those added.     *)
Batch(fun, k) == [i \in 1..k |-> [fun |-> fun, id |-> addedTasks + i]]

(* The caller of MT_AddTask(pt, TRUE) (k = 1), or of mt_add_tasks(k, ...).   *)
AddTasks(k) ==
  /\ pc[Main] = "idle" /\ numThreads > 0
  /\ addedTasks + k <= MaxTasks
  /\ toAdd' = Batch("Job", k)
  /\ Goto(Main, "add_lock")
  /\ UNCHANGED <<queue, counters, control, local, reply, fate>>

(* Mutant: the lock is not waited for.                                       *)
AddUnlocked ==
  /\ pc[Main] = "add_lock"
  /\ queueLock' = Main
  /\ Goto(Main, "add")
  /\ UNCHANGED <<tasks, activity, counters, control, local, toAdd, reply, fate>>

LockToAdd ==
  /\ pc[Main] = "add_lock" /\ queueLock = NoThread
  /\ queueLock' = Main
  /\ Goto(Main, "add")
  /\ UNCHANGED <<tasks, activity, counters, control, local, toAdd, reply, fate>>

(* Mutants: the result of the last batch is kept; the event is set for the   *)
(* second task.                                                              *)
AddKeepingResult ==
  /\ pc[Main] = "add" /\ toAdd # <<>>
  /\ addedTasks' = addedTasks + 1
  /\ tasks' = Append(tasks, Head(toAdd))
  /\ toAdd' = Tail(toAdd)
  /\ fate' = [fate EXCEPT ![Head(toAdd).id] = "queued"]
  /\ Goto(Main, IF Len(tasks') = 1 THEN "add_event" ELSE "add")
  /\ UNCHANGED <<activity, queueLock, doneTasks, totalTasks, result, control, local, reply>>

AddSignalLate ==
  /\ pc[Main] = "add" /\ toAdd # <<>>
  /\ result' = IF addedTasks = 0 THEN 0 ELSE result
  /\ addedTasks' = addedTasks + 1
  /\ tasks' = Append(tasks, Head(toAdd))
  /\ toAdd' = Tail(toAdd)
  /\ fate' = [fate EXCEPT ![Head(toAdd).id] = "queued"]
  /\ Goto(Main, IF Len(tasks) = 1 THEN "add_event" ELSE "add")
  /\ UNCHANGED <<activity, queueLock, doneTasks, totalTasks, control, local, reply>>

(* MT_AddTask up to the test of the list's length.                           *)
MT_AddTask ==
  /\ pc[Main] = "add" /\ toAdd # <<>>
  /\ result' = IF addedTasks = 0 THEN 0 ELSE result
  /\ addedTasks' = addedTasks + 1
  /\ tasks' = Append(tasks, Head(toAdd))
  /\ toAdd' = Tail(toAdd)
  /\ fate' = [fate EXCEPT ![Head(toAdd).id] = "queued"]
  /\ Goto(Main, IF Len(tasks') = 1 THEN "add_event" ELSE "add")
  /\ UNCHANGED <<activity, queueLock, doneTasks, totalTasks, control, local, reply>>

SetActivity ==
  /\ pc[Main] = "add_event"
  /\ activity' = TRUE
  /\ Goto(Main, "add")
  /\ UNCHANGED <<tasks, queueLock, counters, control, local, toAdd, reply, fate>>

UnlockAdded ==
  /\ pc[Main] = "add" /\ toAdd = <<>>
  /\ queueLock' = NoThread
  /\ Goto(Main, IF closingThreads THEN "wait" ELSE "idle")
  /\ UNCHANGED <<tasks, activity, counters, control, local, toAdd, reply, fate>>

(* The caller of MT_WaitForTasks, once it has added all its tasks.  A match  *)
(* without a record to analyse waits for no task at all.                     *)
CallWait ==
  /\ pc[Main] = "idle" /\ numThreads > 0
  /\ Goto(Main, "wait")
  /\ UNCHANGED <<queue, counters, control, local, toAdd, reply, fate>>

MT_WaitForTasks ==
  /\ pc[Main] = "wait"
  /\ totalTasks' = addedTasks
  /\ Goto(Main, "poll")
  /\ UNCHANGED <<queue, doneTasks, addedTasks, result, control, local, toAdd, reply, fate>>

(* Creation and closing use the same wait; it is the caller that continues.  *)
Waiter == IF closingThreads THEN "close"
          ELSE IF target # 0 THEN "create" ELSE "jobs"

(* WaitForAllTasks found the counters equal: clear them, return the result.  *)
WaitReturns ==
  /\ pc[Main] = "poll" /\ doneTasks = totalTasks
  /\ doneTasks' = 0 /\ addedTasks' = 0 /\ totalTasks' = -1
  /\ reply' = result
  /\ fate' = [i \in TaskId |-> "unused"]
  /\ Goto(Main, IF closingThreads THEN "join" ELSE "idle")
  /\ IF Waiter = "create"
       THEN /\ locking' = (target # 1)
            /\ target' = 0
       ELSE UNCHANGED <<locking, target>>
  /\ UNCHANGED <<queue, result, closingThreads, numThreads, local, toAdd>>

-----------------------------------------------------------------------------
(* Main: MT_StartThreads, MT_SetNumThreads, MT_Close.                        *)

MT_StartThreads ==
  /\ pc[Main] = "idle" /\ numThreads = 0
  /\ numThreads' = 1 /\ target' = 1
  /\ Goto(Main, "create")
  /\ UNCHANGED <<queue, counters, closingThreads, locking, local, toAdd, reply, fate>>

(* Mutant: the workers are not told that threads are being closed.           *)
CloseUntold(n) ==
  /\ pc[Main] = "idle" /\ addedTasks = 0
  /\ numThreads # 0 /\ numThreads # n
  /\ target' = n
  /\ toAdd' = Batch("CloseThread", numThreads)
  /\ Goto(Main, "add_lock")
  /\ UNCHANGED <<queue, counters, closingThreads, numThreads, locking, local, reply, fate>>

(* MT_CloseThreads up to its wait, called to have n threads instead (n = 0   *)
(* is MT_Close).                                                             *)
MT_CloseThreads(n) ==
  /\ pc[Main] = "idle" /\ addedTasks = 0
  /\ numThreads # 0 /\ numThreads # n
  /\ closingThreads' = TRUE /\ target' = n
  /\ toAdd' = Batch("CloseThread", numThreads)
  /\ Goto(Main, "add_lock")
  /\ UNCHANGED <<queue, counters, numThreads, locking, local, reply, fate>>

(* MT_SetNumThreads(n) from the start-up files, before there is any thread.  *)
FirstSetNumThreads(n) ==
  /\ pc[Main] = "idle" /\ numThreads = 0
  /\ numThreads' = n /\ target' = n
  /\ Goto(Main, "create")
  /\ UNCHANGED <<queue, counters, closingThreads, locking, local, toAdd, reply, fate>>

(* g_thread_join of every worker, after which the caller goes on.            *)
JoinThreads ==
  /\ pc[Main] = "join"
  /\ \A w \in 1..numThreads : pc[w] = "exited"
  /\ numThreads' = IF target = 0 THEN numThreads ELSE target
  /\ pc' = [t \in Thread |-> IF t \in Worker THEN "off"
                             ELSE IF target = 0 THEN "closed" ELSE "create"]
  /\ UNCHANGED <<queue, counters, closingThreads, locking, target, local, toAdd, reply, fate>>

(* The threads made are S: all of them, unless g_thread_try_new failed.      *)
MT_CreateThreads(S) ==
  /\ pc[Main] = "create"
  /\ S \subseteq 1..numThreads /\ (S = 1..numThreads \/ CreateMayFail)
  /\ result' = 0 /\ closingThreads' = FALSE
  /\ addedTasks' = numThreads
  /\ freed' = [w \in Worker |-> FALSE]
  /\ pc' = [t \in Thread |-> IF t = Main THEN "wait" ELSE IF t \in S THEN "start_inc" ELSE "off"]
  /\ UNCHANGED <<queue, doneTasks, totalTasks, numThreads, locking, target, got, held,
                 toAdd, reply, fate>>

-----------------------------------------------------------------------------
(* A worker: MT_WorkerThreadFunction.                                        *)

StartInc(w) ==
  /\ pc[w] = "start_inc"
  /\ result' = result + 1
  /\ Goto(w, "start_done")
  /\ UNCHANGED <<queue, doneTasks, addedTasks, totalTasks, control, local, toAdd, reply, fate>>

StartDone(w) ==
  /\ pc[w] = "start_done"
  /\ doneTasks' = doneTasks + 1
  /\ Goto(w, "event")
  /\ UNCHANGED <<queue, addedTasks, totalTasks, result, control, local, toAdd, reply, fate>>

(* WaitForManualEvent returns: the event is signalled ...                    *)
EventSignalled(w) ==
  /\ pc[w] = "event" /\ activity
  /\ Goto(w, "get_lock")
  /\ UNCHANGED <<queue, counters, control, local, toAdd, reply, fate>>

(* ... or it is not, and ten seconds have passed.                            *)
EventTimeout(w) ==
  /\ pc[w] = "event" /\ ~activity
  /\ Goto(w, "get_lock")
  /\ UNCHANGED <<queue, counters, control, local, toAdd, reply, fate>>

GetLock(w) ==
  /\ pc[w] = "get_lock" /\ queueLock = NoThread
  /\ queueLock' = w
  /\ Goto(w, "get_pop")
  /\ UNCHANGED <<tasks, activity, counters, control, local, toAdd, reply, fate>>

GetPop(w) ==
  /\ pc[w] = "get_pop"
  /\ \/ /\ tasks = <<>>
        /\ Goto(w, "get_release")
        /\ UNCHANGED <<tasks, got, fate>>
     \/ /\ tasks # <<>>
        /\ got' = [got EXCEPT ![w] = Head(tasks)]
        /\ tasks' = Tail(tasks)
        /\ fate' = [fate EXCEPT ![Head(tasks).id] = "taken"]
        /\ Goto(w, IF tasks' = <<>> THEN "get_reset" ELSE "get_release")
  /\ UNCHANGED <<activity, queueLock, counters, control, held, freed, toAdd, reply>>

GetReset(w) ==
  /\ pc[w] = "get_reset"
  /\ activity' = FALSE
  /\ Goto(w, "get_release")
  /\ UNCHANGED <<tasks, queueLock, counters, control, local, toAdd, reply, fate>>

(* MT_GetTask was called by the loop of the worker, or by MT_AbortTasks from *)
(* the job that the worker is running.                                       *)
GetRelease(w) ==
  /\ pc[w] = "get_release"
  /\ queueLock' = NoThread
  /\ \/ /\ held[w] = NoTask
        /\ held' = [held EXCEPT ![w] = got[w]]
        /\ got' = [got EXCEPT ![w] = NoTask]
        /\ Goto(w, IF got[w] = NoTask THEN "check" ELSE "run")
     \/ /\ held[w] # NoTask
        /\ Goto(w, IF got[w] = NoTask THEN "ab_result" ELSE "ab_done")
        /\ UNCHANGED <<got, held>>
  /\ UNCHANGED <<tasks, activity, counters, control, freed, toAdd, reply, fate>>

(* A job that succeeds, and one that calls MT_SetResultFailed.               *)
RunJob(w) ==
  /\ pc[w] = "run" /\ held[w].fun = "Job"
  /\ \/ /\ fate' = [fate EXCEPT ![held[w].id] = "ran"]
        /\ UNCHANGED result
     \/ /\ fate' = [fate EXCEPT ![held[w].id] = "failed"]
        /\ result' = -1
  /\ Goto(w, "done")
  /\ UNCHANGED <<queue, doneTasks, addedTasks, totalTasks, control, local, toAdd, reply>>

(* A job, AnalyseMoveMT, that calls MT_AbortTasks.                           *)
RunAbort(w) ==
  /\ pc[w] = "run" /\ held[w].fun = "Job"
  /\ Goto(w, "get_lock")
  /\ UNCHANGED <<queue, counters, control, local, toAdd, reply, fate>>

(* Mutant: an aborted task is not counted.                                   *)
AbortUncounted(w) ==
  /\ pc[w] = "ab_done"
  /\ fate' = [fate EXCEPT ![got[w].id] = "aborted"]
  /\ got' = [got EXCEPT ![w] = NoTask]
  /\ Goto(w, "get_lock")
  /\ UNCHANGED <<queue, counters, control, held, freed, toAdd, reply>>

AbortDone(w) ==
  /\ pc[w] = "ab_done"
  /\ doneTasks' = doneTasks + 1
  /\ fate' = [fate EXCEPT ![got[w].id] = "aborted"]
  /\ got' = [got EXCEPT ![w] = NoTask]
  /\ Goto(w, "get_lock")
  /\ UNCHANGED <<queue, addedTasks, totalTasks, result, control, held, freed, toAdd, reply>>

AbortResult(w) ==
  /\ pc[w] = "ab_result"
  /\ result' = -1
  /\ fate' = [fate EXCEPT ![held[w].id] = "failed"]
  /\ Goto(w, "done")
  /\ UNCHANGED <<queue, doneTasks, addedTasks, totalTasks, control, local, toAdd, reply>>

CloseThread(w) ==
  /\ pc[w] = "run" /\ held[w].fun = "CloseThread"
  /\ freed' = [freed EXCEPT ![w] = TRUE]
  /\ result' = result + 1
  /\ fate' = [fate EXCEPT ![held[w].id] = "ran"]
  /\ Goto(w, "done")
  /\ UNCHANGED <<queue, doneTasks, addedTasks, totalTasks, control, got, held, toAdd, reply>>

MT_TaskDone(w) ==
  /\ pc[w] = "done"
  /\ doneTasks' = doneTasks + 1
  /\ held' = [held EXCEPT ![w] = NoTask]
  /\ Goto(w, "check")
  /\ UNCHANGED <<queue, addedTasks, totalTasks, result, control, got, freed, toAdd, reply, fate>>

CheckClosing(w) ==
  /\ pc[w] = "check"
  /\ Goto(w, IF closingThreads THEN "exited" ELSE "event")
  /\ UNCHANGED <<queue, counters, control, local, toAdd, reply, fate>>

-----------------------------------------------------------------------------
(* What main is bound to do once it has begun, and what it chooses to do.    *)
MainStep == \/ LockToAdd \/ MT_AddTask \/ SetActivity \/ UnlockAdded
            \/ MT_WaitForTasks \/ WaitReturns \/ JoinThreads
            \/ \E S \in SUBSET Worker : MT_CreateThreads(S)

MainChoice == \/ MT_StartThreads \/ CallWait
              \/ \E k \in 1..MaxTasks : AddTasks(k)
              \/ \E n \in 0..MaxThreads : MT_CloseThreads(n)
              \/ \E n \in 1..MaxThreads : FirstSetNumThreads(n)

WorkerStep(w) == \/ StartInc(w) \/ StartDone(w) \/ EventSignalled(w)
                 \/ GetLock(w) \/ GetPop(w) \/ GetReset(w) \/ GetRelease(w)
                 \/ RunJob(w) \/ RunAbort(w) \/ AbortDone(w) \/ AbortResult(w)
                 \/ CloseThread(w) \/ MT_TaskDone(w) \/ CheckClosing(w)

Next == MainStep \/ MainChoice \/ \E w \in Worker : WorkerStep(w) \/ EventTimeout(w)

Spec == Init /\ [][Next]_vars

(* The scheduler runs every thread that can go on, a job ends, main waits    *)
(* for the tasks it has added, and a mutex that is free again and again is   *)
(* at last given to a thread that asks for it.                               *)
Fairness ==
  /\ WF_vars(MainStep) /\ SF_vars(LockToAdd) /\ WF_vars(CallWait)
  /\ \A w \in Worker : WF_vars(WorkerStep(w)) /\ SF_vars(GetLock(w))

FairSpec == Spec /\ Fairness

-----------------------------------------------------------------------------
(* Every variable has its type.                                              *)
TypeOK ==
  /\ tasks \in Seq(Task) /\ activity \in BOOLEAN
  /\ queueLock \in Thread \cup {NoThread}
  /\ doneTasks \in Nat /\ addedTasks \in Nat /\ totalTasks \in Nat \cup {-1}
  /\ result \in Nat \cup {-1}
  /\ closingThreads \in BOOLEAN /\ locking \in BOOLEAN
  /\ numThreads \in {0} \cup Worker /\ target \in {0} \cup Worker
  /\ pc \in [Thread -> MainPC \cup WorkerPC]
  /\ pc[Main] \in MainPC /\ \A w \in Worker : pc[w] \in WorkerPC
  /\ got \in [Worker -> Task \cup {NoTask}] /\ held \in [Worker -> Task \cup {NoTask}]
  /\ freed \in [Worker -> BOOLEAN]
  /\ toAdd \in Seq(Task) /\ reply \in Nat \cup {-1}
  /\ fate \in [TaskId -> Fate]

(* queueLock protects the list and the event: a thread is between taking and *)
(* releasing it exactly when it is the owner.                                *)
Critical == {"add", "add_event", "get_pop", "get_reset", "get_release"}
MutexInv == \A t \in Thread : pc[t] \in Critical <=> queueLock = t

(* No wake-up is lost: whenever the queue is unlocked the event is signalled *)
(* if and only if there is a task for a worker to take (MT_GetTask resets it *)
(* at the last task, MT_AddTask sets it at the first).                       *)
NoLostWakeup == queueLock = NoThread => (activity <=> tasks # <<>>)

(* The assertion of CloseThread, and its converse: a worker runs CloseThread *)
(* exactly while closingThreads is set, so no job is ever mixed with it; and *)
(* a job runs with the eval functions that lock the cache exactly when more  *)
(* than one worker can run jobs, whatever changed their number.              *)
RunsInTurn ==
  \A w \in Worker : pc[w] = "run" =>
    /\ held[w].fun = "CloseThread" <=> closingThreads
    /\ held[w].fun = "Job" => (locking <=> numThreads > 1)

(* CloseThread frees the worker's ThreadLocalData: no worker runs a task     *)
(* after that (MT_Get_nnState would be a dangling pointer, a second          *)
(* CloseThread a double free), until MT_CreateThreads makes a new one.       *)
NoUseAfterFree == \A w \in Worker : pc[w] = "run" => ~freed[w]

(* A worker runs what it may run at that time, with its data still there.    *)
TasksInTurn == RunsInTurn /\ NoUseAfterFree

(* "Wait for all the threads to be created (timeout after 1 second)", and    *)
(* the wait for jobs, return, whatever the jobs report, unless a thread      *)
(* could not be created.                                                     *)
Uncreated == \E w \in 1..numThreads : pc[w] = "off"
WaitsReturn == pc[Main] = "wait" /\ Waiter # "close" ~> pc[Main] = "idle" \/ Uncreated

(* MT_CloseThreads, called by MT_SetNumThreads and MT_Close, returns.        *)
CloseReturns == closingThreads ~> ~closingThreads \/ pc[Main] = "closed"

-----------------------------------------------------------------------------
(* The pool keeps the promise of TaskBatch: a task added is taken and ends   *)
(* once, the wait returns when all have ended and not before, with -1 if and *)
(* only if a job failed; the reset of the result in MT_AddTask keeps what an *)
(* earlier batch reported out of it.                                         *)
Promise == INSTANCE TaskBatch WITH failure <- reply = -1
Implements == Promise!Spec
=============================================================================
