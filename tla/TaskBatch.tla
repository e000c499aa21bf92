------------------------------ MODULE TaskBatch ------------------------------
(* What the pool of multithread.c promises to the code that uses it: a task  *)
(* that is added is taken by one thread, once, and finishes or is aborted;   *)
(* MT_WaitForTasks returns when every task added has finished, not before,   *)
(* and returns -1 exactly when a job failed.  (If no task was added, what it *)
(* returns is left over from before.)                                        *)
CONSTANTS TaskId

VARIABLES fate,     \* what became of each task of the batch
          failure   \* did the last wait return -1?

vars == <<fate, failure>>

Init == fate = [i \in TaskId |-> "unused"] /\ failure = FALSE

Become(i, from, to) == /\ fate[i] = from
                       /\ fate' = [fate EXCEPT ![i] = to]
                       /\ UNCHANGED failure

Add(i) == Become(i, "unused", "queued")
Take(i) == Become(i, "queued", "taken")
Finish(i) == \E end \in {"ran", "failed", "aborted"} : Become(i, "taken", end)

Return == /\ \A i \in TaskId : fate[i] \notin {"queued", "taken"}
          /\ fate' = [i \in TaskId |-> "unused"]
          /\ failure' \in BOOLEAN
          /\ (\E i \in TaskId : fate[i] # "unused")
               => (failure' <=> \E i \in TaskId : fate[i] = "failed")

Next == Return \/ \E i \in TaskId : Add(i) \/ Take(i) \/ Finish(i)

Spec == Init /\ [][Next]_vars
=============================================================================
