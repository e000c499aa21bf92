----------------------------- MODULE EvalCache -----------------------------
(* The cache of evaluations: lib/cache.c, its use by eval.c, and what the    *)
(* commands of the main thread do to it while no evaluation is going on.     *)
(*                                                                           *)
(* An evaluation asks for the results under one key (EvaluatePositionCache)  *)
(* or several (EvaluatePositionCubeful3, one for each state of the cube).    *)
(* If one is missing it evaluates the position, for which it evaluates       *)
(* others in the same way, and adds its results.  A step of a thread is the  *)
(* code between two accesses to an entry; copying a node into a slot is two. *)
EXTENDS Integers, Sequences, FiniteSets

CONSTANTS Key, NoKey,      \* position and evaluation context, as one value
          Hash,            \* Hash[k]: GetHashKey(k) before it is masked
          Requests,        \* the sequences of keys asked for, by nPlies + 1
          MaxThreads,
          Sizes            \* what `set cache' may ask for

ASSUME KeyAssumption == NoKey \notin Key
ASSUME HashAssumption == Hash \in [Key -> Nat]
ASSUME RequestsAssumption == Requests \in Seq(SUBSET Seq(Key))
ASSUME BoundsAssumption == MaxThreads \in Nat \ {0} /\ Sizes \subseteq Nat

Thread == 1..MaxThreads
UINT_MAX == -1             \* what (unsigned int) -1 is written as here

VARIABLES
  portable,    \* the lock counts (no suitable intrinsics), or is set and tested
  numThreads,  \* of the pool: with one, the functions do not lock
  entries,     \* pc->entries, from 0
  size, cCache,
  met,         \* which match equity table evaluations use
  saved,       \* CommandCalibrate: iCacheSize, or None
  pc,          \* where each thread is
  stack,       \* its evaluations, the innermost last
  tmp, out,    \* in a lookup: the node demoted; the values copied out
  hit          \* did its last lookup find the key?

table == <<entries, size, cCache>>
global == <<portable, numThreads, met, saved>>
vars == <<global, table, pc, stack, tmp, out, hit>>

None == -2
Result(k, m) == [of |-> k, met |-> m]
Node(k) == [key |-> k, val |-> Result(k, met)]     \* what an evaluation makes now
NoNode == [key |-> NoKey, val |-> Result(NoKey, 0)]

(* CacheFlush marks the keys of both slots with a value that no position     *)
(* has, and opens the lock.                                                  *)
NoEntry == [primary |-> NoNode, secondary |-> NoNode, lock |-> 0]
Flushed(n) == [i \in 0..(n - 1) |-> NoEntry]

(* The smallest power of 2 that is at least n (0 stays 0).  A power of 2 has *)
(* no odd divisor but 1.                                                     *)
IsPowerOfTwo(p) == \A d \in 2..p : p % d = 0 => d % 2 = 0
PowerOfTwo(n) == IF n = 0 THEN 0 ELSE CHOOSE p \in n..(2 * n - 1) : IsPowerOfTwo(p)

(* CacheResize; the entries are half the size.  EvalCacheResize takes what   *)
(* it returns, -1 if there is no memory, for the size.                       *)
Resize(n, memory) ==
  IF n = size THEN cCache' = size /\ UNCHANGED <<entries, size>>
  ELSE IF n = UINT_MAX THEN cCache' = UINT_MAX /\ entries' = Flushed(0) /\ UNCHANGED size
  ELSE /\ size' = PowerOfTwo(n)
       /\ entries' = Flushed(IF memory THEN size' \div 2 ELSE 0)
       /\ cCache' = IF memory \/ size' < 2 THEN size' ELSE UINT_MAX

Init ==
  /\ portable \in BOOLEAN /\ numThreads = 1
  /\ size = 2 /\ cCache = 2 /\ entries = Flushed(1)
  /\ met = 0 /\ saved = None
  /\ pc = [t \in Thread |-> "idle"] /\ stack = [t \in Thread |-> <<>>]
  /\ tmp = [t \in Thread |-> NoNode] /\ out = [t \in Thread |-> NoNode]
  /\ hit = [t \in Thread |-> FALSE]

-----------------------------------------------------------------------------
(* A thread.  Its innermost evaluation is at the i-th key of its request.    *)

Top(t) == stack[t][Len(stack[t])]
Current(t) == Top(t).request[Top(t).i]

(* hashMask is (size >> 1) - 1, which for sizes below 2 masks nothing out.   *)
Index(k) == IF size < 2 THEN Hash[k] ELSE Hash[k] % (size \div 2)
At(t) == Index(Current(t))
Entry(t) == entries[At(t)]
InRange(t) == At(t) \in DOMAIN entries
Locks == numThreads > 1

Goto(t, l) == pc' = [pc EXCEPT ![t] = l]
SetEntry(t, e) == entries' = [entries EXCEPT ![At(t)] = e] /\ UNCHANGED <<size, cCache>>
SetTop(t, f) == stack' = [stack EXCEPT ![t][Len(stack[t])] = f]

(* Without a cache, and for evaluations with noise or at the top of a        *)
(* cubeful one, nothing is looked up or added: an empty request.             *)
Enter(t, request, plies) ==
  LET r == IF cCache = 0 THEN <<>> ELSE request
  IN  /\ stack' = [stack EXCEPT ![t] = Append(@, [request |-> r, plies |-> plies, i |-> 1, adding |-> FALSE])]
      /\ Goto(t, IF r = <<>> THEN "evaluate" ELSE "lock")
      /\ UNCHANGED <<global, table, tmp, out, hit>>

(* Return to the evaluation that asked for this one, if any.                 *)
Return(t) ==
  /\ stack' = [stack EXCEPT ![t] = SubSeq(@, 1, Len(@) - 1)]
  /\ Goto(t, IF Len(stack[t]) = 1 THEN "idle" ELSE "evaluate")

EvaluatePosition(t) ==
  /\ pc[t] = "idle" /\ t <= numThreads
  /\ \E p \in DOMAIN Requests : \E request \in Requests[p] : Enter(t, request, p - 1)

(* The position after a roll and the best move, with one ply less.           *)
EvaluateNext(t) ==
  /\ pc[t] = "evaluate" /\ Top(t).plies > 0
  /\ \E request \in Requests[Top(t).plies] : Enter(t, request, Top(t).plies - 1)

(* EvaluatePositionFull was interrupted: every evaluation returns -1.        *)
Interrupted(t) ==
  /\ pc[t] = "evaluate"
  /\ stack' = [stack EXCEPT ![t] = <<>>] /\ Goto(t, "idle")
  /\ UNCHANGED <<global, table, tmp, out, hit>>

Evaluated(t) ==
  /\ pc[t] = "evaluate"
  /\ IF Top(t).request = <<>> THEN Return(t)
     ELSE SetTop(t, [Top(t) EXCEPT !.i = 1, !.adding = TRUE]) /\ Goto(t, "lock")
  /\ UNCHANGED <<global, table, tmp, out, hit>>

(* The index is beyond the entries: from here on anything may happen.        *)
Stray(t) ==
  /\ pc[t] = "lock" /\ ~InRange(t)
  /\ pc' = [u \in Thread |-> "crashed"]
  /\ UNCHANGED <<global, table, stack, tmp, out, hit>>

Inside(t) == IF Top(t).adding THEN "shift" ELSE "compare"

(* Mutant of Lock: taken without looking whether it is free.                 *)
LockBlindly(t) ==
  /\ pc[t] = "lock" /\ InRange(t) /\ (Locks => ~portable)
  /\ Goto(t, Inside(t))
  /\ SetEntry(t, IF Locks THEN [Entry(t) EXCEPT !.lock = 1] ELSE Entry(t))
  /\ UNCHANGED <<global, stack, tmp, out, hit>>

(* cache_lock of x86, which spins until the lock was free, and the functions *)
(* that do not lock.                                                         *)
Lock(t) ==
  /\ pc[t] = "lock" /\ InRange(t) /\ (Locks => ~portable /\ Entry(t).lock = 0)
  /\ Goto(t, Inside(t))
  /\ SetEntry(t, IF Locks THEN [Entry(t) EXCEPT !.lock = 1] ELSE Entry(t))
  /\ UNCHANGED <<global, stack, tmp, out, hit>>

(* The other cache_lock: count; if somebody had counted before, count back   *)
(* and try again.                                                            *)
LockInc(t) ==
  /\ pc[t] = "lock" /\ InRange(t) /\ Locks /\ portable
  /\ SetEntry(t, [Entry(t) EXCEPT !.lock = @ + 1])
  /\ Goto(t, IF Entry(t).lock = 0 THEN Inside(t) ELSE "back")
  /\ UNCHANGED <<global, stack, tmp, out, hit>>

LockDec(t) ==
  /\ pc[t] = "back"
  /\ SetEntry(t, [Entry(t) EXCEPT !.lock = @ - 1])
  /\ Goto(t, "lock")
  /\ UNCHANGED <<global, stack, tmp, out, hit>>

(* CacheLookup, holding the lock: copy out of the first slot, promote the    *)
(* second to it, or miss.                                                    *)
Compare(t) ==
  /\ pc[t] = "compare"
  /\ hit' = [hit EXCEPT ![t] = Current(t) \in {Entry(t).primary.key, Entry(t).secondary.key}]
  /\ Goto(t, IF Entry(t).primary.key = Current(t) THEN "copy"
             ELSE IF Entry(t).secondary.key = Current(t) THEN "promote" ELSE "unlock")
  /\ UNCHANGED <<global, table, stack, tmp, out>>

Promote(t) ==
  /\ pc[t] = "promote"
  /\ tmp' = [tmp EXCEPT ![t] = Entry(t).primary]
  /\ SetEntry(t, [Entry(t) EXCEPT !.primary = Entry(t).secondary])
  /\ Goto(t, "demote")
  /\ UNCHANGED <<global, stack, out, hit>>

(* Mutant: the hot node is left in the second slot too.                      *)
DemoteNothing(t) ==
  /\ pc[t] = "demote"
  /\ Goto(t, "copy")
  /\ UNCHANGED <<global, table, stack, tmp, out, hit>>

Demote(t) ==
  /\ pc[t] = "demote"
  /\ SetEntry(t, [Entry(t) EXCEPT !.secondary = tmp[t]])
  /\ tmp' = [tmp EXCEPT ![t] = NoNode]
  /\ Goto(t, "copy")
  /\ UNCHANGED <<global, stack, out, hit>>

CopyOut(t) ==
  /\ pc[t] = "copy"
  /\ out' = [out EXCEPT ![t] = Entry(t).primary]
  /\ Goto(t, "unlock")
  /\ UNCHANGED <<global, table, stack, tmp, hit>>

(* CacheAdd, holding the lock.                                               *)
Shift(t) ==
  /\ pc[t] = "shift"
  /\ SetEntry(t, [Entry(t) EXCEPT !.secondary = Entry(t).primary])
  /\ Goto(t, "key")
  /\ UNCHANGED <<global, stack, tmp, out, hit>>

AddKey(t) ==
  /\ pc[t] = "key"
  /\ SetEntry(t, [Entry(t) EXCEPT !.primary.key = Current(t)])
  /\ Goto(t, "value")
  /\ UNCHANGED <<global, stack, tmp, out, hit>>

AddValue(t) ==
  /\ pc[t] = "value"
  /\ SetEntry(t, [Entry(t) EXCEPT !.primary = Node(Current(t))])
  /\ Goto(t, "unlock")
  /\ UNCHANGED <<global, stack, tmp, out, hit>>

Opened(e) == IF ~Locks THEN e ELSE [e EXCEPT !.lock = IF portable THEN @ - 1 ELSE 0]

Forget(t) == /\ out' = [out EXCEPT ![t] = NoNode]
             /\ hit' = [hit EXCEPT ![t] = FALSE]

(* Mutant of Unlock: after a miss the entry of x86 stays locked.             *)
MissLocked(t) ==
  /\ pc[t] = "unlock"
  /\ SetEntry(t, IF portable \/ hit[t] \/ Top(t).adding THEN Opened(Entry(t)) ELSE Entry(t))
  /\ IF ~Top(t).adding /\ ~hit[t] THEN Goto(t, "evaluate") /\ UNCHANGED stack
     ELSE IF Top(t).i < Len(Top(t).request)
       THEN SetTop(t, [Top(t) EXCEPT !.i = @ + 1]) /\ Goto(t, "lock")
     ELSE Return(t)
  /\ Forget(t)
  /\ UNCHANGED <<global, tmp>>

(* cache_unlock, and on: a miss leads to an evaluation, a hit or an addition *)
(* to the next key, and the last of them to the end.                         *)
Unlock(t) ==
  /\ pc[t] = "unlock"
  /\ SetEntry(t, Opened(Entry(t)))
  /\ IF ~Top(t).adding /\ ~hit[t] THEN Goto(t, "evaluate") /\ UNCHANGED stack
     ELSE IF Top(t).i < Len(Top(t).request)
       THEN SetTop(t, [Top(t) EXCEPT !.i = @ + 1]) /\ Goto(t, "lock")
     ELSE Return(t)
  /\ Forget(t)
  /\ UNCHANGED <<global, tmp>>

-----------------------------------------------------------------------------
(* The main thread, which has waited for the tasks that evaluate.            *)

Quiet == \A t \in Thread : pc[t] = "idle"
Command == Quiet /\ saved = None
Threads == <<pc, stack, tmp, out, hit>>

Flush == entries' = [i \in DOMAIN entries |-> NoEntry] /\ UNCHANGED <<size, cCache>>

CommandClearCache == Command /\ Flush /\ UNCHANGED <<global, Threads>>

CommandSetCache(n, memory) ==
  /\ Command /\ Resize(n, memory)
  /\ UNCHANGED <<global, Threads>>

(* Mutant of the next: the cache is not flushed.                             *)
SetMETOnly ==
  /\ Command
  /\ met' = 1 - met
  /\ UNCHANGED <<portable, numThreads, saved, table, Threads>>

(* CommandSetMET, CommandSetInvertMET.                                       *)
SetMET ==
  /\ Command
  /\ met' = 1 - met /\ Flush
  /\ UNCHANGED <<portable, numThreads, saved, Threads>>

MT_SetNumThreads(n) ==
  /\ Command
  /\ numThreads' = n
  /\ UNCHANGED <<portable, met, saved, table, Threads>>

(* CommandCalibrate: no cache while it measures.  With a parameter it does   *)
(* not understand it returns at once.                                        *)
Calibrate(understood) ==
  /\ Command
  /\ Resize(0, TRUE)
  /\ saved' = IF understood THEN cCache ELSE None
  /\ UNCHANGED <<portable, numThreads, met, Threads>>

CalibrateEnd(memory) ==
  /\ Quiet /\ saved # None
  /\ Resize(saved, memory) /\ saved' = None
  /\ UNCHANGED <<portable, numThreads, met, Threads>>

-----------------------------------------------------------------------------
ThreadStep(t) ==
  \/ Evaluated(t) \/ Stray(t) \/ Lock(t) \/ LockInc(t) \/ LockDec(t) \/ Compare(t)
  \/ Promote(t) \/ Demote(t) \/ CopyOut(t) \/ Shift(t) \/ AddKey(t) \/ AddValue(t)
  \/ Unlock(t)

Main == \/ CommandClearCache \/ SetMET
        \/ \E memory \in BOOLEAN : CalibrateEnd(memory) \/ \E n \in Sizes : CommandSetCache(n, memory)
        \/ \E understood \in BOOLEAN : Calibrate(understood)
        \/ \E n \in Thread : MT_SetNumThreads(n)

Next == \/ Main
        \/ \E t \in Thread : ThreadStep(t) \/ EvaluatePosition(t) \/ EvaluateNext(t) \/ Interrupted(t)

Spec == Init /\ [][Next]_vars

(* Every thread that can go on does, evaluations end, and an entry that is   *)
(* free again and again is at last got by the thread that tries.             *)
Fairness == \A t \in Thread : WF_vars(ThreadStep(t)) /\ SF_vars(Lock(t))
FairSpec == Spec /\ Fairness

-----------------------------------------------------------------------------
Within == {"compare", "promote", "demote", "copy", "shift", "key", "value", "unlock"}

(* A hit is for the position and context that were looked up, whatever the   *)
(* other threads do to the entry meanwhile, and "entries from another table" *)
(* are never used after a change of the match equity table.                  *)
Hit(t) == pc[t] = "unlock" /\ hit[t]
HitMatches ==
  \A t \in Thread : Hit(t) => out[t].val.of = Current(t) /\ out[t].val.met = met

(* Two threads are never in the same entry, with either lock.                *)
EntryExclusion ==
  \A t, u \in Thread : t # u /\ pc[t] \in Within /\ pc[u] \in Within => At(t) # At(u)

(* No thread goes beyond the entries, except in a cache "sized to 1 entry"   *)
(* and one whose "allocation failed".                                        *)
Crashed == \E t \in Thread : pc[t] = "crashed"
StrayKnown == Crashed => size = 1 \/ DOMAIN entries = {}

(* An entry is used by one thread at a time, and there is one to be used.    *)
EntriesGuarded == EntryExclusion /\ StrayKnown

(* With the lock of x86 a lookup or an addition gets its entry at last.      *)
LockObtained ==
  \A t \in Thread : pc[t] = "lock" /\ ~portable ~> pc[t] # "lock"

(* To the other threads a lookup or an addition is one step of a cache that  *)
(* holds, in each entry, the results used last: an addition takes effect     *)
(* when the first slot has moved to the second, a promotion when both have   *)
(* changed places.                                                           *)
Settled(i) ==
  LET at(t, places) == pc[t] \in places /\ At(t) = i
      e == entries[i]
  IN  IF \E t \in Thread : at(t, {"key", "value"})
        THEN <<Node(Current(CHOOSE t \in Thread : at(t, {"key", "value"}))), e.secondary>>
      ELSE IF \E t \in Thread : at(t, {"demote"})
        THEN <<tmp[CHOOSE t \in Thread : at(t, {"demote"})], e.primary>>
      ELSE <<e.primary, e.secondary>>

Slot == [key : Key \cup {NoKey}, val : [of : Key \cup {NoKey}, met : {0, 1}]]
Atomic == INSTANCE TwoSlotCache WITH slots <- [i \in DOMAIN entries |-> Settled(i)]
Implements == Atomic!Spec
=============================================================================
