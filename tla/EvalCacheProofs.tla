--------------------------- MODULE EvalCacheProofs ---------------------------
(* Proofs about EvalCache, for any keys, evaluations, sizes and threads.     *)
EXTENDS EvalCache, Numbers, SequenceTheorems

Frame == {f \in [request : Seq(Key), plies : 0..(Len(Requests) - 1), i : Nat, adding : BOOLEAN] :
            f.request = <<>> \/ f.i \in 1..Len(f.request)}
EntryType == [primary : Slot, secondary : Slot, lock : Int]
Hold == Within \cup {"back"}                   \* counted by the lock of its entry
Busy == Hold \cup {"lock"}                     \* at a key
PC == Busy \cup {"idle", "evaluate", "crashed"}

(* The table has the entries that the mask of an index can reach, or none.   *)
TableType ==
  /\ size \in Nat /\ cCache \in Nat \cup {UINT_MAX}
  /\ DOMAIN entries = {} \/ DOMAIN entries = 0..((size \div 2) - 1)
  /\ entries \in [DOMAIN entries -> EntryType]

ThreadType ==
  /\ pc \in [Thread -> PC] /\ stack \in [Thread -> Seq(Frame)]
  /\ tmp \in [Thread -> Slot] /\ out \in [Thread -> Slot] /\ hit \in [Thread -> BOOLEAN]

TypeOK ==
  /\ portable \in BOOLEAN /\ numThreads \in Thread /\ met \in {0, 1}
  /\ saved \in Nat \cup {UINT_MAX, None}
  /\ TableType /\ ThreadType

-----------------------------------------------------------------------------
(* The inductive invariant.                                                  *)

(* What the place of thread t says of its evaluations and of the table.      *)
Placed(t) ==
  /\ pc[t] = "idle" => stack[t] = <<>>
  /\ pc[t] \notin {"idle", "crashed"} => stack[t] # <<>> /\ t <= numThreads
  /\ pc[t] \in Busy => Top(t).request # <<>>
  /\ pc[t] \in Hold => InRange(t)
  /\ pc[t] = "crashed" => DOMAIN entries = {}
  /\ pc[t] = "back" => Locks /\ portable
PlaceInv == \A t \in Thread : Placed(t)

(* The lock of an entry counts the threads that have it or are about to      *)
(* count back.                                                               *)
Holders(i) == {t \in Thread : pc[t] \in Hold /\ At(t) = i}
LockInv == \A i \in DOMAIN entries :
             entries[i].lock = IF Locks THEN Cardinality(Holders(i)) ELSE 0

(* A slot is empty or holds the result that belongs to its key, but for the  *)
(* first slot of an entry to which a thread is adding.                       *)
Good(n) == n = NoNode \/ (n.key \in Key /\ n = Node(n.key))
Adding(i) == \E t \in Thread : pc[t] = "value" /\ At(t) = i
SlotInv == \A i \in DOMAIN entries : /\ Good(entries[i].secondary)
                                     /\ (Good(entries[i].primary) \/ Adding(i))

(* What a thread has found out stays true until it uses it.                  *)
Found(t) ==
  /\ pc[t] = "promote" => Entry(t).secondary.key = Current(t)
  /\ pc[t] = "demote" => Good(tmp[t])
  /\ pc[t] \in {"demote", "copy"} => Entry(t).primary.key = Current(t)
  /\ hit[t] => pc[t] \in {"promote", "demote", "copy", "unlock"}
  /\ pc[t] = "unlock" /\ hit[t] => out[t] = Node(Current(t))
FoundInv == \A t \in Thread : Found(t)

Inv == PlaceInv /\ EntryExclusion /\ LockInv /\ SlotInv /\ FoundInv
IInv == TypeOK /\ Inv

-----------------------------------------------------------------------------
(* The size of the table.                                                    *)

LEMMA Doubled ==
  ASSUME NEW p \in Nat \ {0}, IsPowerOfTwo(p)
  PROVE  IsPowerOfTwo(2 * p)
<1> SUFFICES ASSUME NEW d \in 2..(2 * p), (2 * p) % d = 0, d % 2 # 0 PROVE FALSE
  BY DEF IsPowerOfTwo
<1>1. PICK q \in Int : 2 * p = d * q
  <2>1. 2 * p = (d * ((2 * p) \div d)) + ((2 * p) % d) OBVIOUS
  <2> QED BY <2>1
<1>2. PICK e \in Int : d = 2 * e + 1
  <2>1. d = 2 * (d \div 2) + 1 OBVIOUS
  <2> QED BY <2>1
<1>3. PICK r \in Int : q = 2 * r
  <2>1. d * q = 2 * (e * q) + q BY <1>2
  <2>2. e * q \in Int OBVIOUS
  <2>3. p - e * q \in Int /\ q = 2 * (p - e * q) BY <1>1, <2>1, <2>2
  <2> WITNESS p - e * q \in Int
  <2> QED BY <2>3
<1>4. p = d * r
  <2>1. d * q = 2 * (d * r) BY <1>3
  <2> QED BY <2>1, <1>1
<1>5. r >= 1 /\ d <= p BY <1>4
<1>6. p % d = 0
  <2> DEFINE x == r - (p \div d)
  <2>1. p = (d * (p \div d)) + (p % d) /\ p % d \in 0..(d - 1) /\ p \div d \in Int OBVIOUS
  <2>2. x \in Int /\ d * x = (d * r) - (d * (p \div d)) BY <2>1
  <2>3. d * x = p % d BY <2>1, <2>2, <1>4
  <2>4. x >= 1 => d * x >= d BY <2>2
  <2>5. x <= -1 => d * x <= -d BY <2>2
  <2>6. x = 0 BY <2>1, <2>2, <2>3, <2>4, <2>5
  <2> QED BY <2>3, <2>6
<1> QED BY <1>5, <1>6 DEF IsPowerOfTwo

LEMMA Rounded ==
  ASSUME NEW n \in Nat \ {0}
  PROVE  \E p \in n..(2 * n - 1) : IsPowerOfTwo(p)
<1> DEFINE Ok(m) == \E p \in m..(2 * m - 1) : IsPowerOfTwo(p)
           C == {m \in Nat \ {0} : ~Ok(m)}
<1> SUFFICES ASSUME C # {} PROVE FALSE OBVIOUS
<1>1. PICK m \in C : \A k \in C : m <= k BY LeastNumber
<1>2. Ok(1) BY DEF IsPowerOfTwo
<1>3. PICK k \in Nat : (m = 2 * k \/ m = 2 * k + 1) /\ k < m /\ k >= 1
  <2> DEFINE k == m \div 2
  <2>1. m # 1 BY <1>1, <1>2
  <2>2. m \in Nat /\ m > 1 BY <2>1
  <2>3. k \in Nat /\ (m = 2 * k \/ m = 2 * k + 1) BY <2>2
  <2> QED BY <2>2, <2>3
<1>4. CASE m = 2 * k
  <2>1. PICK p \in k..(2 * k - 1) : IsPowerOfTwo(p) BY <1>1, <1>3
  <2>2. IsPowerOfTwo(2 * p) /\ 2 * p \in m..(2 * m - 1) BY <2>1, <1>4, <1>3, Doubled
  <2> QED BY <2>2
<1>5. CASE m = 2 * k + 1
  <2>1. Ok(k + 1)  BY <1>1, <1>3, <1>5
  <2>2. PICK p \in (k + 1)..(2 * k + 1) : IsPowerOfTwo(p) BY <2>1
  <2>3. p # 2 * k + 1
    <3>1. p % p = 0 BY <2>2
    <3>2. p # 1 /\ p \in Nat BY <2>2, <1>3
    <3>3. p \in 2..p BY <3>2, <2>2
    <3>4. p % 2 = 0 BY <3>1, <3>3, <2>2 DEF IsPowerOfTwo
    <3> QED BY <3>4, <3>2
  <2>4. IsPowerOfTwo(2 * p) /\ 2 * p \in m..(2 * m - 1) BY <2>2, <2>3, <1>5, <1>3, Doubled
  <2> QED BY <2>4
<1> QED BY <1>3, <1>4, <1>5

LEMMA RoundedType ==
  ASSUME NEW n \in Nat
  PROVE  PowerOfTwo(n) \in Nat
<1>1. CASE n = 0 BY <1>1 DEF PowerOfTwo
<1>2. CASE n # 0
  <2>1. PowerOfTwo(n) \in n..(2 * n - 1) BY <1>2, Rounded DEF PowerOfTwo
  <2> QED BY <2>1
<1> QED BY <1>1, <1>2

LEMMA NodeType == NoNode \in Slot /\ (met \in {0, 1} => \A k \in Key : Node(k) \in Slot)
BY DEF NoNode, Node, Slot, Result

LEMMA FlushedType ==
  ASSUME NEW n \in Nat
  PROVE  Flushed(n) \in [0..(n - 1) -> EntryType]
BY NodeType DEF Flushed, NoEntry, EntryType

LEMMA HalfType ==
  ASSUME NEW n \in Nat
  PROVE  n \div 2 \in Nat
OBVIOUS

LEMMA ResizeType ==
  ASSUME TableType, NEW n \in Nat \cup {UINT_MAX}, NEW memory \in BOOLEAN, Resize(n, memory)
  PROVE  TableType'
<1>1. CASE n = size BY <1>1 DEF Resize, TableType
<1>2. CASE n # size /\ n = UINT_MAX
  <2>1. entries' = Flushed(0) /\ cCache' = UINT_MAX /\ size' = size BY <1>2 DEF Resize
  <2>2. entries' \in [0..(0 - 1) -> EntryType] BY <2>1, FlushedType
  <2>3. DOMAIN entries' = {} BY <2>2
  <2> QED BY <2>1, <2>2, <2>3 DEF TableType
<1>3. CASE n # size /\ n # UINT_MAX
  <2>1. /\ size' = PowerOfTwo(n)
        /\ entries' = Flushed(IF memory THEN size' \div 2 ELSE 0)
        /\ cCache' = IF memory \/ size' < 2 THEN size' ELSE UINT_MAX
    BY <1>3 DEF Resize
  <2>2. n \in Nat BY <1>3
  <2>3. size' \in Nat BY <2>1, <2>2, RoundedType
  <2> DEFINE half == size' \div 2
  <2>4. half \in Nat BY <2>3, HalfType
  <2> HIDE DEF half
  <2>5. CASE memory
    <3>1. entries' = Flushed(half) BY <2>1, <2>5 DEF half
    <3>2. entries' \in [0..(half - 1) -> EntryType] BY <2>4, <3>1, FlushedType
    <3>3. DOMAIN entries' = 0..(half - 1) BY <3>2
    <3> QED BY <2>1, <2>3, <2>5, <3>2, <3>3 DEF TableType, half
  <2>6. CASE ~memory
    <3>1. entries' \in [0..(0 - 1) -> EntryType] BY <2>1, <2>6, FlushedType
    <3>2. DOMAIN entries' = {} BY <3>1
    <3> QED BY <2>1, <2>3, <2>6, <3>1, <3>2 DEF TableType
  <2> QED BY <2>5, <2>6
<1> QED BY <1>1, <1>2, <1>3

LEMMA FlushType == TableType /\ Flush => TableType'
<1> SUFFICES ASSUME TableType, Flush PROVE TableType'
  OBVIOUS
<1>1. NoEntry \in EntryType BY NodeType DEF NoEntry, EntryType
<1>2. entries' \in [DOMAIN entries -> EntryType] BY <1>1 DEF Flush
<1> QED BY <1>2 DEF Flush, TableType

(* Where there are entries, every key has one.                               *)
LEMMA IndexInRange ==
  ASSUME TableType, DOMAIN entries # {}, NEW k \in Key
  PROVE  Index(k) \in DOMAIN entries
<1> DEFINE n == size \div 2
<1>1. DOMAIN entries = 0..(n - 1) /\ n \in Nat BY DEF TableType
<1>2. n >= 1 BY <1>1
<1>3. size >= 2 /\ size \in Nat BY <1>2 DEF TableType
<1>4. Hash[k] % n \in 0..(n - 1)
  <2>1. Hash[k] \in Nat BY HashAssumption
  <2> HIDE DEF n
  <2> QED BY <1>1, <1>2, <2>1
<1> QED BY <1>1, <1>3, <1>4 DEF Index

-----------------------------------------------------------------------------
(* The evaluations of a thread.                                              *)

LEMMA InnermostType ==
  ASSUME NEW s \in Seq(Frame), s # <<>>
  PROVE  /\ Len(s) \in Nat \ {0} /\ s[Len(s)] \in Frame
         /\ SubSeq(s, 1, Len(s) - 1) \in Seq(Frame)
         /\ SubSeq(s, 1, Len(s) - 1) = <<>> <=> Len(s) = 1
         /\ \A f \in Frame : LET u == [s EXCEPT ![Len(s)] = f]
                             IN  u \in Seq(Frame) /\ u # <<>> /\ u[Len(u)] = f
<1>1. Len(s) \in Nat \ {0} BY EmptySeq
<1>2. s[Len(s)] \in Frame BY <1>1, ElementOfSeq
<1>3. /\ SubSeq(s, 1, Len(s) - 1) \in Seq(Frame)
      /\ SubSeq(s, 1, Len(s) - 1) = <<>> <=> Len(s) = 1
  <2> DEFINE n == Len(s) - 1
             u == SubSeq(s, 1, n)
  <2>1. n \in Nat BY <1>1
  <2>2. \A j \in 1..n : s[j] \in Frame BY <1>1, ElementOfSeq
  <2> HIDE DEF n
  <2>3. u \in Seq(Frame) /\ Len(u) = IF 1 <= n THEN n - 1 + 1 ELSE 0
    BY <2>1, <2>2, SubSeqProperties
  <2>4. Len(u) = n BY <2>1, <2>3
  <2> HIDE DEF u
  <2>5. u = <<>> <=> n = 0 BY <2>3, <2>4, EmptySeq
  <2> QED BY <1>1, <2>3, <2>5 DEF u, n
<1>4. ASSUME NEW f \in Frame
      PROVE  LET u == [s EXCEPT ![Len(s)] = f]
             IN  u \in Seq(Frame) /\ u # <<>> /\ u[Len(u)] = f
  <2> DEFINE u == [s EXCEPT ![Len(s)] = f]
  <2>1. Len(s) \in 1..Len(s) BY <1>1
  <2>2. /\ u \in Seq(Frame) /\ Len(u) = Len(s)
        /\ \A j \in 1..Len(s) : u[j] = IF j = Len(s) THEN f ELSE s[j]
    BY <2>1, ExceptSeq
  <2>3. u # <<>> /\ u[Len(u)] = f BY <1>1, <2>1, <2>2, EmptySeq
  <2> QED BY <2>2, <2>3
<1> QED BY <1>1, <1>2, <1>3, <1>4

LEMMA CurrentType ==
  ASSUME TypeOK, NEW t \in Thread, stack[t] # <<>>
  PROVE  Top(t) \in Frame /\ (Top(t).request # <<>> => Current(t) \in Key)
<1>1. stack[t] \in Seq(Frame) BY DEF TypeOK, ThreadType
<1>2. Top(t) \in Frame BY <1>1, InnermostType DEF Top
<1>3. ASSUME Top(t).request # <<>> PROVE Current(t) \in Key
  <2>1. Top(t).request \in Seq(Key) /\ Top(t).i \in 1..Len(Top(t).request)
    BY <1>2, <1>3 DEF Frame
  <2> QED BY <2>1, ElementOfSeq DEF Current
<1> QED BY <1>2, <1>3

-----------------------------------------------------------------------------
(* A step of thread t leaves alone what belongs to the others.               *)

SameSlots(i) == entries'[i].primary = entries[i].primary /\ entries'[i].secondary = entries[i].secondary

Local(t) ==
  /\ UNCHANGED <<global, size>> /\ DOMAIN entries' = DOMAIN entries
  /\ \A i \in DOMAIN entries : entries'[i] # entries[i] => pc[t] \in Busy /\ i = At(t)
  /\ pc[t] \in Within \/ \A i \in DOMAIN entries : SameSlots(i)
  /\ \A u \in Thread \ {t} : /\ pc'[u] = pc[u] /\ stack'[u] = stack[u] /\ hit'[u] = hit[u]
                             /\ tmp'[u] = tmp[u] /\ out'[u] = out[u]

LEMMA SetEntryType ==
  ASSUME TableType, NEW t \in Thread, InRange(t), NEW e \in EntryType, SetEntry(t, e)
  PROVE  /\ TableType' /\ DOMAIN entries' = DOMAIN entries /\ UNCHANGED <<size, cCache>>
         /\ \A i \in DOMAIN entries : entries'[i] = IF i = At(t) THEN e ELSE entries[i]
BY DEF TableType, SetEntry, InRange

LEMMA OthersStay ==
  ASSUME NEW t \in Thread, Local(t), NEW u \in Thread \ {t}
  PROVE  At(u)' = At(u) /\ Current(u)' = Current(u) /\ Top(u)' = Top(u)
BY DEF Local, At, Index, Current, Top

LEMMA InPlaceStay ==
  ASSUME NEW t \in Thread, UNCHANGED <<stack, size>>
  PROVE  At(t)' = At(t) /\ Current(t)' = Current(t) /\ Top(t)' = Top(t)
BY DEF At, Index, Current, Top

LEMMA PlaceKept ==
  ASSUME NEW t \in Thread, Local(t), PlaceInv, Placed(t)'
  PROVE  PlaceInv'
<1> SUFFICES ASSUME NEW u \in Thread \ {t} PROVE Placed(u)' BY DEF PlaceInv
<1>1. At(u)' = At(u) /\ Top(u)' = Top(u) BY OthersStay
<1> QED BY <1>1 DEF PlaceInv, Placed, Local, InRange, Locks, global

LEMMA ExclusionKept ==
  ASSUME NEW t \in Thread, Local(t), EntryExclusion,
         pc'[t] \in Within => pc[t] \in Within /\ At(t)' = At(t)
  PROVE  EntryExclusion'
<1>1. \A u \in Thread : pc'[u] \in Within => pc[u] \in Within /\ At(u)' = At(u)
  BY OthersStay DEF Local
<1> QED BY <1>1 DEF EntryExclusion

LEMMA HoldersFinite == \A i : IsFiniteSet(Holders(i)) /\ Cardinality(Holders(i)) \in Nat
<1> SUFFICES ASSUME NEW i PROVE IsFiniteSet(Holders(i)) /\ Cardinality(Holders(i)) \in Nat
  OBVIOUS
<1>1. Holders(i) \subseteq Thread /\ IsFiniteSet(Thread)
  BY FS_Interval, BoundsAssumption DEF Holders, Thread
<1> QED BY <1>1, FS_Subset, FS_CardinalityType

(* Nobody holds an entry whose lock is free; with one thread there is nobody *)
(* else.                                                                     *)
LEMMA NobodyInside ==
  ASSUME TypeOK, PlaceInv, LockInv, NEW t \in Thread, pc[t] = "lock", InRange(t),
         Locks => Entry(t).lock = 0, NEW u \in Thread \ {t}, pc[u] \in Hold
  PROVE  At(u) # At(t)
<1>1. CASE Locks
  <2>1. Cardinality(Holders(At(t))) = 0 BY <1>1 DEF LockInv, InRange, Entry
  <2>2. Holders(At(t)) = {} BY <2>1, HoldersFinite, FS_EmptySet
  <2> QED BY <2>2 DEF Holders
<1>2. CASE ~Locks
  <2>1. t <= numThreads /\ u <= numThreads
    BY DEF PlaceInv, Placed, Hold, Within
  <2>2. numThreads \in Nat /\ t \in Nat \ {0} /\ u \in Nat \ {0} BY BoundsAssumption DEF TypeOK, Thread
  <2>3. numThreads <= 1 BY <1>2, <2>2 DEF Locks
  <2> QED BY <2>1, <2>2, <2>3
<1> QED BY <1>1, <1>2

LEMMA ExclusionTaken ==
  ASSUME TypeOK, PlaceInv, LockInv, EntryExclusion, NEW t \in Thread, Local(t), UNCHANGED <<stack, size>>,
         pc[t] = "lock", InRange(t), Locks => Entry(t).lock = 0
  PROVE  EntryExclusion'
<1>1. At(t)' = At(t) BY InPlaceStay
<1>2. \A u \in Thread \ {t} : pc'[u] = pc[u] /\ At(u)' = At(u)
  BY OthersStay DEF Local
<1>3. \A u \in Thread \ {t} : pc[u] \in Within => At(u) # At(t)
  BY NobodyInside DEF Hold
<1> QED BY <1>1, <1>2, <1>3 DEF EntryExclusion

-----------------------------------------------------------------------------
(* How a step of thread t changes the set of those that hold an entry.       *)

LEMMA LockKept ==
  ASSUME NEW t \in Thread, Local(t), LockInv, pc'[t] \in Hold <=> pc[t] \in Hold,
         pc[t] \in Hold => At(t)' = At(t),
         \A i \in DOMAIN entries : entries'[i].lock = entries[i].lock
  PROVE  LockInv'
<1>1. \A u \in Thread : (pc'[u] \in Hold <=> pc[u] \in Hold) /\ (pc[u] \in Hold => At(u)' = At(u))
  BY OthersStay DEF Local
<1>2. \A i \in DOMAIN entries : Holders(i)' = Holders(i)
  BY <1>1 DEF Holders
<1> QED BY <1>2 DEF LockInv, Local, Locks, global

LEMMA LockMore ==
  ASSUME TypeOK, NEW t \in Thread, Local(t), LockInv, pc[t] \notin Hold, pc'[t] \in Hold, InRange(t),
         UNCHANGED <<stack, size>>, entries'[At(t)].lock = Entry(t).lock + IF Locks THEN 1 ELSE 0
  PROVE  LockInv'
<1>1. At(t)' = At(t) BY InPlaceStay
<1>2. \A i : Holders(i)' = IF i = At(t) THEN Holders(i) \cup {t} ELSE Holders(i)
  BY <1>1, OthersStay DEF Holders, Local
<1>3. t \notin Holders(At(t)) BY DEF Holders
<1>4. Cardinality(Holders(At(t)) \cup {t}) = Cardinality(Holders(At(t))) + 1
  BY <1>3, HoldersFinite, FS_AddElement
<1>5. Entry(t).lock = IF Locks THEN Cardinality(Holders(At(t))) ELSE 0
  BY DEF LockInv, InRange, Entry
<1>6. \A i \in DOMAIN entries : i # At(t) => entries'[i] = entries[i]
  BY DEF Local
<1>7. Locks' = Locks /\ DOMAIN entries' = DOMAIN entries BY DEF Local, Locks, global
<1> SUFFICES ASSUME NEW i \in DOMAIN entries
             PROVE  entries'[i].lock = IF Locks THEN Cardinality(Holders(i)') ELSE 0
  BY <1>7 DEF LockInv
<1> QED BY <1>2, <1>4, <1>5, <1>6, HoldersFinite DEF LockInv

LEMMA LockLess ==
  ASSUME TypeOK, NEW t \in Thread, Local(t), LockInv, pc[t] \in Hold, pc'[t] \notin Hold, InRange(t),
         entries'[At(t)].lock = Entry(t).lock - IF Locks THEN 1 ELSE 0
  PROVE  LockInv'
<1>2. \A i : Holders(i)' = IF i = At(t) THEN Holders(i) \ {t} ELSE Holders(i)
  BY OthersStay DEF Holders, Local
<1>3. t \in Holders(At(t)) BY DEF Holders
<1>4. Cardinality(Holders(At(t)) \ {t}) = Cardinality(Holders(At(t))) - 1
  BY <1>3, HoldersFinite, FS_RemoveElement
<1>5. Entry(t).lock = IF Locks THEN Cardinality(Holders(At(t))) ELSE 0
  BY DEF LockInv, InRange, Entry
<1>6. \A i \in DOMAIN entries : i # At(t) => entries'[i] = entries[i]
  BY DEF Local
<1>7. Locks' = Locks /\ DOMAIN entries' = DOMAIN entries BY DEF Local, Locks, global
<1> SUFFICES ASSUME NEW i \in DOMAIN entries
             PROVE  entries'[i].lock = IF Locks THEN Cardinality(Holders(i)') ELSE 0
  BY <1>7 DEF LockInv
<1> QED BY <1>2, <1>4, <1>5, <1>6, HoldersFinite DEF LockInv

-----------------------------------------------------------------------------
(* The slots, and what the other threads have found out.                     *)

LEMMA GoodStays ==
  ASSUME UNCHANGED met, NEW n, NEW k
  PROVE  Node(k)' = Node(k) /\ (Good(n)' <=> Good(n))
BY DEF Good, Node, Result

LEMMA SlotsElse ==
  ASSUME NEW t \in Thread, Local(t), SlotInv, NEW i \in DOMAIN entries,
         i # At(t) \/ (SameSlots(i) /\ pc[t] # "value")
  PROVE  Good(entries[i].secondary)' /\ (Good(entries[i].primary)' \/ Adding(i)')
<1>1. SameSlots(i) BY DEF Local, SameSlots
<1>2. \A n : Good(n)' <=> Good(n) BY GoodStays DEF Local, global
<1>3. Adding(i) => Adding(i)'
  <2> SUFFICES ASSUME NEW u \in Thread, pc[u] = "value", At(u) = i PROVE Adding(i)'
    BY DEF Adding
  <2>1. u # t OBVIOUS
  <2> QED BY <2>1, OthersStay DEF Adding, Local
<1> QED BY <1>1, <1>2, <1>3 DEF SlotInv, SameSlots

LEMMA SlotsKept ==
  ASSUME NEW t \in Thread, Local(t), SlotInv,
         \A i \in DOMAIN entries : SameSlots(i) /\ pc[t] # "value"
  PROVE  SlotInv'
BY SlotsElse DEF SlotInv, Local

LEMMA SlotsSet ==
  ASSUME NEW t \in Thread, Local(t), SlotInv, NEW i \in DOMAIN entries, i = At(t),
         Good(entries[i].secondary)', Good(entries[i].primary)' \/ Adding(i)'
  PROVE  SlotInv'
<1>1. ASSUME NEW j \in DOMAIN entries
      PROVE  Good(entries[j].secondary)' /\ (Good(entries[j].primary)' \/ Adding(j)')
  <2>1. CASE j = i BY <2>1
  <2>2. CASE j # i BY <2>2, SlotsElse
  <2> QED BY <2>1, <2>2
<1> QED BY <1>1 DEF SlotInv, Local

LEMMA FoundKept ==
  ASSUME NEW t \in Thread, Local(t), EntryExclusion, PlaceInv, FoundInv, Found(t)'
  PROVE  FoundInv'
<1> SUFFICES ASSUME NEW u \in Thread \ {t} PROVE Found(u)' BY DEF FoundInv
<1>1. At(u)' = At(u) /\ Current(u)' = Current(u) BY OthersStay
<1>2. \A n, k : (Good(n)' <=> Good(n)) /\ Node(k)' = Node(k) BY GoodStays DEF Local, global
<1>3. pc[u] \in Within => SameSlots(At(u))
  <2> SUFFICES ASSUME pc[u] \in Within PROVE SameSlots(At(u))
    OBVIOUS
  <2>1. At(u) \in DOMAIN entries BY DEF PlaceInv, Placed, InRange, Hold
  <2>2. CASE pc[t] \in Within BY <2>1, <2>2 DEF EntryExclusion, Local, SameSlots
  <2>3. CASE pc[t] \notin Within BY <2>1, <2>3 DEF Local
  <2> QED BY <2>2, <2>3
<1>4. /\ pc'[u] = pc[u] /\ hit'[u] = hit[u] /\ tmp'[u] = tmp[u] /\ out'[u] = out[u]
  BY DEF Local
<1>5. Found(u) BY DEF FoundInv
<1>6. (pc'[u] = "promote" => Entry(u)'.secondary.key = Current(u)')
  BY <1>1, <1>3, <1>4, <1>5 DEF Found, Entry, SameSlots, Within
<1>7. (pc'[u] \in {"demote", "copy"} => Entry(u)'.primary.key = Current(u)')
  BY <1>1, <1>3, <1>4, <1>5 DEF Found, Entry, SameSlots, Within
<1>8. pc'[u] = "demote" => Good(tmp[u])'
  BY <1>2, <1>4, <1>5 DEF Found
<1>9. pc'[u] = "unlock" /\ hit'[u] => out'[u] = Node(Current(u))'
  BY <1>1, <1>2, <1>4, <1>5 DEF Found
<1> QED BY <1>1, <1>4, <1>5, <1>6, <1>7, <1>8, <1>9 DEF Found

(* Where the two nodes of an entry are not yet, or no longer, those of its    *)
(* slots; and a step that changes nothing that another thread could see.     *)
Changing == {"key", "value", "demote"}
Unseen(t) == /\ Local(t) /\ pc[t] \notin Changing /\ pc'[t] \notin Changing
             /\ \A i \in DOMAIN entries : SameSlots(i)

(* A step at an entry that leaves nodes p and s in its slots.                *)
Leaves(t, l, p, s) ==
  /\ Local(t) /\ pc[t] \in Within /\ pc'[t] = l /\ At(t)' = At(t) /\ Current(t)' = Current(t)
  /\ At(t) \in DOMAIN entries /\ entries'[At(t)].primary = p /\ entries'[At(t)].secondary = s

-----------------------------------------------------------------------------
(* The steps of a lookup or an addition on its entry.                        *)

LEMMA NoEntryMade ==
  ASSUME TypeOK, NEW t \in Thread, InRange(t), UNCHANGED table
  PROVE  SetEntry(t, Entry(t))
<1>1. entries = [entries EXCEPT ![At(t)] = entries[At(t)]] BY DEF TypeOK, TableType
<1> QED BY <1>1 DEF SetEntry, Entry, table

LEMMA EntryOf ==
  ASSUME TypeOK, NEW t \in Thread, InRange(t)
  PROVE  Entry(t) \in EntryType
BY DEF TypeOK, TableType, InRange, Entry

Own(f, S, t) == f' \in [Thread -> S] /\ \A u \in Thread \ {t} : f'[u] = f[u]

LEMMA InPlace ==
  ASSUME TypeOK, NEW t \in Thread, pc[t] \in Busy, InRange(t),
         NEW l \in Busy, Goto(t, l), NEW e \in EntryType, SetEntry(t, e),
         pc[t] \in Within \/ (e.primary = Entry(t).primary /\ e.secondary = Entry(t).secondary),
         UNCHANGED <<global, stack>>, Own(tmp, Slot, t), Own(out, Slot, t), Own(hit, BOOLEAN, t)
  PROVE  /\ TypeOK' /\ Local(t) /\ pc'[t] = l /\ entries'[At(t)] = e
         /\ DOMAIN entries' = DOMAIN entries /\ UNCHANGED <<stack, size>>
         /\ At(t)' = At(t) /\ Current(t)' = Current(t) /\ Top(t)' = Top(t) /\ Entry(t)' = e
         /\ (pc[t] # "back" /\ (l = "back" => Locks /\ portable) => (PlaceInv => PlaceInv'))
         /\ (pc[t] = "back" /\ l = "lock" => (PlaceInv => PlaceInv'))
<1>1. /\ TableType' /\ DOMAIN entries' = DOMAIN entries /\ UNCHANGED <<size, cCache>>
      /\ \A i \in DOMAIN entries : entries'[i] = IF i = At(t) THEN e ELSE entries[i]
  BY SetEntryType DEF TypeOK
<1>2. pc' \in [Thread -> PC] /\ \A u \in Thread : pc'[u] = IF u = t THEN l ELSE pc[u]
  BY DEF TypeOK, ThreadType, Goto, PC
<1>3. TypeOK' BY <1>1, <1>2 DEF TypeOK, ThreadType, Own, global
<1>4. entries'[At(t)] = e BY <1>1 DEF InRange
<1>5. Local(t)
  <2>1. \A i \in DOMAIN entries : entries'[i] # entries[i] => pc[t] \in Busy /\ i = At(t)
    BY <1>1
  <2>2. pc[t] \in Within \/ \A i \in DOMAIN entries : SameSlots(i)
    BY <1>1 DEF SameSlots, Entry
  <2> QED BY <1>1, <1>2, <2>1, <2>2 DEF Local, Own
<1>6. At(t)' = At(t) /\ Current(t)' = Current(t) /\ Top(t)' = Top(t)
  BY <1>1, InPlaceStay
<1>7. Entry(t)' = e BY <1>4, <1>6 DEF Entry
<1>8. ASSUME PlaceInv, l = "back" => Locks /\ portable PROVE PlaceInv'
  <2>1. Placed(t) BY <1>8 DEF PlaceInv
  <2>2. stack'[t] = stack[t] /\ numThreads' = numThreads /\ portable' = portable BY DEF global
  <2>3. InRange(t)' BY <1>1, <1>6 DEF InRange
  <2>4. pc[t] \notin {"idle", "crashed"} /\ pc'[t] \notin {"idle", "crashed"}
    BY <1>2 DEF Busy, Hold, Within
  <2>5. Placed(t)'
    BY <1>2, <1>6, <1>8, <2>1, <2>2, <2>3, <2>4 DEF Placed, Locks
  <2> QED BY <1>5, <1>8, <2>5, PlaceKept
<1> QED BY <1>1, <1>2, <1>3, <1>4, <1>5, <1>6, <1>7, <1>8

LEMMA OwnFacts ==
  ASSUME TypeOK, NEW t \in Thread
  PROVE  /\ \A v \in Slot : tmp' = [tmp EXCEPT ![t] = v] => Own(tmp, Slot, t) /\ tmp'[t] = v
         /\ \A v \in Slot : out' = [out EXCEPT ![t] = v] => Own(out, Slot, t) /\ out'[t] = v
         /\ \A v \in BOOLEAN : hit' = [hit EXCEPT ![t] = v] => Own(hit, BOOLEAN, t) /\ hit'[t] = v
         /\ UNCHANGED tmp => Own(tmp, Slot, t)
         /\ UNCHANGED out => Own(out, Slot, t)
         /\ UNCHANGED hit => Own(hit, BOOLEAN, t)
BY DEF TypeOK, ThreadType, Own

LEMMA Locked ==
  ASSUME IInv, NEW t \in Thread, Lock(t) \/ (LockInc(t) /\ Entry(t).lock = 0)
  PROVE  IInv' /\ Unseen(t)
<1> DEFINE e == IF Locks THEN [Entry(t) EXCEPT !.lock = @ + 1] ELSE Entry(t)
<1>1. /\ pc[t] = "lock" /\ InRange(t) /\ UNCHANGED <<global, stack, tmp, out, hit>>
      /\ Goto(t, Inside(t)) /\ (Locks => Entry(t).lock = 0)
  BY DEF Lock, LockInc
<1>2. Entry(t) \in EntryType BY <1>1, EntryOf DEF IInv
<1>3. SetEntry(t, e)
  <2>1. CASE Lock(t)
    <3>1. Locks => [Entry(t) EXCEPT !.lock = 1] = [Entry(t) EXCEPT !.lock = @ + 1] BY <1>1
    <3> QED BY <2>1, <3>1 DEF Lock
  <2>2. CASE LockInc(t) BY <2>2 DEF LockInc
  <2> QED BY <2>1, <2>2
<1>4. e \in EntryType /\ e.primary = Entry(t).primary /\ e.secondary = Entry(t).secondary
      /\ e.lock = Entry(t).lock + IF Locks THEN 1 ELSE 0
  BY <1>2 DEF EntryType
<1>5. Inside(t) \in Busy /\ Inside(t) \in {"shift", "compare"} BY DEF Inside, Busy, Hold, Within
<1> HIDE DEF e
<1>6. /\ TypeOK' /\ Local(t) /\ pc'[t] = Inside(t) /\ entries'[At(t)] = e
      /\ DOMAIN entries' = DOMAIN entries /\ UNCHANGED <<stack, size>> /\ PlaceInv'
  BY <1>1, <1>3, <1>4, <1>5, InPlace, OwnFacts DEF IInv, Inv, Busy
<1>7. EntryExclusion' BY <1>1, <1>6, ExclusionTaken DEF IInv, Inv
<1>8. LockInv' BY <1>1, <1>4, <1>5, <1>6, LockMore DEF IInv, Inv, Hold, Within
<1>13. \A i \in DOMAIN entries : SameSlots(i) BY <1>1, <1>6 DEF Local, Within
<1>9. SlotInv' BY <1>1, <1>6, <1>13, SlotsKept DEF IInv, Inv
<1>10. Found(t)'
  <2>1. ~hit'[t] BY <1>1 DEF IInv, Inv, FoundInv, Found
  <2> QED BY <1>5, <1>6, <2>1 DEF Found
<1>11. FoundInv' BY <1>6, <1>10, FoundKept DEF IInv, Inv
<1>12. Unseen(t) BY <1>1, <1>5, <1>6, <1>13 DEF Unseen, Changing
<1> QED BY <1>6, <1>7, <1>8, <1>9, <1>11, <1>12 DEF IInv, Inv

(* Counting in vain, and counting back.                                      *)
LEMMA CountedUp ==
  ASSUME IInv, NEW t \in Thread, LockInc(t), Entry(t).lock # 0
  PROVE  IInv' /\ Unseen(t)
<1> DEFINE e == [Entry(t) EXCEPT !.lock = @ + 1]
<1>1. /\ pc[t] = "lock" /\ InRange(t) /\ UNCHANGED <<global, stack, tmp, out, hit>>
      /\ Goto(t, "back") /\ SetEntry(t, e) /\ Locks /\ portable
  BY DEF LockInc
<1>2. Entry(t) \in EntryType BY <1>1, EntryOf DEF IInv
<1>3. e \in EntryType /\ e.primary = Entry(t).primary /\ e.secondary = Entry(t).secondary
      /\ e.lock = Entry(t).lock + 1
  BY <1>2 DEF EntryType
<1> HIDE DEF e
<1>4. /\ TypeOK' /\ Local(t) /\ pc'[t] = "back" /\ entries'[At(t)] = e
      /\ DOMAIN entries' = DOMAIN entries /\ UNCHANGED <<stack, size>> /\ PlaceInv'
  BY <1>1, <1>3, InPlace, OwnFacts DEF IInv, Inv, Busy, Hold
<1>5. EntryExclusion' BY <1>4, ExclusionKept DEF IInv, Inv, Within
<1>6. LockInv' BY <1>1, <1>3, <1>4, LockMore DEF IInv, Inv, Hold, Within
<1>11. \A i \in DOMAIN entries : SameSlots(i) BY <1>1, <1>4 DEF Local, Within
<1>7. SlotInv' BY <1>1, <1>4, <1>11, SlotsKept DEF IInv, Inv
<1>8. Found(t)'
  <2>1. ~hit'[t] BY <1>1 DEF IInv, Inv, FoundInv, Found
  <2> QED BY <1>4, <2>1 DEF Found
<1>9. FoundInv' BY <1>4, <1>8, FoundKept DEF IInv, Inv
<1>10. Unseen(t) BY <1>1, <1>4, <1>11 DEF Unseen, Changing
<1> QED BY <1>4, <1>5, <1>6, <1>7, <1>9, <1>10 DEF IInv, Inv

LEMMA CountedBack ==
  ASSUME IInv, NEW t \in Thread, LockDec(t)
  PROVE  IInv' /\ Unseen(t)
<1> DEFINE e == [Entry(t) EXCEPT !.lock = @ - 1]
<1>1. /\ pc[t] = "back" /\ UNCHANGED <<global, stack, tmp, out, hit>>
      /\ Goto(t, "lock") /\ SetEntry(t, e)
  BY DEF LockDec
<1>2. InRange(t) /\ Locks BY <1>1 DEF IInv, Inv, PlaceInv, Placed, Hold
<1>3. e \in EntryType /\ e.primary = Entry(t).primary /\ e.secondary = Entry(t).secondary
      /\ e.lock = Entry(t).lock - 1
  BY <1>2, EntryOf DEF EntryType, IInv
<1> HIDE DEF e
<1>4. /\ TypeOK' /\ Local(t) /\ pc'[t] = "lock" /\ entries'[At(t)] = e
      /\ DOMAIN entries' = DOMAIN entries /\ UNCHANGED <<stack, size>> /\ PlaceInv'
  BY <1>1, <1>2, <1>3, InPlace, OwnFacts DEF IInv, Inv, Busy, Hold
<1>5. EntryExclusion' BY <1>4, ExclusionKept DEF IInv, Inv, Within
<1>6. LockInv' BY <1>1, <1>2, <1>3, <1>4, LockLess DEF IInv, Inv, Hold, Within
<1>11. \A i \in DOMAIN entries : SameSlots(i) BY <1>1, <1>4 DEF Local, Within
<1>7. SlotInv' BY <1>1, <1>4, <1>11, SlotsKept DEF IInv, Inv
<1>8. Found(t)'
  <2>1. ~hit'[t] BY <1>1 DEF IInv, Inv, FoundInv, Found
  <2> QED BY <1>4, <2>1 DEF Found
<1>9. FoundInv' BY <1>4, <1>8, FoundKept DEF IInv, Inv
<1>10. Unseen(t) BY <1>1, <1>4, <1>11 DEF Unseen, Changing
<1> QED BY <1>4, <1>5, <1>6, <1>7, <1>9, <1>10 DEF IInv, Inv

(* What the thread that is in the entry at At(t) does there: the lock does   *)
(* not change, and the invariant holds if it holds of the slots it leaves.   *)
LEMMA StepWithin ==
  ASSUME IInv, NEW t \in Thread, pc[t] \in Within, NEW l \in Within, Goto(t, l),
         NEW e \in EntryType, SetEntry(t, e), e.lock = Entry(t).lock,
         UNCHANGED <<global, stack>>, Own(tmp, Slot, t), Own(out, Slot, t), Own(hit, BOOLEAN, t),
         Good(e.secondary), Good(e.primary) \/ l = "value",
         l = "promote" => e.secondary.key = Current(t),
         l = "demote" => Good(tmp'[t]),
         l \in {"demote", "copy"} => e.primary.key = Current(t),
         hit'[t] => l \in {"promote", "demote", "copy", "unlock"},
         l = "unlock" /\ hit'[t] => out'[t] = Node(Current(t))
  PROVE  IInv' /\ Leaves(t, l, e.primary, e.secondary)
<1>1. pc[t] \in Hold /\ pc[t] \in Busy /\ l \in Hold /\ l \in Busy /\ l # "back" /\ pc[t] # "back"
  BY DEF Hold, Busy, Within
<1>2. InRange(t) BY <1>1 DEF IInv, Inv, PlaceInv, Placed
<1>3. /\ TypeOK' /\ Local(t) /\ pc'[t] = l /\ entries'[At(t)] = e
      /\ DOMAIN entries' = DOMAIN entries /\ UNCHANGED <<stack, size>>
      /\ At(t)' = At(t) /\ Current(t)' = Current(t) /\ Entry(t)' = e /\ PlaceInv'
  BY <1>1, <1>2, InPlace DEF IInv, Inv
<1>4. EntryExclusion' BY <1>3, ExclusionKept DEF IInv, Inv
<1>5. LockInv'
  <2>1. \A i \in DOMAIN entries : entries'[i].lock = entries[i].lock
    BY <1>3 DEF Local, Entry
  <2> QED BY <1>1, <1>3, <2>1, LockKept DEF IInv, Inv
<1>6. \A n, k : (Good(n)' <=> Good(n)) /\ Node(k)' = Node(k) BY GoodStays DEF global
<1>7. PICK i \in DOMAIN entries : i = At(t) BY <1>2 DEF InRange
<1>8. entries'[i] = e BY <1>3, <1>7
<1>9. SlotInv'
  <2>1. Good(entries[i].secondary)' BY <1>6, <1>8
  <2>2. Good(entries[i].primary)' \/ Adding(i)' BY <1>3, <1>6, <1>7, <1>8 DEF Adding
  <2> QED BY <1>3, <1>7, <2>1, <2>2, SlotsSet DEF IInv, Inv
<1>10. Found(t)' BY <1>3, <1>6 DEF Found
<1>11. FoundInv' BY <1>3, <1>10, FoundKept DEF IInv, Inv
<1>12. Leaves(t, l, e.primary, e.secondary) BY <1>2, <1>3 DEF Leaves, InRange
<1> QED BY <1>3, <1>4, <1>5, <1>9, <1>11, <1>12 DEF IInv, Inv

(* What a thread finds in the entry it is in.                                *)
LEMMA WithinFacts ==
  ASSUME IInv, NEW t \in Thread, pc[t] \in Within
  PROVE  /\ InRange(t) /\ Entry(t) \in EntryType /\ Current(t) \in Key
         /\ Good(Entry(t).secondary) /\ (pc[t] # "value" => Good(Entry(t).primary))
         /\ \A n : Good(n) /\ n.key = Current(t) => n = Node(Current(t))
         /\ Node(Current(t)) \in Slot /\ Good(Node(Current(t)))
<1>1. InRange(t) /\ stack[t] # <<>> /\ Top(t).request # <<>>
  BY DEF IInv, Inv, PlaceInv, Placed, Busy, Hold, Within
<1>2. Entry(t) \in EntryType /\ Current(t) \in Key BY <1>1, EntryOf, CurrentType DEF IInv
<1>3. Good(Entry(t).secondary) /\ (Good(Entry(t).primary) \/ Adding(At(t)))
  BY <1>1 DEF IInv, Inv, SlotInv, InRange, Entry
<1>4. pc[t] # "value" => ~Adding(At(t))
  BY DEF IInv, Inv, EntryExclusion, Adding, Within
<1>5. \A n : Good(n) /\ n.key = Current(t) => n = Node(Current(t))
  BY <1>2, KeyAssumption DEF Good, NoNode
<1>6. Node(Current(t)) \in Slot /\ Good(Node(Current(t)))
  BY <1>2, NodeType DEF Good, Node, IInv, TypeOK
<1> QED BY <1>1, <1>2, <1>3, <1>4, <1>5, <1>6

LEMMA StepCompare ==
  ASSUME IInv, NEW t \in Thread, Compare(t)
  PROVE  IInv' /\ Unseen(t)
<1>1. pc[t] = "compare" /\ UNCHANGED <<global, table, stack, tmp, out>> /\ pc[t] \in Within
  BY DEF Compare, Within
<1> DEFINE h == Current(t) \in {Entry(t).primary.key, Entry(t).secondary.key}
           l == IF Entry(t).primary.key = Current(t) THEN "copy"
                ELSE IF Entry(t).secondary.key = Current(t) THEN "promote" ELSE "unlock"
<1>2. hit' = [hit EXCEPT ![t] = h] /\ Goto(t, l) BY DEF Compare
<1>3. l \in Within /\ (h => l # "unlock") /\ (h => l \in {"promote", "copy"}) BY DEF Within
<1>4. h \in BOOLEAN OBVIOUS
<1>5. SetEntry(t, Entry(t)) /\ Entry(t) \in EntryType /\ Good(Entry(t).primary)
  BY <1>1, WithinFacts, NoEntryMade DEF IInv
<1>6. /\ l = "promote" => Entry(t).secondary.key = Current(t)
      /\ l = "copy" => Entry(t).primary.key = Current(t)
      /\ l # "demote" /\ l # "value"
  OBVIOUS
<1> HIDE DEF h, l
<1>7. Own(tmp, Slot, t) /\ Own(out, Slot, t) /\ Own(hit, BOOLEAN, t) /\ hit'[t] = h
  BY <1>1, <1>2, <1>4, OwnFacts DEF IInv
<1>8. IInv' /\ Leaves(t, l, Entry(t).primary, Entry(t).secondary)
  BY <1>1, <1>2, <1>3, <1>5, <1>6, <1>7, WithinFacts, StepWithin
<1>9. l \notin Changing BY DEF l, Changing
<1>10. Unseen(t) BY <1>1, <1>8, <1>9 DEF Unseen, Changing, Leaves, SameSlots, table
<1> QED BY <1>8, <1>10

LEMMA StepPromote ==
  ASSUME IInv, NEW t \in Thread, Promote(t)
  PROVE  IInv' /\ Leaves(t, "demote", Entry(t).secondary, Entry(t).secondary) /\ tmp'[t] = Entry(t).primary
<1> DEFINE e == [Entry(t) EXCEPT !.primary = Entry(t).secondary]
<1>1. /\ pc[t] = "promote" /\ UNCHANGED <<global, stack, out, hit>> /\ pc[t] \in Within
      /\ Goto(t, "demote") /\ SetEntry(t, e) /\ tmp' = [tmp EXCEPT ![t] = Entry(t).primary]
  BY DEF Promote, Within
<1>2. Entry(t) \in EntryType /\ Good(Entry(t).primary) /\ Good(Entry(t).secondary)
  BY <1>1, WithinFacts
<1>3. /\ e \in EntryType /\ e.lock = Entry(t).lock /\ e.primary = Entry(t).secondary
      /\ e.secondary = Entry(t).secondary /\ Entry(t).primary \in Slot
  BY <1>2 DEF EntryType
<1>4. Own(tmp, Slot, t) /\ Own(out, Slot, t) /\ Own(hit, BOOLEAN, t) /\ tmp'[t] = Entry(t).primary
  BY <1>1, <1>3, OwnFacts DEF IInv
<1>5. Entry(t).secondary.key = Current(t) BY <1>1 DEF IInv, Inv, FoundInv, Found
<1> HIDE DEF e
<1> QED BY <1>1, <1>2, <1>3, <1>4, <1>5, StepWithin DEF Within

LEMMA StepDemote ==
  ASSUME IInv, NEW t \in Thread, Demote(t)
  PROVE  IInv' /\ Leaves(t, "copy", Entry(t).primary, tmp[t])
<1> DEFINE e == [Entry(t) EXCEPT !.secondary = tmp[t]]
<1>1. /\ pc[t] = "demote" /\ UNCHANGED <<global, stack, out, hit>> /\ pc[t] \in Within
      /\ Goto(t, "copy") /\ SetEntry(t, e) /\ tmp' = [tmp EXCEPT ![t] = NoNode]
  BY DEF Demote, Within
<1>2. Entry(t) \in EntryType /\ Good(Entry(t).primary) /\ tmp[t] \in Slot
  BY <1>1, WithinFacts DEF IInv, TypeOK, ThreadType
<1>3. Good(tmp[t]) /\ Entry(t).primary.key = Current(t)
  BY <1>1 DEF IInv, Inv, FoundInv, Found
<1>4. /\ e \in EntryType /\ e.lock = Entry(t).lock /\ e.primary = Entry(t).primary
      /\ e.secondary = tmp[t]
  BY <1>2 DEF EntryType
<1>5. Own(tmp, Slot, t) /\ Own(out, Slot, t) /\ Own(hit, BOOLEAN, t)
  BY <1>1, NodeType, OwnFacts DEF IInv
<1> HIDE DEF e
<1> QED BY <1>1, <1>2, <1>3, <1>4, <1>5, StepWithin DEF Within

LEMMA StepCopyOut ==
  ASSUME IInv, NEW t \in Thread, CopyOut(t)
  PROVE  IInv' /\ Unseen(t)
<1>1. /\ pc[t] = "copy" /\ UNCHANGED <<global, table, stack, tmp, hit>> /\ pc[t] \in Within
      /\ Goto(t, "unlock") /\ out' = [out EXCEPT ![t] = Entry(t).primary]
  BY DEF CopyOut, Within
<1>2. /\ SetEntry(t, Entry(t)) /\ Entry(t) \in EntryType /\ Good(Entry(t).primary)
      /\ Good(Entry(t).secondary) /\ Entry(t).primary \in Slot
  BY <1>1, WithinFacts, NoEntryMade DEF IInv, EntryType
<1>3. Entry(t).primary = Node(Current(t))
  BY <1>1, <1>2, WithinFacts DEF IInv, Inv, FoundInv, Found
<1>4. Own(tmp, Slot, t) /\ Own(out, Slot, t) /\ Own(hit, BOOLEAN, t) /\ out'[t] = Entry(t).primary
  BY <1>1, <1>2, OwnFacts DEF IInv
<1> QED BY <1>1, <1>2, <1>3, <1>4, StepWithin DEF Within, Unseen, Changing, Leaves, SameSlots, table

LEMMA StepShift ==
  ASSUME IInv, NEW t \in Thread, Shift(t)
  PROVE  IInv' /\ Leaves(t, "key", Entry(t).primary, Entry(t).primary)
<1> DEFINE e == [Entry(t) EXCEPT !.secondary = Entry(t).primary]
<1>1. /\ pc[t] = "shift" /\ UNCHANGED <<global, stack, tmp, out, hit>> /\ pc[t] \in Within
      /\ Goto(t, "key") /\ SetEntry(t, e)
  BY DEF Shift, Within
<1>2. Entry(t) \in EntryType /\ Good(Entry(t).primary) BY <1>1, WithinFacts
<1>3. /\ e \in EntryType /\ e.lock = Entry(t).lock /\ e.primary = Entry(t).primary
      /\ e.secondary = Entry(t).primary
  BY <1>2 DEF EntryType
<1>4. /\ Own(tmp, Slot, t) /\ Own(out, Slot, t) /\ Own(hit, BOOLEAN, t) /\ ~hit'[t]
  BY <1>1, OwnFacts DEF IInv, Inv, FoundInv, Found
<1> HIDE DEF e
<1> QED BY <1>1, <1>2, <1>3, <1>4, StepWithin DEF Within

LEMMA StepAddKey ==
  ASSUME IInv, NEW t \in Thread, AddKey(t)
  PROVE  IInv' /\ (\E p : Leaves(t, "value", p, Entry(t).secondary))
<1> DEFINE e == [Entry(t) EXCEPT !.primary.key = Current(t)]
<1>1. /\ pc[t] = "key" /\ UNCHANGED <<global, stack, tmp, out, hit>> /\ pc[t] \in Within
      /\ Goto(t, "value") /\ SetEntry(t, e)
  BY DEF AddKey, Within
<1>2. Entry(t) \in EntryType /\ Good(Entry(t).secondary) /\ Current(t) \in Key
  BY <1>1, WithinFacts
<1>3. e \in EntryType /\ e.lock = Entry(t).lock /\ e.secondary = Entry(t).secondary
  BY <1>2 DEF EntryType, Slot
<1>4. /\ Own(tmp, Slot, t) /\ Own(out, Slot, t) /\ Own(hit, BOOLEAN, t) /\ ~hit'[t]
  BY <1>1, OwnFacts DEF IInv, Inv, FoundInv, Found
<1> HIDE DEF e
<1> QED BY <1>1, <1>2, <1>3, <1>4, StepWithin DEF Within

LEMMA StepAddValue ==
  ASSUME IInv, NEW t \in Thread, AddValue(t)
  PROVE  IInv' /\ Leaves(t, "unlock", Node(Current(t)), Entry(t).secondary)
<1> DEFINE e == [Entry(t) EXCEPT !.primary = Node(Current(t))]
<1>1. /\ pc[t] = "value" /\ UNCHANGED <<global, stack, tmp, out, hit>> /\ pc[t] \in Within
      /\ Goto(t, "unlock") /\ SetEntry(t, e)
  BY DEF AddValue, Within
<1>2. /\ Entry(t) \in EntryType /\ Good(Entry(t).secondary)
      /\ Node(Current(t)) \in Slot /\ Good(Node(Current(t)))
  BY <1>1, WithinFacts
<1>3. /\ e \in EntryType /\ e.lock = Entry(t).lock /\ e.primary = Node(Current(t))
      /\ e.secondary = Entry(t).secondary
  BY <1>2 DEF EntryType
<1>4. /\ Own(tmp, Slot, t) /\ Own(out, Slot, t) /\ Own(hit, BOOLEAN, t) /\ ~hit'[t]
  BY <1>1, OwnFacts DEF IInv, Inv, FoundInv, Found
<1> HIDE DEF e
<1> QED BY <1>1, <1>2, <1>3, <1>4, StepWithin DEF Within

-----------------------------------------------------------------------------
(* The other steps of a thread, which ends them outside of the entries.      *)

LEMMA StepOut ==
  ASSUME IInv, NEW t \in Thread, TableType', Local(t), LockInv',
         \A i \in DOMAIN entries : SameSlots(i), pc[t] \notin Changing,
         NEW l \in {"idle", "evaluate", "lock"}, Goto(t, l),
         Own(stack, Seq(Frame), t), Own(tmp, Slot, t), Own(out, Slot, t), Own(hit, BOOLEAN, t), ~hit'[t],
         stack'[t] = <<>> <=> l = "idle", l # "idle" => t <= numThreads,
         l = "lock" => stack'[t][Len(stack'[t])].request # <<>>
  PROVE  IInv' /\ Unseen(t)
<1>1. pc'[t] = l /\ pc' \in [Thread -> PC]
  BY DEF IInv, TypeOK, ThreadType, Goto, PC, Busy
<1>2. TypeOK' BY <1>1 DEF IInv, TypeOK, ThreadType, Own, Local, global
<1>3. Placed(t)' BY <1>1 DEF Placed, Busy, Hold, Within, Top, Local, global
<1>4. PlaceInv' BY <1>3, PlaceKept DEF IInv, Inv
<1>5. EntryExclusion' BY <1>1, ExclusionKept DEF IInv, Inv, Within
<1>6. SlotInv' BY SlotsKept DEF IInv, Inv, Changing
<1>7. Found(t)' BY <1>1 DEF Found
<1>8. FoundInv' BY <1>7, FoundKept DEF IInv, Inv
<1>9. Unseen(t) BY <1>1 DEF Unseen, Changing
<1> QED BY <1>2, <1>4, <1>5, <1>6, <1>8, <1>9 DEF IInv, Inv

(* A step that does not touch the table.                                     *)
LEMMA StepApart ==
  ASSUME IInv, NEW t \in Thread, UNCHANGED <<global, table, tmp, out, hit>>, pc[t] \in {"idle", "evaluate"},
         NEW l \in {"idle", "evaluate", "lock"}, Goto(t, l),
         NEW s \in Seq(Frame), stack' = [stack EXCEPT ![t] = s],
         s = <<>> <=> l = "idle", l # "idle" => t <= numThreads, l = "lock" => s[Len(s)].request # <<>>
  PROVE  IInv' /\ Unseen(t)
<1>1. Own(stack, Seq(Frame), t) /\ stack'[t] = s BY DEF IInv, TypeOK, ThreadType, Own
<1>2. pc'[t] = l /\ \A u \in Thread \ {t} : pc'[u] = pc[u]
  BY DEF IInv, TypeOK, ThreadType, Goto
<1>3. Own(tmp, Slot, t) /\ Own(out, Slot, t) /\ Own(hit, BOOLEAN, t)
  BY OwnFacts DEF IInv
<1>4. Local(t) /\ \A i \in DOMAIN entries : SameSlots(i)
  BY <1>1, <1>2, <1>3 DEF Local, SameSlots, Own, table
<1>5. TableType' BY DEF IInv, TypeOK, TableType, table
<1>6. LockInv' BY <1>2, <1>4, LockKept DEF IInv, Inv, Hold, Within, table
<1>7. ~hit'[t] /\ pc[t] \notin Changing BY DEF IInv, Inv, FoundInv, Found, Changing
<1> QED BY <1>1, <1>3, <1>4, <1>5, <1>6, <1>7, StepOut

LEMMA Entered ==
  ASSUME IInv, NEW t \in Thread, pc[t] \in {"idle", "evaluate"}, t <= numThreads,
         NEW request \in Seq(Key), NEW plies \in 0..(Len(Requests) - 1), Enter(t, request, plies)
  PROVE  IInv' /\ Unseen(t)
<1> DEFINE r == IF cCache = 0 THEN <<>> ELSE request
           f == [request |-> r, plies |-> plies, i |-> 1, adding |-> FALSE]
           s == Append(stack[t], f)
           l == IF r = <<>> THEN "evaluate" ELSE "lock"
<1>1. f \in Frame
  <2>1. r \in Seq(Key) /\ (r # <<>> => 1 \in 1..Len(r)) BY EmptySeq
  <2> HIDE DEF r
  <2> QED BY <2>1 DEF Frame
<1>2. stack[t] \in Seq(Frame) BY DEF IInv, TypeOK, ThreadType
<1>3. s \in Seq(Frame) /\ s # <<>> /\ s[Len(s)] = f
  <2> HIDE DEF f
  <2> QED BY <1>1, <1>2, AppendProperties
<1>4. stack' = [stack EXCEPT ![t] = s] /\ Goto(t, l) /\ UNCHANGED <<global, table, tmp, out, hit>>
  BY <1>2 DEF Enter, IInv, TypeOK, ThreadType
<1>5. f.request = r OBVIOUS
<1>6. l \in {"evaluate", "lock"} /\ (l = "lock" => r # <<>>) OBVIOUS
<1> HIDE DEF s, l, f, r
<1> QED BY <1>3, <1>4, <1>5, <1>6, StepApart

LEMMA StepEvaluatePosition ==
  ASSUME IInv, NEW t \in Thread, EvaluatePosition(t)
  PROVE  IInv' /\ Unseen(t)
<1>0. PICK p \in DOMAIN Requests : \E request \in Requests[p] : Enter(t, request, p - 1)
  BY DEF EvaluatePosition
<1>1. PICK request \in Requests[p] : Enter(t, request, p - 1)
  BY <1>0
<1>2. Len(Requests) \in Nat /\ p \in 1..Len(Requests) /\ Requests[p] \in SUBSET Seq(Key)
  BY RequestsAssumption, LenProperties, ElementOfSeq
<1>3. p - 1 \in 0..(Len(Requests) - 1) /\ request \in Seq(Key) BY <1>2
<1> QED BY <1>1, <1>3, Entered DEF EvaluatePosition

(* The evaluation a thread is at has a number of plies that the requests     *)
(* allow for.                                                                *)
LEMMA EvaluateFacts ==
  ASSUME IInv, NEW t \in Thread, pc[t] = "evaluate"
  PROVE  /\ stack[t] \in Seq(Frame) /\ stack[t] # <<>> /\ Top(t) \in Frame /\ t <= numThreads
         /\ Top(t).plies > 0 => /\ Requests[Top(t).plies] \in SUBSET Seq(Key)
                                /\ Top(t).plies - 1 \in 0..(Len(Requests) - 1)
<1>1. stack[t] \in Seq(Frame) /\ stack[t] # <<>> /\ t <= numThreads
  BY DEF IInv, Inv, PlaceInv, Placed, TypeOK, ThreadType
<1>2. Top(t) \in Frame BY <1>1, CurrentType DEF IInv
<1>3. Len(Requests) \in Nat BY RequestsAssumption, LenProperties
<1>4. Top(t).plies \in 0..(Len(Requests) - 1) BY <1>2 DEF Frame
<1>5. ASSUME Top(t).plies > 0
      PROVE  Top(t).plies \in 1..Len(Requests) /\ Top(t).plies - 1 \in 0..(Len(Requests) - 1)
  BY <1>3, <1>4, <1>5
<1>6. \A p \in 1..Len(Requests) : Requests[p] \in SUBSET Seq(Key)
  BY RequestsAssumption, ElementOfSeq
<1> QED BY <1>1, <1>2, <1>5, <1>6

LEMMA StepEvaluateNext ==
  ASSUME IInv, NEW t \in Thread, EvaluateNext(t)
  PROVE  IInv' /\ Unseen(t)
<1>1. pc[t] = "evaluate" /\ Top(t).plies > 0 BY DEF EvaluateNext
<1>2. PICK request \in Requests[Top(t).plies] : Enter(t, request, Top(t).plies - 1)
  BY DEF EvaluateNext
<1>3. /\ request \in Seq(Key) /\ t <= numThreads
      /\ Top(t).plies - 1 \in 0..(Len(Requests) - 1)
  BY <1>1, <1>2, EvaluateFacts
<1> QED BY <1>1, <1>2, <1>3, Entered

LEMMA StepInterrupted ==
  ASSUME IInv, NEW t \in Thread, Interrupted(t)
  PROVE  IInv' /\ Unseen(t)
<1>1. <<>> \in Seq(Frame) BY EmptySeq
<1> QED BY <1>1, StepApart DEF Interrupted

LEMMA ReturnFacts ==
  ASSUME IInv, NEW t \in Thread, stack[t] # <<>>, Return(t)
  PROVE  \E s \in Seq(Frame), l \in {"idle", "evaluate"} :
           stack' = [stack EXCEPT ![t] = s] /\ Goto(t, l) /\ (s = <<>> <=> l = "idle")
<1> DEFINE s == SubSeq(stack[t], 1, Len(stack[t]) - 1)
           l == IF Len(stack[t]) = 1 THEN "idle" ELSE "evaluate"
<1>1. stack[t] \in Seq(Frame) BY DEF IInv, TypeOK, ThreadType
<1>2. s \in Seq(Frame) /\ (s = <<>> <=> Len(stack[t]) = 1) BY <1>1, InnermostType
<1>3. stack' = [stack EXCEPT ![t] = s] /\ Goto(t, l)
  BY DEF Return, IInv, TypeOK, ThreadType
<1> QED BY <1>2, <1>3

(* The evaluation goes on with frame f, at another key.                      *)
LEMMA SetTopFacts ==
  ASSUME IInv, NEW t \in Thread, stack[t] # <<>>, NEW f \in Frame, SetTop(t, f)
  PROVE  \E s \in Seq(Frame) :
           stack' = [stack EXCEPT ![t] = s] /\ s # <<>> /\ s[Len(s)] = f
<1> DEFINE s == [stack[t] EXCEPT ![Len(stack[t])] = f]
<1>1. stack[t] \in Seq(Frame) BY DEF IInv, TypeOK, ThreadType
<1>2. s \in Seq(Frame) /\ s # <<>> /\ s[Len(s)] = f BY <1>1, InnermostType
<1>3. stack' = [stack EXCEPT ![t] = s] BY DEF SetTop, IInv, TypeOK, ThreadType
<1> QED BY <1>2, <1>3

(* An evaluation that is at a key can go to any of its keys.                 *)
LEMMA FrameMoved ==
  ASSUME NEW f \in Frame, f.request # <<>>, NEW j \in 1..Len(f.request), NEW b \in BOOLEAN
  PROVE  /\ [f EXCEPT !.i = j, !.adding = b] \in Frame /\ [f EXCEPT !.i = j] \in Frame
         /\ [f EXCEPT !.i = j, !.adding = b].request = f.request
         /\ [f EXCEPT !.i = j].request = f.request
<1> DEFINE R == [request : Seq(Key), plies : 0..(Len(Requests) - 1), i : Nat, adding : BOOLEAN]
<1>1. f \in R BY DEF Frame
<1>2. j \in Nat
  <2>1. Len(f.request) \in Nat BY <1>1, LenProperties
  <2> QED BY <2>1
<1>3. [f EXCEPT !.i = j, !.adding = b] \in R /\ [f EXCEPT !.i = j] \in R BY <1>1, <1>2
<1>4. /\ [f EXCEPT !.i = j, !.adding = b].request = f.request /\ [f EXCEPT !.i = j].request = f.request
      /\ [f EXCEPT !.i = j, !.adding = b].i = j /\ [f EXCEPT !.i = j].i = j
  BY <1>1
<1> QED BY <1>3, <1>4 DEF Frame

LEMMA StepEvaluated ==
  ASSUME IInv, NEW t \in Thread, Evaluated(t)
  PROVE  IInv' /\ Unseen(t)
<1>1. pc[t] = "evaluate" /\ UNCHANGED <<global, table, tmp, out, hit>> BY DEF Evaluated
<1>2. stack[t] # <<>> /\ Top(t) \in Frame /\ t <= numThreads BY <1>1, EvaluateFacts
<1>3. CASE Top(t).request = <<>>
  <2>1. Return(t) BY <1>3 DEF Evaluated
  <2> QED BY <1>1, <1>2, <2>1, ReturnFacts, StepApart
<1>4. CASE Top(t).request # <<>>
  <2> DEFINE f == [Top(t) EXCEPT !.i = 1, !.adding = TRUE]
  <2>1. SetTop(t, f) /\ Goto(t, "lock") BY <1>4 DEF Evaluated
  <2>2. f \in Frame /\ f.request # <<>>
    <3>1. Len(Top(t).request) \in Nat \ {0} BY <1>2, <1>4, EmptySeq DEF Frame
    <3>2. 1 \in 1..Len(Top(t).request) BY <3>1
    <3> QED BY <1>2, <1>4, <3>2, FrameMoved
  <2> HIDE DEF f
  <2>3. PICK s \in Seq(Frame) : stack' = [stack EXCEPT ![t] = s] /\ s # <<>> /\ s[Len(s)] = f
    BY <1>2, <2>1, <2>2, SetTopFacts
  <2> QED BY <1>1, <1>2, <2>1, <2>2, <2>3, StepApart
<1> QED BY <1>3, <1>4

(* Opening the lock takes the thread out of the holders of the entry.        *)
LEMMA StepUnlock ==
  ASSUME IInv, NEW t \in Thread, Unlock(t)
  PROVE  IInv' /\ Unseen(t)
<1> DEFINE e == Opened(Entry(t))
<1>1. /\ pc[t] = "unlock" /\ UNCHANGED <<global, tmp>> /\ SetEntry(t, e) /\ Forget(t)
      /\ pc[t] \in Within /\ pc[t] \in Hold /\ pc[t] \in Busy
  BY DEF Unlock, Within, Hold, Busy
<1>2. InRange(t) /\ Entry(t) \in EntryType BY <1>1, WithinFacts
<1>3. Locks /\ ~portable => Entry(t).lock = 1
  <2> SUFFICES ASSUME Locks, ~portable PROVE Entry(t).lock = 1
    OBVIOUS
  <2>1. \A u \in Thread : pc[u] \in Hold => pc[u] \in Within
    BY DEF IInv, Inv, PlaceInv, Placed, Hold
  <2>2. Holders(At(t)) = {t}
    BY <1>1, <2>1 DEF IInv, Inv, EntryExclusion, Holders
  <2> QED BY <1>2, <2>2, FS_Singleton DEF IInv, Inv, LockInv, InRange, Entry
<1>4. /\ e \in EntryType /\ e.primary = Entry(t).primary /\ e.secondary = Entry(t).secondary
      /\ e.lock = Entry(t).lock - IF Locks THEN 1 ELSE 0
  BY <1>2, <1>3 DEF EntryType, Opened
<1> HIDE DEF e
<1>5. /\ TableType' /\ DOMAIN entries' = DOMAIN entries /\ UNCHANGED <<size, cCache>>
      /\ \A i \in DOMAIN entries : entries'[i] = IF i = At(t) THEN e ELSE entries[i]
  BY <1>1, <1>2, <1>4, SetEntryType DEF IInv, TypeOK
<1>6. \A i \in DOMAIN entries : SameSlots(i)
  BY <1>4, <1>5 DEF SameSlots, Entry
<1>7. /\ Own(tmp, Slot, t) /\ Own(out, Slot, t) /\ Own(hit, BOOLEAN, t) /\ ~hit'[t]
  BY <1>1, NodeType, OwnFacts DEF IInv, Forget
<1>8. stack[t] # <<>> /\ t <= numThreads /\ stack[t] \in Seq(Frame) /\ Top(t) \in Frame /\ Top(t).request # <<>>
  BY <1>1, CurrentType DEF IInv, Inv, PlaceInv, Placed, TypeOK, ThreadType
<1>9. PICK s \in Seq(Frame), l \in {"idle", "evaluate", "lock"} :
        /\ stack' = [stack EXCEPT ![t] = s] /\ Goto(t, l)
        /\ (s = <<>> <=> l = "idle") /\ (l = "lock" => s[Len(s)].request # <<>>)
  <2>1. CASE Goto(t, "evaluate") /\ UNCHANGED stack
    <3>1. stack' = [stack EXCEPT ![t] = stack[t]] BY <2>1 DEF IInv, TypeOK, ThreadType
    <3> QED BY <1>8, <2>1, <3>1
  <2>2. CASE Top(t).i < Len(Top(t).request) /\ SetTop(t, [Top(t) EXCEPT !.i = @ + 1]) /\ Goto(t, "lock")
    <3> DEFINE f == [Top(t) EXCEPT !.i = @ + 1]
    <3>1. f \in Frame /\ f.request # <<>>
      <4>1. Top(t).i \in 1..Len(Top(t).request) /\ Top(t).request \in Seq(Key) BY <1>8 DEF Frame
      <4>2. Len(Top(t).request) \in Nat BY <4>1, LenProperties
      <4>3. Top(t).i + 1 \in 1..Len(Top(t).request) BY <2>2, <4>1, <4>2
      <4> QED BY <1>8, <4>3, FrameMoved
    <3>2. SetTop(t, f) BY <2>2
    <3> HIDE DEF f
    <3>3. PICK s \in Seq(Frame) : stack' = [stack EXCEPT ![t] = s] /\ s # <<>> /\ s[Len(s)] = f
      BY <1>8, <3>1, <3>2, SetTopFacts
    <3> QED BY <2>2, <3>1, <3>3
  <2>3. CASE Return(t) BY <1>8, <2>3, ReturnFacts
  <2> QED BY <2>1, <2>2, <2>3 DEF Unlock
<1>10. Own(stack, Seq(Frame), t) /\ stack'[t] = s
  BY <1>9 DEF IInv, TypeOK, ThreadType, Own
<1>11. pc'[t] = l /\ \A u \in Thread \ {t} : pc'[u] = pc[u]
  BY <1>9 DEF IInv, TypeOK, ThreadType, Goto
<1>12. Local(t)
  <2>1. \A i \in DOMAIN entries : entries'[i] # entries[i] => pc[t] \in Busy /\ i = At(t)
    BY <1>1, <1>5
  <2> QED BY <1>1, <1>5, <1>6, <1>7, <1>10, <1>11, <2>1 DEF Local, Own
<1>13. LockInv'
  <2>1. entries'[At(t)].lock = Entry(t).lock - IF Locks THEN 1 ELSE 0
    BY <1>2, <1>4, <1>5 DEF InRange
  <2>2. pc'[t] \notin Hold BY <1>11 DEF Hold, Within
  <2> QED BY <1>1, <1>2, <1>12, <2>1, <2>2, LockLess DEF IInv, Inv
<1>14. pc[t] \notin Changing BY <1>1 DEF Changing
<1> QED BY <1>1, <1>14, <1>5, <1>6, <1>7, <1>8, <1>9, <1>10, <1>12, <1>13, StepOut

LEMMA StepStray ==
  ASSUME IInv, NEW t \in Thread, Stray(t)
  PROVE  IInv'
<1>1. /\ pc[t] = "lock" /\ ~InRange(t) /\ UNCHANGED <<global, table, stack, tmp, out, hit>>
      /\ \A u \in Thread : pc'[u] = "crashed"
  BY DEF Stray
<1>2. DOMAIN entries = {}
  <2>1. stack[t] # <<>> /\ Top(t).request # <<>>
    BY <1>1 DEF IInv, Inv, PlaceInv, Placed, Busy
  <2>2. Current(t) \in Key BY <2>1, CurrentType DEF IInv
  <2> QED BY <1>1, <2>2, IndexInRange DEF IInv, TypeOK, InRange, At
<1>3. \A u \in Thread : ~hit[u]
  BY <1>2 DEF IInv, Inv, FoundInv, Found, PlaceInv, Placed, InRange, Hold, Within
<1>4. TypeOK'
  <2>1. pc' \in [Thread -> PC] BY DEF Stray, PC
  <2> QED BY <1>1, <2>1 DEF IInv, TypeOK, TableType, ThreadType, table, global
<1>5. PlaceInv' BY <1>1, <1>2 DEF PlaceInv, Placed, Busy, Hold, Within, table
<1>6. EntryExclusion' BY <1>1 DEF EntryExclusion, Within
<1>7. LockInv' /\ SlotInv' BY <1>1, <1>2 DEF LockInv, SlotInv, table
<1>8. FoundInv' BY <1>1, <1>3 DEF FoundInv, Found
<1> QED BY <1>4, <1>5, <1>6, <1>7, <1>8 DEF IInv, Inv

-----------------------------------------------------------------------------
(* The steps of the main thread, while the others wait.                      *)

LEMMA FlushedEntries == \A n : \A i \in DOMAIN Flushed(n) : Flushed(n)[i] = NoEntry
BY DEF Flushed

LEMMA StepMain ==
  ASSUME IInv, Main
  PROVE  IInv'
<1>1. /\ Quiet /\ UNCHANGED <<portable, pc, stack, tmp, out, hit>>
      /\ \A t \in Thread : pc[t] = "idle" /\ pc'[t] = "idle"
  BY DEF Main, CommandClearCache, SetMET, CalibrateEnd, CommandSetCache, Calibrate, MT_SetNumThreads,
         Command, Quiet, Threads, global
<1>2. CASE \E n \in Thread : MT_SetNumThreads(n)
  <2>1. PICK n \in Thread : MT_SetNumThreads(n) BY <1>2
  <2>2. UNCHANGED <<met, saved, table>> /\ numThreads' \in Thread BY <2>1 DEF MT_SetNumThreads
  <2>3. TypeOK' BY <1>1, <2>2 DEF IInv, TypeOK, TableType, ThreadType, table
  <2>4. \A i \in DOMAIN entries : Holders(i) = {} /\ Holders(i)' = {}
    BY <1>1, <2>2 DEF Holders, Hold, Within, table
  <2>5. LockInv' BY <2>2, <2>4, FS_EmptySet DEF IInv, Inv, LockInv, table
  <2>6. SlotInv' BY <1>1, <2>2 DEF IInv, Inv, SlotInv, Good, Adding, Node, Result, table
  <2>7. PlaceInv' /\ FoundInv' /\ EntryExclusion'
    BY <1>1 DEF IInv, Inv, PlaceInv, Placed, FoundInv, Found, EntryExclusion, Busy, Hold, Within
  <2> QED BY <2>3, <2>5, <2>6, <2>7 DEF IInv, Inv
<1>3. CASE ~\E n \in Thread : MT_SetNumThreads(n)
  <2>1. UNCHANGED numThreads /\ (UNCHANGED met \/ (met' = 1 - met /\ Flush))
    BY <1>3 DEF Main, CommandClearCache, SetMET, CalibrateEnd, CommandSetCache, Calibrate, global
  <2>2. saved' \in Nat \cup {UINT_MAX, None}
    BY <1>3 DEF Main, CommandClearCache, SetMET, CalibrateEnd, CommandSetCache, Calibrate, global,
                IInv, TypeOK, TableType
  <2>3. Flush \/ \E n \in Nat \cup {UINT_MAX}, memory \in BOOLEAN : Resize(n, memory)
    <3>1. CASE CommandClearCache \/ SetMET BY <3>1 DEF CommandClearCache, SetMET
    <3>2. ASSUME NEW memory \in BOOLEAN, CalibrateEnd(memory)
          PROVE  \E n \in Nat \cup {UINT_MAX} : Resize(n, memory)
      BY <3>2 DEF CalibrateEnd, IInv, TypeOK
    <3>3. ASSUME NEW n \in Sizes, NEW memory \in BOOLEAN, CommandSetCache(n, memory)
          PROVE  n \in Nat \cup {UINT_MAX} /\ Resize(n, memory)
      BY <3>3, BoundsAssumption DEF CommandSetCache
    <3>4. ASSUME NEW understood \in BOOLEAN, Calibrate(understood)
          PROVE  0 \in Nat \cup {UINT_MAX} /\ Resize(0, TRUE)
      BY <3>4 DEF Calibrate
    <3> QED BY <1>3, <3>1, <3>2, <3>3, <3>4 DEF Main
  <2>4. TableType'
    BY <2>3, FlushType, ResizeType DEF IInv, TypeOK
  <2>5. TypeOK'
    BY <1>1, <2>1, <2>2, <2>4 DEF IInv, TypeOK, ThreadType
  <2>6. /\ \A i \in DOMAIN entries' : entries'[i] = NoEntry
        \/ UNCHANGED <<entries, met>>
    <3>1. CASE Flush BY <3>1 DEF Flush
    <3>2. ASSUME NEW n \in Nat \cup {UINT_MAX}, NEW memory \in BOOLEAN, Resize(n, memory), ~Flush
          PROVE  UNCHANGED <<entries, met>> \/ \A i \in DOMAIN entries' : entries'[i] = NoEntry
      <4>1. UNCHANGED entries \/ \E k : entries' = Flushed(k) BY <3>2 DEF Resize
      <4> QED BY <2>1, <3>2, <4>1, FlushedEntries
    <3> QED BY <2>3, <3>1, <3>2
  <2>7. \A i : Holders(i) = {} /\ Holders(i)' = {} BY <1>1 DEF Holders, Hold, Within
  <2>8. LockInv'
    <3>1. CASE \A i \in DOMAIN entries' : entries'[i] = NoEntry
      BY <2>7, <3>1, FS_EmptySet DEF LockInv, NoEntry
    <3>2. CASE UNCHANGED <<entries, met>>
      BY <2>1, <2>7, <3>2, FS_EmptySet DEF IInv, Inv, LockInv, Locks
    <3> QED BY <2>6, <3>1, <3>2
  <2>9. SlotInv'
    <3>1. CASE \A i \in DOMAIN entries' : entries'[i] = NoEntry
      BY <3>1 DEF SlotInv, NoEntry, Good
    <3>2. CASE UNCHANGED <<entries, met>>
      BY <1>1, <3>2 DEF IInv, Inv, SlotInv, Good, Adding, Node, Result
    <3> QED BY <2>6, <3>1, <3>2
  <2>10. PlaceInv' /\ FoundInv' /\ EntryExclusion'
    BY <1>1 DEF IInv, Inv, PlaceInv, Placed, FoundInv, Found, EntryExclusion, Busy, Hold, Within
  <2> QED BY <2>5, <2>8, <2>9, <2>10 DEF IInv, Inv
<1> QED BY <1>2, <1>3

LEMMA InductiveInit == Init => IInv
<1> SUFFICES ASSUME Init PROVE IInv
  OBVIOUS
<1> USE DEF Init
<1>1. TypeOK
  <2>1. entries \in [0..(1 - 1) -> EntryType] BY FlushedType
  <2>2. TableType BY <2>1 DEF TableType
  <2>3. ThreadType BY EmptySeq, NodeType DEF ThreadType, PC
  <2>4. 1 \in Thread BY BoundsAssumption DEF Thread
  <2> QED BY <2>2, <2>3, <2>4 DEF TypeOK
<1>2. PlaceInv /\ FoundInv /\ EntryExclusion
  BY DEF PlaceInv, Placed, FoundInv, Found, EntryExclusion, Busy, Hold, Within
<1>3. LockInv /\ SlotInv
  <2>1. \A i \in DOMAIN entries : entries[i] = NoEntry BY DEF Flushed
  <2>2. ~Locks BY DEF Locks
  <2> QED BY <2>1, <2>2 DEF LockInv, SlotInv, NoEntry, Good
<1> QED BY <1>1, <1>2, <1>3 DEF IInv, Inv

LEMMA InductiveNext == IInv /\ [Next]_vars => IInv'
<1> SUFFICES ASSUME IInv, [Next]_vars PROVE IInv'
  OBVIOUS
<1>1. CASE UNCHANGED vars
  <2>1. UNCHANGED <<portable, numThreads, entries, size, cCache, met, saved, pc, stack, tmp, out, hit>>
    BY <1>1 DEF vars, global, table
  <2>2. \A t \in Thread : At(t)' = At(t) /\ Current(t)' = Current(t) /\ Top(t)' = Top(t)
    BY <2>1, InPlaceStay
  <2>3. TypeOK' BY <2>1 DEF IInv, TypeOK, TableType, ThreadType
  <2>4. PlaceInv' BY <2>1, <2>2 DEF IInv, Inv, PlaceInv, Placed, InRange, Locks
  <2>5. EntryExclusion' BY <2>1, <2>2 DEF IInv, Inv, EntryExclusion
  <2>6. \A i : Holders(i)' = Holders(i) /\ (Adding(i)' <=> Adding(i)) BY <2>1, <2>2 DEF Holders, Adding
  <2>7. LockInv' BY <2>1, <2>6 DEF IInv, Inv, LockInv, Locks
  <2>8. \A n, k : (Good(n)' <=> Good(n)) /\ Node(k)' = Node(k) BY <2>1, GoodStays
  <2>9. SlotInv' BY <2>1, <2>6, <2>8 DEF IInv, Inv, SlotInv
  <2>10. FoundInv' BY <2>1, <2>2, <2>8 DEF IInv, Inv, FoundInv, Found, Entry
  <2> QED BY <2>3, <2>4, <2>5, <2>7, <2>9, <2>10 DEF IInv, Inv
<1>2. CASE Main BY <1>2, StepMain
<1>3. ASSUME NEW t \in Thread,
             ThreadStep(t) \/ EvaluatePosition(t) \/ EvaluateNext(t) \/ Interrupted(t)
      PROVE  IInv'
  <2>1. CASE LockInc(t) BY <2>1, Locked, CountedUp
  <2> QED BY <1>3, <2>1, Locked, CountedBack, StepCompare, StepPromote, StepDemote, StepCopyOut,
             StepShift, StepAddKey, StepAddValue, StepUnlock, StepStray, StepEvaluatePosition,
             StepEvaluateNext, StepInterrupted, StepEvaluated
          DEF ThreadStep
<1> QED BY <1>1, <1>2, <1>3 DEF Next

LEMMA Inductive == Spec => []IInv
BY InductiveInit, InductiveNext, PTL DEF Spec

(* A hit is for the position and context that were looked up, and is what an *)
(* evaluation now would make (CacheLookup, cache.c).                         *)
THEOREM HitsMatch == Spec => []HitMatches
<1>1. IInv => HitMatches
  <2> SUFFICES ASSUME IInv, NEW t \in Thread, Hit(t)
               PROVE  out[t].val.of = Current(t) /\ out[t].val.met = met
    BY DEF HitMatches
  <2>1. out[t] = Node(Current(t)) BY DEF IInv, Inv, FoundInv, Found, Hit
  <2> QED BY <2>1 DEF Node, Result
<1> QED BY <1>1, Inductive, PTL

(* One thread at a time is in an entry (cache_lock, cache_unlock), and none  *)
(* is beyond the entries of a table that has any.                            *)
THEOREM GuardsHold == Spec => []EntriesGuarded
<1>1. IInv => EntriesGuarded
  BY DEF IInv, Inv, EntriesGuarded, StrayKnown, Crashed, PlaceInv, Placed
<1> QED BY <1>1, Inductive, PTL

-----------------------------------------------------------------------------
(* The refinement.  An entry is seen with the new result in its first slot   *)
(* as soon as the old one has moved to the second, and with both in their    *)
(* places as soon as the first has been set aside.                           *)

LEMMA SettledAt ==
  ASSUME EntryExclusion, NEW t \in Thread, pc[t] \in Within, NEW i, At(t) = i
  PROVE  Settled(i) = IF pc[t] \in {"key", "value"} THEN <<Node(Current(t)), entries[i].secondary>>
                      ELSE IF pc[t] = "demote" THEN <<tmp[t], entries[i].primary>>
                      ELSE <<entries[i].primary, entries[i].secondary>>
<1>1. \A u \in Thread : pc[u] \in Within /\ At(u) = i => u = t
  BY DEF EntryExclusion
<1>2. \A u \in Thread : pc[u] \in Changing => pc[u] \in Within
  BY DEF Changing, Within
<1>3. CASE pc[t] \in {"key", "value"}
  <2>1. (CHOOSE u \in Thread : pc[u] \in {"key", "value"} /\ At(u) = i) = t
    BY <1>1, <1>2, <1>3 DEF Changing
  <2> QED BY <1>3, <2>1 DEF Settled
<1>4. CASE pc[t] = "demote"
  <2>1. ~\E u \in Thread : pc[u] \in {"key", "value"} /\ At(u) = i
    BY <1>1, <1>2, <1>4 DEF Changing
  <2>2. (CHOOSE u \in Thread : pc[u] \in {"demote"} /\ At(u) = i) = t
    BY <1>1, <1>2, <1>4 DEF Changing
  <2> QED BY <1>4, <2>1, <2>2 DEF Settled
<1>5. CASE pc[t] \notin Changing
  <2>1. ~\E u \in Thread : pc[u] \in Changing /\ At(u) = i BY <1>1, <1>2, <1>5
  <2> QED BY <1>5, <2>1 DEF Settled, Changing
<1> QED BY <1>3, <1>4, <1>5 DEF Changing

Seen ==
  EntryExclusion => \A i \in DOMAIN entries :
    /\ \A t \in Thread : pc[t] \in Within /\ At(t) = i =>
         Settled(i) = IF pc[t] \in {"key", "value"} THEN <<Node(Current(t)), entries[i].secondary>>
                      ELSE IF pc[t] = "demote" THEN <<tmp[t], entries[i].primary>>
                      ELSE <<entries[i].primary, entries[i].secondary>>
    /\ (\A t \in Thread : ~(pc[t] \in Changing /\ At(t) = i)) =>
         Settled(i) = <<entries[i].primary, entries[i].secondary>>

LEMMA SeenNow == Seen
BY SettledAt DEF Seen, Settled, Changing

LEMMA SeenNext == Seen'
BY SeenNow, PTL
LEMMA SeenSame ==
  ASSUME EntryExclusion, EntryExclusion', NEW i \in DOMAIN entries, i \in DOMAIN entries', SameSlots(i),
         \A u \in Thread : \/ pc[u] \notin Changing /\ pc'[u] \notin Changing
                           \/ At(u) # i /\ At(u)' # i
                           \/ /\ pc'[u] = pc[u] /\ At(u)' = At(u) /\ tmp'[u] = tmp[u]
                              /\ Node(Current(u))' = Node(Current(u))
  PROVE  Settled(i)' = Settled(i)
<1>1. \A u \in Thread : pc[u] \in Changing => pc[u] \in Within
  BY DEF Changing, Within
<1>2. CASE \E u \in Thread : pc[u] \in Changing /\ At(u) = i
  <2>1. PICK u \in Thread : pc[u] \in Changing /\ At(u) = i BY <1>2
  <2>2. /\ pc'[u] = pc[u] /\ At(u)' = i /\ tmp'[u] = tmp[u] /\ pc[u] \in Within
        /\ Node(Current(u))' = Node(Current(u))
    BY <1>1, <2>1
  <2>3. Settled(i) = IF pc[u] \in {"key", "value"} THEN <<Node(Current(u)), entries[i].secondary>>
                     ELSE IF pc[u] = "demote" THEN <<tmp[u], entries[i].primary>>
                     ELSE <<entries[i].primary, entries[i].secondary>>
    BY <2>1, <2>2, SeenNow DEF Seen
  <2>4. Settled(i)' = IF pc'[u] \in {"key", "value"} THEN <<Node(Current(u))', entries'[i].secondary>>
                      ELSE IF pc'[u] = "demote" THEN <<tmp'[u], entries'[i].primary>>
                      ELSE <<entries'[i].primary, entries'[i].secondary>>
    BY <2>2, SeenNext DEF Seen
  <2> QED BY <2>2, <2>3, <2>4 DEF SameSlots
<1>3. CASE \A u \in Thread : ~(pc[u] \in Changing /\ At(u) = i)
  <2>1. \A u \in Thread : ~(pc'[u] \in Changing /\ At(u)' = i) BY <1>3
  <2>2. Settled(i) = <<entries[i].primary, entries[i].secondary>> BY <1>3, SeenNow DEF Seen
  <2>3. Settled(i)' = <<entries'[i].primary, entries'[i].secondary>> BY <2>1, SeenNext DEF Seen
  <2> QED BY <2>2, <2>3 DEF SameSlots
<1> QED BY <1>2, <1>3

seen == [i \in DOMAIN entries |-> Settled(i)]
Put(i, pair) == [seen EXCEPT ![i] = pair]      \* what it is after a change at i

LEMMA UnseenStutters ==
  ASSUME IInv, IInv', NEW t \in Thread, Unseen(t)
  PROVE  seen' = seen
<1>1. DOMAIN entries' = DOMAIN entries BY DEF Unseen, Local
<1>2. ASSUME NEW u \in Thread
      PROVE  \/ pc[u] \notin Changing /\ pc'[u] \notin Changing
             \/ /\ pc'[u] = pc[u] /\ At(u)' = At(u) /\ tmp'[u] = tmp[u]
                /\ Node(Current(u))' = Node(Current(u))
  <2>1. CASE u = t BY <2>1 DEF Unseen
  <2>2. CASE u # t BY <2>2, OthersStay DEF Unseen, Local, Node, Result, global
  <2> QED BY <2>1, <2>2
<1>3. \A i \in DOMAIN entries : Settled(i)' = Settled(i)
  BY <1>1, <1>2, SeenSame DEF Unseen, IInv, Inv
<1> QED BY <1>1, <1>3 DEF seen

(* Outside of the entry at which it works, a step changes nothing.           *)
LEMMA SeenElsewhere ==
  ASSUME IInv, IInv', NEW t \in Thread, Local(t), At(t)' = At(t), NEW i \in DOMAIN entries, i # At(t)
  PROVE  Settled(i)' = Settled(i)
<1>1. DOMAIN entries' = DOMAIN entries /\ SameSlots(i) BY DEF Local, SameSlots
<1>2. ASSUME NEW u \in Thread
      PROVE  \/ At(u) # i /\ At(u)' # i
             \/ /\ pc'[u] = pc[u] /\ At(u)' = At(u) /\ tmp'[u] = tmp[u]
                /\ Node(Current(u))' = Node(Current(u))
  <2>1. CASE u = t BY <2>1
  <2>2. CASE u # t BY <2>2, OthersStay DEF Local, Node, Result, global
  <2> QED BY <2>1, <2>2
<1> QED BY <1>1, <1>2, SeenSame DEF IInv, Inv

(* And there the two nodes are seen before and after it where thread t is.   *)
LEMMA SeenThere ==
  ASSUME IInv, IInv', NEW t \in Thread, NEW l, NEW p, NEW s, Leaves(t, l, p, s), l \in Within
  PROVE  /\ seen[At(t)] = IF pc[t] \in {"key", "value"} THEN <<Node(Current(t)), Entry(t).secondary>>
                          ELSE IF pc[t] = "demote" THEN <<tmp[t], Entry(t).primary>>
                          ELSE <<Entry(t).primary, Entry(t).secondary>>
         /\ l \in {"key", "value"} => seen' = Put(At(t), <<Node(Current(t)), s>>)
         /\ l = "demote" => seen' = Put(At(t), <<tmp'[t], p>>)
         /\ l \notin Changing => seen' = Put(At(t), <<p, s>>)
<1>1. PICK i \in DOMAIN entries : i = At(t) BY DEF Leaves
<1>2. At(t)' = i /\ DOMAIN entries' = DOMAIN entries /\ pc'[t] = l /\ pc[t] \in Within BY <1>1 DEF Leaves, Local
<1>3. Settled(i) = IF pc[t] \in {"key", "value"} THEN <<Node(Current(t)), entries[i].secondary>>
                   ELSE IF pc[t] = "demote" THEN <<tmp[t], entries[i].primary>>
                   ELSE <<entries[i].primary, entries[i].secondary>>
  BY <1>1, <1>2, SeenNow DEF Seen, IInv, Inv
<1>4. Node(Current(t))' = Node(Current(t)) BY DEF Leaves, Local, Node, Result, global
<1>5. Settled(i)' = IF l \in {"key", "value"} THEN <<Node(Current(t))', s>>
                    ELSE IF l = "demote" THEN <<tmp'[t], p>> ELSE <<p, s>>
  <2>1. entries'[i].primary = p /\ entries'[i].secondary = s BY <1>1 DEF Leaves
  <2>2. Settled(i)' = IF pc'[t] \in {"key", "value"} THEN <<Node(Current(t))', entries'[i].secondary>>
                      ELSE IF pc'[t] = "demote" THEN <<tmp'[t], entries'[i].primary>>
                      ELSE <<entries'[i].primary, entries'[i].secondary>>
    BY <1>2, SeenNext DEF Seen, IInv, Inv
  <2> QED BY <1>2, <2>1, <2>2
<1>6. seen' = Put(At(t), Settled(i)')
  <2>1. \A j \in DOMAIN entries : j # i => Settled(j)' = Settled(j)
    BY <1>1, SeenElsewhere DEF Leaves
  <2> QED BY <1>1, <1>2, <2>1 DEF seen, Put
<1>7. seen[At(t)] = Settled(i) /\ Entry(t) = entries[i] BY <1>1 DEF seen, Entry
<1>8. CASE l \in {"key", "value"}
  <2>1. Settled(i)' = <<Node(Current(t)), s>> BY <1>4, <1>5, <1>8
  <2> QED BY <1>3, <1>6, <1>7, <1>8, <2>1 DEF Changing
<1>9. CASE l = "demote"
  <2>1. Settled(i)' = <<tmp'[t], p>> BY <1>5, <1>9
  <2> QED BY <1>3, <1>6, <1>7, <1>9, <2>1 DEF Changing
<1>10. CASE l \notin Changing
  <2>1. Settled(i)' = <<p, s>> BY <1>5, <1>10 DEF Changing
  <2> QED BY <1>3, <1>6, <1>7, <1>10, <2>1 DEF Changing
<1> QED BY <1>8, <1>9, <1>10 DEF Changing

LEMMA StepRefines ==
  ASSUME IInv, IInv', [Next]_vars
  PROVE  [Atomic!Next]_seen
<1>1. CASE UNCHANGED vars
  <2>1. UNCHANGED <<entries, size, met, pc, stack, tmp>> BY <1>1 DEF vars, global, table
  <2>2. \A u \in Thread : At(u)' = At(u) /\ Node(Current(u))' = Node(Current(u))
    BY <2>1, InPlaceStay DEF Node, Result
  <2>3. \A i \in DOMAIN entries : Settled(i)' = Settled(i)
    BY <2>1, <2>2, SeenSame DEF IInv, Inv, SameSlots
  <2> QED BY <2>1, <2>3 DEF seen
<1>2. CASE Main
  <2>1. \A u \in Thread : pc[u] = "idle" /\ pc'[u] = "idle"
    BY <1>2 DEF Main, CommandClearCache, SetMET, CalibrateEnd, CommandSetCache, Calibrate, MT_SetNumThreads,
                Command, Quiet, Threads
  <2>2. \A i \in DOMAIN entries' : Settled(i)' = <<entries'[i].primary, entries'[i].secondary>>
    BY <2>1, SeenNext DEF Seen, Changing, IInv, Inv
  <2>3. CASE \A i \in DOMAIN entries' : entries'[i] = NoEntry
    <3>1. Atomic!Clear BY <2>2, <2>3 DEF Atomic!Clear, Atomic!Blank, Atomic!Pair, NoEntry
    <3> QED BY <3>1 DEF Atomic!Next
  <2>4. CASE UNCHANGED entries
    <3>1. \A i \in DOMAIN entries : Settled(i) = <<entries[i].primary, entries[i].secondary>>
      BY <2>1, SeenNow DEF Seen, Changing, IInv, Inv
    <3> QED BY <2>2, <2>4, <3>1 DEF seen
  <2>5. UNCHANGED entries \/ \A i \in DOMAIN entries' : entries'[i] = NoEntry
    BY <1>2, FlushedEntries DEF Main, CommandClearCache, SetMET, CalibrateEnd, CommandSetCache, Calibrate,
       MT_SetNumThreads, Flush, Resize, table
  <2> QED BY <2>3, <2>4, <2>5
<1>3. ASSUME NEW t \in Thread, EvaluatePosition(t) \/ EvaluateNext(t) \/ Interrupted(t) \/ Evaluated(t)
      PROVE  [Atomic!Next]_seen
  <2>1. Unseen(t)
    BY <1>3, StepEvaluatePosition, StepEvaluateNext, StepInterrupted, StepEvaluated
  <2> QED BY <2>1, UnseenStutters
<1>4. ASSUME NEW t \in Thread, ThreadStep(t) PROVE [Atomic!Next]_seen
  <2> DEFINE i == At(t)
  <2>1. CASE Stray(t)
    <3>1. UNCHANGED table /\ DOMAIN entries = {}
      <4>1. pc'[t] = "crashed" BY <2>1 DEF Stray
      <4>2. DOMAIN entries' = {} BY <4>1 DEF IInv, Inv, PlaceInv, Placed
      <4> QED BY <2>1, <4>2 DEF Stray, table
    <3> QED BY <3>1 DEF seen, table
  <2>2. CASE Lock(t) \/ LockInc(t) \/ LockDec(t) \/ Compare(t) \/ CopyOut(t) \/ Unlock(t) \/ Evaluated(t)
    <3>1. Unseen(t)
      BY <2>2, Locked, CountedUp, CountedBack, StepCompare, StepCopyOut, StepUnlock, StepEvaluated
    <3> QED BY <3>1, UnseenStutters
  <2>3. CASE Promote(t)
    <3>1. Leaves(t, "demote", Entry(t).secondary, Entry(t).secondary) /\ tmp'[t] = Entry(t).primary
      BY <2>3, StepPromote
    <3>2. /\ seen[i] = <<Entry(t).primary, Entry(t).secondary>>
          /\ seen' = Put(i, <<Entry(t).primary, Entry(t).secondary>>)
      <4>1. pc[t] = "promote" /\ "demote" \in Within BY <2>3 DEF Promote, Within
      <4> QED BY <3>1, <4>1, SeenThere
    <3>3. seen' = Put(i, seen[i]) BY <3>2
    <3> QED BY <3>3 DEF seen, Put
  <2>4. CASE Demote(t)
    <3>1. Leaves(t, "copy", Entry(t).primary, tmp[t]) BY <2>4, StepDemote
    <3>2. /\ seen[i] = <<tmp[t], Entry(t).primary>> /\ i \in DOMAIN seen
          /\ seen' = Put(i, <<Entry(t).primary, tmp[t]>>)
      <4>1. pc[t] = "demote" /\ "copy" \in Within /\ "copy" \notin Changing
        BY <2>4 DEF Demote, Within, Changing
      <4>2. seen[i] = <<tmp[t], Entry(t).primary>> BY <3>1, <4>1, SeenThere
      <4>3. seen' = Put(i, <<Entry(t).primary, tmp[t]>>) BY <3>1, <4>1, SeenThere, ZenonT(40)
      <4> QED BY <3>1, <4>2, <4>3 DEF Leaves, seen
    <3>3. Entry(t).primary # NoNode
      <4>1. Entry(t).primary.key = Current(t) BY <2>4 DEF Demote, IInv, Inv, FoundInv, Found
      <4>2. Current(t) \in Key BY <2>4, WithinFacts DEF Demote, Within
      <4> QED BY <4>1, <4>2, KeyAssumption DEF NoNode
    <3>4. seen' = Put(i, <<seen[i][2], seen[i][1]>>) /\ seen[i][2] # NoNode
      BY <3>2, <3>3
    <3>5. Atomic!Use(i) BY <3>4 DEF Atomic!Use, seen, Put
    <3> QED BY <3>2, <3>5 DEF Atomic!Next, seen
  <2>5. CASE Shift(t)
    <3>1. Leaves(t, "key", Entry(t).primary, Entry(t).primary) BY <2>5, StepShift
    <3>2. /\ seen[i] = <<Entry(t).primary, Entry(t).secondary>> /\ i \in DOMAIN seen
          /\ seen' = Put(i, <<Node(Current(t)), Entry(t).primary>>)
      <4>1. pc[t] = "shift" /\ "key" \in Within BY <2>5 DEF Shift, Within
      <4>2. seen[i] = <<Entry(t).primary, Entry(t).secondary>> BY <3>1, <4>1, SeenThere
      <4>3. seen' = Put(i, <<Node(Current(t)), Entry(t).primary>>) BY <3>1, <4>1, SeenThere
      <4> QED BY <3>1, <4>2, <4>3 DEF Leaves, seen
    <3>3. Node(Current(t)) \in Slot BY <2>5, WithinFacts DEF Shift, Within
    <3>4. seen' = Put(i, <<Node(Current(t)), seen[i][1]>>) BY <3>2
    <3>5. Atomic!Add(i) BY <3>3, <3>4 DEF Atomic!Add, seen, Put
    <3> QED BY <3>2, <3>5 DEF Atomic!Next, seen
  <2>6. CASE AddKey(t)
    <3>1. PICK p : Leaves(t, "value", p, Entry(t).secondary) BY <2>6, StepAddKey
    <3>2. /\ seen[i] = <<Node(Current(t)), Entry(t).secondary>>
          /\ seen' = Put(i, <<Node(Current(t)), Entry(t).secondary>>)
      BY <2>6, <3>1, SeenThere DEF AddKey, Within
    <3>3. seen' = Put(i, seen[i]) BY <3>2
    <3> QED BY <3>3 DEF seen, Put
  <2>7. CASE AddValue(t)
    <3>1. Leaves(t, "unlock", Node(Current(t)), Entry(t).secondary) BY <2>7, StepAddValue
    <3>2. /\ seen[i] = <<Node(Current(t)), Entry(t).secondary>>
          /\ seen' = Put(i, <<Node(Current(t)), Entry(t).secondary>>)
      <4>1. pc[t] = "value" /\ "unlock" \in Within /\ "unlock" \notin Changing
        BY <2>7 DEF AddValue, Within, Changing
      <4>2. seen[i] = <<Node(Current(t)), Entry(t).secondary>> BY <3>1, <4>1, SeenThere
      <4>3. ASSUME NEW p, NEW s, Leaves(t, "unlock", p, s)
            PROVE  seen' = Put(i, <<p, s>>)
        BY <4>1, <4>3, SeenThere
      <4> QED BY <3>1, <4>2, <4>3
    <3>3. seen' = Put(i, seen[i]) BY <3>2
    <3> QED BY <3>3 DEF seen, Put
  <2> QED BY <1>4, <2>1, <2>2, <2>3, <2>4, <2>5, <2>6, <2>7 DEF ThreadStep
<1> QED BY <1>1, <1>2, <1>3, <1>4 DEF Next

LEMMA InitRefines == Init => Atomic!Init
<1> SUFFICES ASSUME Init PROVE Atomic!Init
  OBVIOUS
<1>1. \A i \in DOMAIN entries : entries[i] = NoEntry BY DEF Init, Flushed
<1>2. \A i : Settled(i) = <<entries[i].primary, entries[i].secondary>>
  BY DEF Init, Settled
<1> QED BY <1>1, <1>2 DEF Atomic!Init, Atomic!Blank, Atomic!Pair, NoEntry

(* To its users the cache is one that holds in each entry the two results    *)
(* used last, used and added to in single steps (CacheLookup, CacheAdd).     *)
THEOREM Refines == Spec => Implements
<1>1. IInv /\ IInv' /\ [Next]_vars => [Atomic!Next]_seen BY StepRefines
<1> QED BY <1>1, InitRefines, Inductive, PTL DEF Spec, Implements, Atomic!Spec, seen
=============================================================================
