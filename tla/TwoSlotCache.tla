---------------------------- MODULE TwoSlotCache ----------------------------
(* What each entry of the evaluation cache promises to the threads that use  *)
(* it (lib/cache.h): it holds the two results used last, the "hot" one       *)
(* first, and using one or adding one is a single step for everybody else.   *)
CONSTANTS Slot, NoNode

VARIABLES slots     \* the two nodes of each entry

Pair == <<NoNode, NoNode>>
Blank(s) == \A i \in DOMAIN s : s[i] = Pair

Init == Blank(slots)

(* A hit in the second slot promotes it; one in the first changes nothing.   *)
Use(i) == /\ slots[i][2] # NoNode
          /\ slots' = [slots EXCEPT ![i] = <<@[2], @[1]>>]

(* A new result takes the first slot and the result in the second is lost.   *)
Add(i) == \E node \in Slot : slots' = [slots EXCEPT ![i] = <<node, @[1]>>]

(* The cache is flushed or gets another size.                                *)
Clear == Blank(slots')

Next == Clear \/ \E i \in DOMAIN slots : Use(i) \/ Add(i)

Spec == Init /\ [][Next]_slots
=============================================================================
