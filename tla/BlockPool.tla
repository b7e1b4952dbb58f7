------------------------------ MODULE BlockPool ------------------------------
(* What the sub-queues of a ConcurrentQueue expect of its pool of blocks: a *)
(* block that is handed to one of them has no other holder.                 *)
EXTENDS Naturals

CONSTANT Block
VARIABLE holders       \* how many of them hold each block

Init == holders = [b \in Block |-> 0]

Hand(b) == holders[b] = 0 /\ holders' = [holders EXCEPT ![b] = 1]
GiveBack(b) == holders[b] = 1 /\ holders' = [holders EXCEPT ![b] = 0]

Next == \E b \in Block : Hand(b) \/ GiveBack(b)

Spec == Init /\ [][Next]_holders
=============================================================================
