---------------------------- MODULE ElementQueue ----------------------------
(* What a sub-queue promises to its one producer and to its consumers: the *)
(* elements come out in the order they went in, each is handed to exactly  *)
(* one consumer, and a bulk operation works on elements in a row.  An      *)
(* element is the index it was enqueued at.                                *)
EXTENDS Integers, Sequences

CONSTANTS Consumer, Modulus

VARIABLES
  first, last,     \* the elements first to last - 1 are in the queue
  hand             \* the elements that a call of each consumer has taken

Row(i, n) == [j \in 1 .. n |-> (i + j - 1) % Modulus]

Init ==
  /\ first \in 0 .. Modulus - 1 /\ last = first
  /\ hand = [c \in Consumer |-> <<>>]

Put ==
  /\ \E n \in 1 .. Modulus : last' = (last + n) % Modulus
  /\ UNCHANGED <<first, hand>>

Take(c) ==
  /\ hand[c] = <<>>
  /\ \E n \in 1 .. (last - first) % Modulus :
       /\ hand' = [hand EXCEPT ![c] = Row(first, n)]
       /\ first' = (first + n) % Modulus
  /\ UNCHANGED last

Return(c) ==
  /\ hand[c] # <<>>
  /\ hand' = [hand EXCEPT ![c] = <<>>]
  /\ UNCHANGED <<first, last>>

Next == Put \/ \E c \in Consumer : Take(c) \/ Return(c)

Spec == Init /\ [][Next]_<<first, last, hand>>
=============================================================================
