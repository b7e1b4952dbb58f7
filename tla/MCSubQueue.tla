---- MODULE MCSubQueue ----
EXTENDS SubQueue

CONSTANTS c1, c2, b1, b2, b3

Setup(explicit, start, consumers, enqueue, blocks, indexSize, number) ==
  [isExplicit |-> explicit, start |-> start, consumers |-> consumers,
   enqueue |-> enqueue, dequeue |-> {2}, blocks |-> blocks, indexSize |-> indexSize,
   elements |-> number]

(* Two consumers; and longer runs with one, until memory or the index is   *)
(* used up, or the tail comes too close to the head.                       *)
MCSetups == {
  Setup(FALSE, 12, {c1, c2}, {1, 3}, {b1, b2}, 4, 4),
  Setup(FALSE, 12, {c1}, {1, 3}, {b1, b2}, 4, 5),
  Setup(FALSE, 12, {c1}, {1, 3}, {b1, b2, b3}, 2, 5),
  Setup(FALSE, 0, {c1}, {1, 3}, {b1, b2, b3}, 4, 7),
  Setup(TRUE, 12, {c1, c2}, {1, 3}, {b1, b2}, 4, 4),
  Setup(TRUE, 12, {c1}, {1, 2}, {b1, b2}, 4, 7),
  Setup(TRUE, 0, {c1}, {1, 2}, {b1, b2, b3}, 2, 7),
  Setup(TRUE, 12, {c1}, {1, 2}, {b1, b2, b3}, 4, 7) }

(* An allocation of an explicit sub-queue fails in the middle of a call.   *)
MCFailing == { Setup(TRUE, 0, {c1}, {1, 3}, {b1, b2}, 4, 5) }
====
