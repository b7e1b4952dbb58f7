--------------------------- MODULE MCConcurrentQueue ---------------------------
(* Instances of ConcurrentQueue for TLC.                                   *)
EXTENDS ConcurrentQueue, TLC

CONSTANTS t1, t2, t3, p1, p2, p3, p4, k1, k2, k3

MCHash == (t1 :> 1) @@ (t2 :> 1) @@ (t3 :> 2)
Nobody == [k \in Token |-> Nil]
Setup(listed, producers, enqueue, dequeue, rotate, owner, maxCapacity, room, bulk) ==
  [listed |-> listed, producers |-> producers, enqueue |-> enqueue, dequeue |-> dequeue,
   rotate |-> rotate, owner |-> owner @@ Nobody, maxCapacity |-> maxCapacity, room |-> room,
   bulk |-> bulk]

MCSetups == {
  (* Threads enter one table: two, with memory for larger ones twice; and  *)
  (* three, with memory for one; and without memory for a producer.         *)
  Setup(<<>>, {p1, p2}, {t1, t2}, {}, {}, <<>>, 8, 0, {1}),
  Setup(<<>>, {p1, p2, p3}, {t1, t2, t3}, {}, {}, <<>>, 4, 0, {1}),
  Setup(<<>>, {p1}, {t1, t2}, {}, {}, <<>>, 8, 0, {1}),
  (* Tokens that come and go, and one implicit producer.                   *)
  Setup(<<>>, {p1, p2}, {t3}, {}, {}, (k1 :> t1) @@ (k2 :> t1) @@ (k3 :> t2), 8, 0, {1}),
  (* Consumers without tokens: more sub-queues than are compared; one more *)
  (* consumer than the largest sub-queue has elements.                     *)
  Setup(<<p1, p2, p3, p4>>, {}, {}, {t1, t2}, {}, <<>>, 8, 1, {1, 2}),
  Setup(<<p1, p2>>, {}, {}, {t1, t2, t3}, {}, <<>>, 8, 2, {1, 2}),
  (* Two consumers, one or both with a token.                              *)
  Setup(<<p1, p2, p3>>, {}, {}, {t2}, {t1}, <<>>, 8, 2, {1, 2}),
  Setup(<<p1, p2, p3>>, {}, {}, {}, {t1, t2}, <<>>, 8, 1, {1, 2}),
  (* Two consumers while producers are added to an empty list.              *)
  Setup(<<>>, {p1, p2}, {t3}, {t2}, {t1}, <<>>, 8, 2, {1, 2}),
  (* One consumer with a token and two producers that never stop.          *)
  Setup(<<p1, p2>>, {}, {}, {}, {t1}, (k1 :> t3) @@ (k2 :> t3), 8, 1, {1, 2}) }
=============================================================================
