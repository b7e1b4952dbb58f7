--------------------------- MODULE ConsumerTokens ---------------------------
(***************************************************************************)
(* How a consumer chooses among the sub-queues of a ConcurrentQueue: by    *)
(* their sizes, in the order of the list, or with a ConsumerToken, from    *)
(* the one that the token is at, while every consumer moves on by one      *)
(* sub-queue whenever one of them has taken its quota.  What a sub-queue   *)
(* does is one step here; its own steps are in SubQueue.                   *)
(***************************************************************************)
EXTENDS ImplicitProducerHash

CONSTANTS
  Words,           \* how many values a uint32_t has
  EXPLICIT_CONSUMER_CONSUMPTION_QUOTA_BEFORE_ROTATE

ASSUME ConsumerAssumption ==
  /\ Words \in Nat \ {0}
  /\ EXPLICIT_CONSUMER_CONSUMPTION_QUOTA_BEFORE_ROTATE \in 1 .. Words - 1

VARIABLES
  size,                            \* of each sub-queue
  missed,                          \* of each call: the sub-queues with elements since it began
  consumer,                        \* of each thread: its ConsumerToken
  globalExplicitConsumerOffset, nextExplicitConsumerId

content == <<size, missed>>
rotation == <<consumer, globalExplicitConsumerOffset, nextExplicitConsumerId>>
fixed == <<setup, list, states, hashes>>

InitConsumers ==
  /\ \E f \in [Producer -> 0 .. setup.room] :
       size = [p \in Producer |-> IF p \in Listed THEN f[p] ELSE 0]
  /\ missed = [t \in Thread |-> {}]
  /\ consumer = [t \in Thread |-> Nil]
  /\ globalExplicitConsumerOffset = 0 /\ nextExplicitConsumerId = 0

False == [pc |-> "false"]
Begin(t, frame) ==
  /\ Go(t, frame)
  /\ missed' = [missed EXCEPT ![t] = {p \in Listed : size[p] > 0}]
  /\ UNCHANGED <<fixed, size>>

(* A call takes n elements of p and goes on, or returns, with the frame.   *)
Available(p, max) == IF size[p] < max THEN size[p] ELSE max
Take(t, p, n, frame) ==
  /\ Go(t, frame)
  /\ size' = [size EXCEPT ![p] = @ - n]
  /\ missed' = [x \in Thread |->
       IF x = t /\ frame = NoCall THEN {}
       ELSE IF size[p] = n THEN missed[x] \ {p} ELSE missed[x]]

-----------------------------------------------------------------------------
(* try_dequeue without a token: up to three sub-queues that are not empty  *)
(* are compared; if the largest turns out to be empty all others are       *)
(* tried.                                                                  *)
Scored(f) ==
  IF f.ptr # Nil /\ f.nonEmptyCount < 3 THEN f
  ELSE IF f.nonEmptyCount = 0 THEN False ELSE [pc |-> "best", best |-> f.best]

TryDequeue(t) ==
  /\ t \in setup.dequeue /\ At(t, "idle")
  /\ Begin(t, Scored([pc |-> "score", ptr |-> producerListTail, nonEmptyCount |-> 0,
                      best |-> Nil, bestSize |-> 0]))
  /\ UNCHANGED rotation

Score(t) ==
  /\ At(t, "score")
  /\ LET f == call[t]
         better == size[f.ptr] > f.bestSize
     IN Go(t, Scored([f EXCEPT !.ptr = next[f.ptr],
                               !.nonEmptyCount = IF size[f.ptr] > 0 THEN @ + 1 ELSE @,
                               !.best = IF better THEN f.ptr ELSE @,
                               !.bestSize = IF better THEN size[f.ptr] ELSE @]))
  /\ UNCHANGED <<fixed, content, rotation>>

DequeueBest(t) ==
  /\ At(t, "best")
  /\ LET n == Available(call[t].best, 1)
     IN Take(t, call[t].best, n, IF n = 1 THEN NoCall ELSE [pc |-> "reload", best |-> call[t].best])
  /\ UNCHANGED <<fixed, rotation>>

(* From one sub-queue to the next, until there are max elements.           *)
Along(f) ==
  IF f.count = f.max \/ (f.ptr = Nil /\ f.count > 0) THEN NoCall
  ELSE IF f.ptr = Nil THEN False ELSE f

FromTail(skip, max) ==
  Along([pc |-> "rest", ptr |-> producerListTail, skip |-> skip, max |-> max, count |-> 0])

Reload_Mutant(t) ==
  /\ At(t, "reload")
  /\ Go(t, Along([pc |-> "rest", ptr |-> next[call[t].best], skip |-> Nil, max |-> 1,
                  count |-> 0]))
  /\ UNCHANGED <<fixed, content, rotation>>
Reload(t) ==
  /\ At(t, "reload")
  /\ Go(t, FromTail(call[t].best, 1))
  /\ UNCHANGED <<fixed, content, rotation>>

(* try_dequeue_non_interleaved, and try_dequeue_bulk without a token.      *)
TryDequeueAlong(t, max) ==
  /\ t \in setup.dequeue /\ At(t, "idle")
  /\ Begin(t, FromTail(Nil, max))
  /\ UNCHANGED rotation

DequeueRest(t) ==
  /\ At(t, "rest")
  /\ LET f == call[t]
         n == IF f.ptr = f.skip THEN 0 ELSE Available(f.ptr, f.max - f.count)
     IN Take(t, f.ptr, n, Along([f EXCEPT !.count = @ + n, !.ptr = next[f.ptr]]))
  /\ UNCHANGED <<fixed, rotation>>

-----------------------------------------------------------------------------
(* ConsumerToken::ConsumerToken.                                           *)
CreateConsumer(t) ==
  /\ t \in setup.rotate /\ At(t, "idle") /\ consumer[t] = Nil
  /\ consumer' = [consumer EXCEPT ![t] =
       [initialOffset |-> nextExplicitConsumerId, lastKnownGlobalOffset |-> Words - 1,
        itemsConsumedFromCurrent |-> 0, currentProducer |-> Nil, desiredProducer |-> Nil]]
  /\ nextExplicitConsumerId' = (nextExplicitConsumerId + 1) % Words
  /\ UNCHANGED <<fixed, content, call, globalExplicitConsumerOffset>>

(* try_dequeue and try_dequeue_bulk with a token.                          *)
TryDequeueToken(t, max, bulk) ==
  /\ At(t, "idle") /\ consumer[t] # Nil
  /\ Begin(t, [pc |-> "check", max |-> max, bulk |-> bulk])
  /\ UNCHANGED rotation

CheckOffset(t) ==
  /\ At(t, "check")
  /\ Go(t, [call[t] EXCEPT !.pc =
         IF \/ consumer[t].desiredProducer = Nil
            \/ consumer[t].lastKnownGlobalOffset # globalExplicitConsumerOffset
         THEN "tail" ELSE "current"])
  /\ UNCHANGED <<fixed, content, rotation>>

(* update_current_producer_after_rotation: the tail is read before the     *)
(* number of producers, which is then never too small.                     *)
Going(t, l, tail, count) ==
  [pc |-> l, max |-> call[t].max, bulk |-> call[t].bulk, tail |-> tail, count |-> count]
LoadList_Mutant(t) ==
  /\ \/ /\ At(t, "tail")
        /\ Go(t, Going(t, "count", Nil, producerCount))
     \/ /\ At(t, "count")
        /\ Go(t, IF consumer[t].desiredProducer = Nil /\ producerListTail = Nil THEN False
                 ELSE Going(t, "offset", producerListTail, call[t].count))
  /\ UNCHANGED <<fixed, content, rotation>>
LoadList(t) ==
  /\ \/ /\ At(t, "tail")
        /\ Go(t, IF consumer[t].desiredProducer = Nil /\ producerListTail = Nil THEN False
                 ELSE Going(t, "count", producerListTail, 0))
     \/ /\ At(t, "count")
        /\ Go(t, Going(t, "offset", call[t].tail, producerCount))
  /\ UNCHANGED <<fixed, content, rotation>>

After(p, tail) == IF next[p] = Nil THEN tail ELSE next[p]
Advance(p, tail, n) ==
  LET walk[i \in 0 .. n] == IF i = 0 THEN p ELSE After(walk[i - 1], tail)
  IN walk[n]

Update(t) ==
  /\ At(t, "offset")
  /\ LET c == consumer[t]
         tail == call[t].tail
         count == call[t].count
         first == Advance(tail, tail, count - 1 - (c.initialOffset % count))
         delta == ((globalExplicitConsumerOffset - c.lastKnownGlobalOffset) % Words) % count
         desired == Advance(IF c.desiredProducer = Nil THEN first ELSE c.desiredProducer,
                            tail, delta)
     IN consumer' = [consumer EXCEPT ![t] =
          [initialOffset |-> c.initialOffset,
           lastKnownGlobalOffset |-> globalExplicitConsumerOffset,
           itemsConsumedFromCurrent |-> 0,
           currentProducer |-> desired, desiredProducer |-> desired]]
  /\ Go(t, [pc |-> "current", max |-> call[t].max, bulk |-> call[t].bulk])
  /\ UNCHANGED <<fixed, content, globalExplicitConsumerOffset, nextExplicitConsumerId>>

(* The sub-queue that the token is at.  A single dequeue compares the      *)
(* number of elements that were taken with the quota for equality.         *)
DequeueCurrent(t) ==
  /\ At(t, "current")
  /\ LET f == call[t]
         p == consumer[t].currentProducer
         n == Available(p, f.max)
         items == (consumer[t].itemsConsumedFromCurrent + n) % Words
         quota == EXPLICIT_CONSUMER_CONSUMPTION_QUOTA_BEFORE_ROTATE
     IN /\ consumer' = [consumer EXCEPT ![t].itemsConsumedFromCurrent = items]
        /\ Take(t, p, n,
             IF n < f.max THEN [pc |-> "reset", max |-> f.max - n, count |-> n]
             ELSE IF (f.bulk /\ items >= quota) \/ items = quota THEN [pc |-> "rotate"]
             ELSE NoCall)
  /\ UNCHANGED <<fixed, globalExplicitConsumerOffset, nextExplicitConsumerId>>

Rotate_Mutant(t) ==
  /\ At(t, "rotate")
  /\ Go(t, NoCall)
  /\ missed' = [missed EXCEPT ![t] = {}]
  /\ UNCHANGED <<fixed, size, rotation>>
Rotate(t) ==
  /\ At(t, "rotate")
  /\ globalExplicitConsumerOffset' = (globalExplicitConsumerOffset + 1) % Words
  /\ Go(t, NoCall)
  /\ missed' = [missed EXCEPT ![t] = {}]
  /\ UNCHANGED <<fixed, size, consumer, nextExplicitConsumerId>>

(* Without enough there, all others, round the list, until the call is     *)
(* back at the one that the token is at: since it moves with the call when *)
(* elements are taken, after one more turn.                                *)
Around(f, current) ==
  IF f.ptr # current THEN f ELSE IF f.count > 0 THEN NoCall ELSE False

ResetTail(t) ==
  /\ At(t, "reset")
  /\ LET p == consumer[t].currentProducer
         frame == Around([pc |-> "turn", max |-> call[t].max, count |-> call[t].count,
                          tail |-> producerListTail, ptr |-> After(p, producerListTail)], p)
     IN /\ Go(t, frame)
        /\ missed' = IF frame = NoCall THEN [missed EXCEPT ![t] = {}] ELSE missed
  /\ UNCHANGED <<fixed, size, rotation>>

DequeueTurn(t) ==
  /\ At(t, "turn")
  /\ LET f == call[t]
         n == Available(f.ptr, f.max)
         c == IF n = 0 THEN consumer[t]
              ELSE [consumer[t] EXCEPT !.currentProducer = f.ptr,
                                       !.itemsConsumedFromCurrent = n]
     IN /\ consumer' = [consumer EXCEPT ![t] = c]
        /\ Take(t, f.ptr, n,
             IF n = f.max THEN NoCall
             ELSE Around([f EXCEPT !.max = @ - n, !.count = @ + n,
                                   !.ptr = After(f.ptr, f.tail)], c.currentProducer))
  /\ UNCHANGED <<fixed, globalExplicitConsumerOffset, nextExplicitConsumerId>>

-----------------------------------------------------------------------------
ReturnFalse(t) ==
  /\ At(t, "false")
  /\ Go(t, NoCall)
  /\ missed' = [missed EXCEPT ![t] = {}]
  /\ UNCHANGED <<fixed, size, rotation>>

DequeueStep(t) ==
  \/ Score(t) \/ DequeueBest(t) \/ Reload(t) \/ DequeueRest(t)
  \/ CheckOffset(t) \/ LoadList(t) \/ Update(t) \/ DequeueCurrent(t) \/ Rotate(t)
  \/ ResetTail(t) \/ DequeueTurn(t) \/ ReturnFalse(t)
=============================================================================
