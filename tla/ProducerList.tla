---------------------------- MODULE ProducerList ----------------------------
(***************************************************************************)
(* The sub-queues of one moodycamel::ConcurrentQueue: a lock-free list to  *)
(* which producers are only ever added, at its tail, and on which the      *)
(* producers whose token is gone are found again by the next token.  One   *)
(* step is one access to a shared atomic.                                  *)
(***************************************************************************)
EXTENDS Integers, Sequences, FiniteSets

CONSTANTS
  Thread,
  Token,           \* the ProducerTokens
  Producer,
  Nil,
  Setups           \* how a queue is used, and the bounds

(* A setup: listed, the producers that are on the list at the start, of    *)
(* tokens that are gone; producers, those that there is memory for         *)
(* besides; maxCapacity, the largest hash table that can be allocated;     *)
(* room, the largest number of elements in a sub-queue; enqueue, dequeue   *)
(* and rotate, the threads that enqueue without a token, dequeue without   *)
(* one and dequeue with one; owner, the thread that each token belongs to; *)
(* bulk, the numbers of elements that calls enqueue and dequeue.           *)
ASSUME ProducerListAssumption ==
  /\ IsFiniteSet(Thread) /\ IsFiniteSet(Producer)
  /\ Nil \notin Thread \cup Token \cup Producer
  /\ \A s \in Setups :
       /\ s.listed \in Seq(Producer) /\ s.producers \subseteq Producer
       /\ \A i, j \in DOMAIN s.listed : s.listed[i] = s.listed[j] => i = j
       /\ \A i \in DOMAIN s.listed : s.listed[i] \notin s.producers
       /\ s.enqueue \cup s.dequeue \cup s.rotate \subseteq Thread
       /\ s.owner \in [Token -> Thread \cup {Nil}]
       /\ s.maxCapacity \in Nat /\ s.room \in Nat /\ s.bulk \subseteq Nat \ {0}

VARIABLES
  setup,
  producerListTail, producerCount,
  next,            \* of each producer: the one that was added before it
  isExplicit, inactive,
  token,           \* of each producer: the token that owns it
  unborn,          \* the producers that were not created yet
  call             \* what each thread is doing

list == <<producerListTail, producerCount, next>>
states == <<isExplicit, inactive, token, unborn>>

ProducerOrNil == Producer \cup {Nil}
NoCall == [pc |-> "idle"]
At(t, l) == call[t].pc = l
Go(t, frame) == call' = [call EXCEPT ![t] = frame]

InitList(s) ==
  LET old == s.listed
      At0(i) == IF i = 0 THEN Nil ELSE old[i]
      listed == {old[i] : i \in DOMAIN old}
  IN /\ setup = s
     /\ producerListTail = At0(Len(old)) /\ producerCount = Len(old)
     /\ next = [p \in Producer |->
          IF p \in listed THEN At0((CHOOSE i \in DOMAIN old : old[i] = p) - 1) ELSE Nil]
     /\ isExplicit = [p \in Producer |-> p \in listed]
     /\ inactive = [p \in Producer |-> p \in listed]
     /\ token = [p \in Producer |-> Nil]
     /\ unborn = s.producers
     /\ call = [t \in Thread |-> NoCall]

(* The producers from p on: the fewest that p and next lead to.            *)
Closed(S) == \A x \in S : next[x] \in S \cup {Nil}
From(p) ==
  {x \in Producer : \A S \in SUBSET Producer : p \in S \cup {Nil} /\ Closed(S) => x \in S}
Listed == From(producerListTail)

-----------------------------------------------------------------------------
(* recycle_or_create_producer, and add_producer, on behalf of a caller     *)
(* that goes on, as back says, with the producer or with none.             *)
RecycleOrCreate(t, explicit, back) ==
  Go(t, [pc |-> "scan", ptr |-> producerListTail, explicit |-> explicit, back |-> back])

Return(t, p, recycled) ==
  Go(t, [producer |-> p, recycled |-> recycled, back |-> call[t].back,
         pc |-> call[t].back.pc])

Scan(t) ==
  /\ At(t, "scan")
  /\ LET p == call[t].ptr
     IN Go(t, IF p = Nil THEN [call[t] EXCEPT !.pc = "create"]
              ELSE IF inactive[p] /\ isExplicit[p] = call[t].explicit
                   THEN [call[t] EXCEPT !.pc = "grab"]
                   ELSE [call[t] EXCEPT !.ptr = next[p]])
  /\ UNCHANGED <<list, states>>

(* The compare-and-swap that makes an inactive producer this caller's.     *)
Grab_Mutant(t) ==
  /\ At(t, "grab")
  /\ inactive' = [inactive EXCEPT ![call[t].ptr] = FALSE]
  /\ Return(t, call[t].ptr, TRUE)
  /\ UNCHANGED <<list, isExplicit, token, unborn>>
Grab(t) ==
  /\ At(t, "grab")
  /\ IF inactive[call[t].ptr]
     THEN /\ inactive' = [inactive EXCEPT ![call[t].ptr] = FALSE]
          /\ Return(t, call[t].ptr, TRUE)
     ELSE /\ Go(t, [call[t] EXCEPT !.pc = "scan", !.ptr = next[call[t].ptr]])
          /\ UNCHANGED inactive
  /\ UNCHANGED <<list, isExplicit, token, unborn>>

(* The next producer that there is memory for.                             *)
Create(t) ==
  /\ At(t, "create")
  /\ IF unborn = {} THEN Return(t, Nil, FALSE) /\ UNCHANGED <<unborn, isExplicit>>
     ELSE LET p == CHOOSE x \in unborn : TRUE
          IN /\ unborn' = unborn \ {p}
             /\ isExplicit' = [isExplicit EXCEPT ![p] = call[t].explicit]
             /\ Go(t, [call[t] EXCEPT !.pc = "fetch_add", !.ptr = p])
  /\ UNCHANGED <<list, inactive, token>>

CountProducer(t) ==
  /\ At(t, "fetch_add")
  /\ producerCount' = producerCount + 1
  /\ Go(t, [call[t] EXCEPT !.pc = "link"])
  /\ UNCHANGED <<producerListTail, next, states>>

Link(t) ==
  /\ At(t, "link")
  /\ next' = [next EXCEPT ![call[t].ptr] = producerListTail]
  /\ Go(t, [call[t] EXCEPT !.pc = "push"])
  /\ UNCHANGED <<producerListTail, producerCount, states>>

(* The compare-and-swap on the tail: when it fails the new tail is linked. *)
Push(t) ==
  /\ At(t, "push")
  /\ IF producerListTail = next[call[t].ptr]
     THEN /\ producerListTail' = call[t].ptr
          /\ Return(t, call[t].ptr, FALSE)
          /\ UNCHANGED next
     ELSE /\ next' = [next EXCEPT ![call[t].ptr] = producerListTail]
          /\ UNCHANGED <<producerListTail, call>>
  /\ UNCHANGED <<producerCount, states>>

ListStep(t) ==
  Scan(t) \/ Grab(t) \/ Create(t) \/ CountProducer(t) \/ Link(t) \/ Push(t)
=============================================================================
