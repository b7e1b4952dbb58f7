--------------------------- MODULE ConcurrentQueue ---------------------------
(***************************************************************************)
(* A moodycamel::ConcurrentQueue with the threads that use it, with and    *)
(* without tokens, up to its destructor.                                   *)
(***************************************************************************)
EXTENDS ConsumerTokens

VARIABLES
  tokenProducer,   \* of each ProducerToken: its producer
  alive            \* until the destructor

rest == <<tokenProducer, alive>>
vars == <<fixed, call, content, rotation, rest>>

Init ==
  /\ \E s \in Setups : InitList(s)
  /\ InitHash
  /\ InitConsumers
  /\ tokenProducer = [k \in Token |-> Nil]
  /\ alive = TRUE

-----------------------------------------------------------------------------
(* inner_enqueue and inner_enqueue_bulk.  A sub-queue that has no room, or *)
(* gets no memory, refuses.                                                *)
Put(p, n) == size' = [size EXCEPT ![p] = IF @ + n <= setup.room THEN @ + n ELSE @]

Enqueue(t) ==
  /\ t \in setup.enqueue /\ At(t, "idle")
  /\ GetOrAdd(t)
  /\ UNCHANGED <<fixed, content, rotation, rest>>

EnqueueImplicit(t) ==
  /\ At(t, "got")
  /\ IF call[t].producer = Nil THEN UNCHANGED size
     ELSE \E n \in setup.bulk : Put(call[t].producer, n)
  /\ Go(t, NoCall)
  /\ UNCHANGED <<fixed, missed, rotation, rest>>

Owns(t, k) == setup.owner[k] = t /\ At(t, "idle")
Valid(k) == tokenProducer[k] # Nil

EnqueueToken(t, k, n) ==
  /\ Owns(t, k) /\ Valid(k)
  /\ Put(tokenProducer[k], n)
  /\ UNCHANGED <<fixed, call, missed, rotation, rest>>

(* try_dequeue_from_producer and try_dequeue_bulk_from_producer.           *)
TryDequeueFromProducer(t, k, n) ==
  /\ Owns(t, k) /\ Valid(k)
  /\ Take(t, tokenProducer[k], Available(tokenProducer[k], n), NoCall)
  /\ UNCHANGED <<fixed, rotation, rest>>

-----------------------------------------------------------------------------
(* ProducerToken::ProducerToken, and its destructor.                       *)
CreateToken(t, k) ==
  /\ Owns(t, k) /\ ~Valid(k)
  /\ RecycleOrCreate(t, TRUE, [pc |-> "register", token |-> k])
  /\ UNCHANGED <<fixed, content, rotation, rest>>

Register(t) ==
  /\ At(t, "register")
  /\ LET p == call[t].producer
         k == call[t].back.token
     IN /\ tokenProducer' = [tokenProducer EXCEPT ![k] = p]
        /\ token' = IF p = Nil THEN token ELSE [token EXCEPT ![p] = k]
  /\ Go(t, NoCall)
  /\ UNCHANGED <<setup, list, isExplicit, inactive, unborn, hashes, content, rotation, alive>>

DestroyToken(t, k) ==
  /\ Owns(t, k) /\ Valid(k)
  /\ token' = [token EXCEPT ![tokenProducer[k]] = Nil]
  /\ tokenProducer' = [tokenProducer EXCEPT ![k] = Nil]
  /\ Go(t, [pc |-> "deactivate", producer |-> tokenProducer[k]])
  /\ UNCHANGED <<setup, list, isExplicit, inactive, unborn, hashes, content, rotation, alive>>

Deactivate(t) ==
  /\ At(t, "deactivate")
  /\ inactive' = [inactive EXCEPT ![call[t].producer] = TRUE]
  /\ Go(t, NoCall)
  /\ UNCHANGED <<setup, list, isExplicit, token, unborn, hashes, content, rotation, rest>>

(* ProducerToken::swap, and the move constructor, which is a swap with a   *)
(* token that has no producer.                                             *)
SwapTokens(t, k, j) ==
  /\ Owns(t, k) /\ Owns(t, j) /\ k # j /\ Valid(k)
  /\ tokenProducer' = [tokenProducer EXCEPT ![k] = tokenProducer[j], ![j] = tokenProducer[k]]
  /\ token' = [p \in Producer |-> IF p = tokenProducer[k] THEN j
                                  ELSE IF p = tokenProducer[j] THEN k ELSE token[p]]
  /\ UNCHANGED <<setup, list, isExplicit, inactive, unborn, hashes, call, content, rotation,
                 alive>>

-----------------------------------------------------------------------------
Idle == \A t \in Thread : At(t, "idle")

(* The destructor, while no call is under way: the tokens lose their       *)
(* producers, the sub-queues their elements, the larger tables are freed.  *)
Destroy ==
  /\ alive /\ Idle
  /\ alive' = FALSE
  /\ tokenProducer' = [k \in Token |->
       IF \E p \in Listed : token[p] = k THEN Nil ELSE tokenProducer[k]]
  /\ size' = [p \in Producer |-> IF p \in Listed THEN 0 ELSE size[p]]
  /\ implicitProducerHash' = SubSeq(implicitProducerHash, 1, 1)
  /\ UNCHANGED <<setup, list, states, implicitProducerHashCount,
                 implicitProducerHashResizeInProgress, call, missed, rotation>>

Dequeue(t) ==
  \/ TryDequeue(t)
  \/ \E max \in setup.bulk : TryDequeueAlong(t, max)
DequeueWithToken(t) ==
  \E max \in setup.bulk, bulk \in BOOLEAN :
    (max = 1 \/ bulk) /\ TryDequeueToken(t, max, bulk)

UseToken(t) ==
  \E k \in Token :
    \/ CreateToken(t, k) \/ DestroyToken(t, k)
    \/ \E n \in setup.bulk : EnqueueToken(t, k, n) \/ TryDequeueFromProducer(t, k, n)
    \/ \E j \in Token : SwapTokens(t, k, j)

(* A thread calls; and a thread goes on inside its call.                   *)
Call(t) ==
  /\ alive
  /\ \/ Enqueue(t)
     \/ UseToken(t)
     \/ (Dequeue(t) \/ DequeueWithToken(t) \/ CreateConsumer(t)) /\ UNCHANGED rest

Step(t) ==
  \/ ListStep(t) /\ UNCHANGED <<setup, hashes, content, rotation, rest>>
  \/ HashStep(t) /\ UNCHANGED <<setup, content, rotation, rest>>
  \/ DequeueStep(t) /\ UNCHANGED rest
  \/ EnqueueImplicit(t) \/ Register(t) \/ Deactivate(t)

Next == Destroy \/ \E t \in Thread : Call(t) \/ Step(t)

Spec == Init /\ [][Next]_vars

(* A thread inside a call goes on; nobody has to call.                     *)
FairSpec == Spec /\ \A t \in Thread : WF_vars(Step(t))

-----------------------------------------------------------------------------
Entry == [key : Thread \cup {Nil}, value : ProducerOrNil]
TypeOK ==
  /\ producerListTail \in ProducerOrNil /\ producerCount \in 0 .. Cardinality(Producer)
  /\ next \in [Producer -> ProducerOrNil]
  /\ isExplicit \in [Producer -> BOOLEAN] /\ inactive \in [Producer -> BOOLEAN]
  /\ token \in [Producer -> Token \cup {Nil}] /\ unborn \subseteq Producer
  /\ \A k \in 1 .. Newest : implicitProducerHash[k] \in [0 .. capacity(k) - 1 -> Entry]
  /\ implicitProducerHashCount \in 0 .. Cardinality(Thread)
  /\ implicitProducerHashResizeInProgress \in BOOLEAN
  /\ size \in [Producer -> 0 .. setup.room]
  /\ \A t \in Thread : consumer[t] = Nil \/ consumer[t].currentProducer \in ProducerOrNil
  /\ globalExplicitConsumerOffset \in 0 .. Words - 1
  /\ tokenProducer \in [Token -> ProducerOrNil]

(* No producer is lost by a compare-and-swap on the tail that another one  *)
(* overtook: each that was created is on the list, or about to be added.   *)
Adding == {call[t].ptr : t \in {x \in Thread : call[x].pc \in {"fetch_add", "link", "push"}}}
NoProducerLost ==
  Listed \cap Adding = {}
  /\ Listed \cup Adding = (setup.producers \ unborn)
                            \cup {setup.listed[i] : i \in DOMAIN setup.listed}

(* A thread keeps one producer, however often the table was replaced while *)
(* it was looked up and entered, and no two threads have the same one: two *)
(* threads in one implicit sub-queue would overwrite each other.           *)
Entries == UNION {{implicitProducerHash[k][i] : i \in DOMAIN implicitProducerHash[k]} :
                  k \in 1 .. Newest}
ProducersOf(t) ==
  {e.value : e \in {x \in Entries : x.key = t}}
    \cup (IF call[t].pc \in {"got", "insert"} THEN {call[t].producer} \ {Nil} ELSE {})
OneProducerPerThread ==
  \A t, u \in Thread :
    /\ Cardinality(ProducersOf(t)) <= 1
    /\ t # u => ProducersOf(t) \cap ProducersOf(u) = {}

(* The count of the ids is exact: each thread that has a producer, or is   *)
(* about to get one, counts once, and a failed allocation does not leak.   *)
Counted == {t \in Thread :
  \/ ProducersOf(t) # {}
  \/ call[t].pc \in {"load", "resize", "allocate", "clear", "room", "new"}
  \/ "back" \in DOMAIN call[t] /\ call[t].back.pc = "new"}
CountIsExact == alive => implicitProducerHashCount = Cardinality(Counted)

(* The searches end (comments at 3303, 3310): each table that is looked up *)
(* has a slot that is still free, also after every id found in an older    *)
(* table was copied to it.                                                 *)
RoomToInsert ==
  \A k \in 1 .. Newest : \E i \in DOMAIN implicitProducerHash[k] :
    implicitProducerHash[k][i].key = Nil

(* A token and its producer point at each other, and nobody else is given  *)
(* the producer meanwhile; a queue that is destroyed leaves no token with  *)
(* a producer.                                                             *)
TokenOwnsProducer ==
  /\ \A k \in Token : Valid(k) =>
       LET p == tokenProducer[k] IN alive /\ token[p] = k /\ isExplicit[p] /\ ~inactive[p]
  /\ \A t, u \in Thread :
       /\ At(t, "register") /\ call[t].producer # Nil
       => /\ token[call[t].producer] = Nil /\ ~inactive[call[t].producer]
          /\ u # t /\ At(u, "register") => call[u].producer # call[t].producer

(* The number of producers that a consumer goes by covers the whole list   *)
(* it has seen: it is never zero, and no producer is out of reach.         *)
CountCoversList ==
  \A t \in Thread : At(t, "offset") => call[t].count >= Cardinality(From(call[t].tail))

(* What is shared by the threads is sound: no producer is lost, the tables *)
(* of thread ids keep their room and their count, and the number of        *)
(* producers covers the list.                                              *)
QueueInv ==
  /\ TypeOK
  /\ NoProducerLost
  /\ CountIsExact
  /\ RoomToInsert
  /\ CountCoversList

(* "Returns false if all producer streams appeared empty at the time they  *)
(* were checked" (1027): no sub-queue had elements during the whole call.  *)
FalseMeansEmpty == \A t \in Thread : At(t, "false") => missed[t] = {}

(* Threads that make no new calls all finish theirs: nobody waits for ever *)
(* for a larger table, searches for ever, or turns round the list.         *)
CallsEnd == <>[][\A t \in Thread : At(t, "idle") => UNCHANGED call[t]]_call => []<>Idle

(* Rotation serves everybody: while a single consumer polls with its token *)
(* it comes to each sub-queue that has elements again and again, though    *)
(* the one that it is at may never run dry.                                *)
Visits(t, p) == consumer[t] # Nil /\ consumer[t].currentProducer = p
RotationServesAll ==
  \A t \in Thread :
    setup.rotate = {t} /\ []<>At(t, "check")
    => \A p \in Producer : []<>(size[p] = 0 \/ Visits(t, p))
=============================================================================
