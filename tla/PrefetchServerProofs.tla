------------------------ MODULE PrefetchServerProofs ------------------------
(* Theorems about PrefetchServer, for any number of connections, workers   *)
(* and tasks, any database and any number of predictions: first about the  *)
(* memory of the tasks, then about who answers the requests, and last      *)
(* about main (Experiments), which starts the threads of the connections.  *)
EXTENDS PrefetchServer, FiniteSetTheorems, TLAPS

-----------------------------------------------------------------------------
(* The operators the actions are built from.                               *)

(* A loop visits an element of its list.                                   *)
LEMMA FirstIn == ASSUME NEW S, S # {} PROVE First(S) \in S
  BY DEF First

(* What is allocated was free.                                             *)
LEMMA FreshFree ==
  ASSUME Free # {} PROVE Fresh \in Task /\ StateOf(Fresh) = "free"
  BY DEF Free, Fresh

(* A prediction is a key of the database, whatever is predicted from.      *)
LEMMA PredictionInKey ==
  ASSUME NEW k \in Key, NEW i \in Nat PROVE Prediction(k, i) \in Key
<1>1. DBSize \in Nat /\ DBSize > 0
  BY ServerAssumption
<1>2. DBSize \div 3 \in Nat
  BY <1>1
<1>3. k + i + DBSize \div 3 \in Nat
  BY <1>1, <1>2 DEF Key
<1> QED
  BY <1>1, <1>3 DEF Prediction, Key

LEMMA NewTaskType ==
  ASSUME NEW op \in {"get", "put", "del", "fetch"}, NEW k \in Key,
         NEW v \in {"empty", "whole"}, NEW cb \in Callback
  PROVE  NewTask(op, k, v, cb) \in TaskRecord
  BY DEF NewTask, TaskRecord

LEMMA UnallocatedType == Unallocated \in TaskRecord
  BY ServerAssumption DEF Unallocated, TaskRecord, Silent, Callback, Key

(* Updating a field of a task leaves it a task.                            *)
LEMMA TaskRecordUpdate ==
  ASSUME NEW r \in TaskRecord
  PROVE  /\ [r EXCEPT !.operation = "noop"] \in TaskRecord
         /\ \A cb \in Callback : [r EXCEPT !.callback = cb] \in TaskRecord
         /\ \A s \in {"processing", "finished", "detached"} :
              /\ [r EXCEPT !.task_state = s] \in TaskRecord
              /\ \A v \in {"empty", "whole"} :
                   [r EXCEPT !.task_state = s, !.val = v] \in TaskRecord
  BY DEF TaskRecord

(* Submitting keeps the heap and the queue what they are.                  *)
LEMMA SubmitType ==
  ASSUME task \in [Task -> TaskRecord], task_queue \subseteq Task,
         NEW r \in TaskRecord, Submit(Fresh, r)
  PROVE  /\ Fresh \in Task
         /\ task' \in [Task -> TaskRecord]
         /\ task_queue' \subseteq Task
  BY FreshFree DEF Submit

LEMMA SilentType == Silent \in Callback
  BY DEF Silent, Callback

-----------------------------------------------------------------------------
(* Type correctness.                                                       *)

LEMMA InitType == Init => TypeOK
<1> SUFFICES ASSUME Init PROVE TypeOK
  OBVIOUS
<1>1. task \in [Task -> TaskRecord]
  BY UnallocatedType DEF Init
<1>2. 0 \in Key /\ 0 \in 0 .. NumPrefetch
  BY ServerAssumption DEF Key
<1>3. NoRequest \in Request
  BY <1>2 DEF NoRequest, Request
<1> QED
  BY <1>1, <1>2, <1>3 DEF Init, TypeOK

LEMMA PeerStepType ==
  ASSUME TypeOK, NEW c \in Client, PeerStep(c) PROVE TypeOK'
<1> Asked \subseteq Key /\ Commands \subseteq {"get", "put", "del"} /\ 0 \in Key
  BY ServerAssumption DEF Key
<1> USE DEF TypeOK, wire, pool, scan, lists, frame
<1>1. CASE SendRequest(c)
  BY <1>1 DEF SendRequest, Request
<1>2. CASE ReadResponse(c)
  BY <1>2 DEF ReadResponse
<1>3. CASE SendQuit(c)
  BY <1>3 DEF SendQuit, Quit, Request
<1>4. CASE Drop(c)
  BY <1>4 DEF Drop
<1>5. CASE ReadEnd(c)
  BY <1>5 DEF ReadEnd
<1> QED
  BY <1>1, <1>2, <1>3, <1>4, <1>5 DEF PeerStep

(* One round of prefetch_for_key, whichever thread runs it.                *)
LEMMA PrefetchForKeyType ==
  ASSUME TypeOK, NEW th \in Thread, NEW c \in Client, NEW k \in Key,
         PrefetchForKey(th, c, k)
  PROVE  /\ task' \in [Task -> TaskRecord] /\ task_queue' \subseteq Task
         /\ prefetch_tasks' \in [Client -> SUBSET Task]
         /\ deprecated_tasks' \in [Client -> SUBSET Task]
         /\ tasks' \in [Client -> SUBSET Task]
         /\ tail_lost' \in [Client -> BOOLEAN]
         /\ todo' \in [Client -> SUBSET Task]
         /\ count' \in [Thread -> 0 .. NumPrefetch]
<1> NumPrefetch \in Nat
  BY ServerAssumption
<1>1. count[th] \in Nat /\ Prediction(k, count[th]) \in Key
  BY PredictionInKey DEF TypeOK
<1>2. Fresh \in Task /\ task' \in [Task -> TaskRecord] /\ task_queue' \subseteq Task
  BY <1>1, NewTaskType, SilentType, SubmitType DEF TypeOK, PrefetchForKey
<1>3. count' \in [Thread -> 0 .. NumPrefetch]
  BY DEF TypeOK, PrefetchForKey
<1>4. /\ prefetch_tasks' \in [Client -> SUBSET Task]
      /\ tail_lost' \in [Client -> BOOLEAN]
      /\ todo' \in [Client -> SUBSET Task]
  <2>1. PushBack(c, Fresh)
    BY DEF PrefetchForKey
  <2>2. prefetch_tasks' \in [Client -> SUBSET Task] /\ todo' \in [Client -> SUBSET Task]
    BY <1>2, <2>1 DEF TypeOK, PushBack
  <2>3. tail_lost' \in [Client -> BOOLEAN]
    BY <2>1 DEF TypeOK, PushBack
  <2> QED
    BY <2>2, <2>3
<1> QED
  BY <1>2, <1>3, <1>4 DEF TypeOK, PrefetchForKey

(* An answer is counted, and written when there is somebody to read it.    *)
LEMMA WriteType ==
  ASSUME TypeOK, NEW c \in Client, Write(c) PROVE out' \in [Client -> Nat]
  BY DEF TypeOK, Write

LEMMA ServeStepType ==
  ASSUME TypeOK, Loops, NEW c \in Client, ServeStep(c) PROVE TypeOK'
<1> 0 \in Key /\ 0 \in 0 .. NumPrefetch /\ c \in Thread
  BY ServerAssumption DEF Key, Thread
<1> NoRequest \in Request
  BY DEF NoRequest, Request
<1> USE DEF TypeOK, wire, pool, scan, lists, frame, Goto
<1>1. CASE CheckQuit(c)
  BY <1>1 DEF CheckQuit
<1>2. CASE ReadGet(c)
  BY <1>2 DEF ReadGet, Request
<1>3. CASE ReadPutOrDel(c)
  BY <1>3, NewTaskType, SubmitType DEF ReadPutOrDel, Request, Callback
<1>4. CASE ReadQuit(c)
  BY <1>4 DEF ReadQuit
<1>5. CASE SkipOther(c)
  BY <1>5, FirstIn DEF SkipOther
<1>6. CASE MatchKey(c)
  <2> DEFINE t == First(todo[c])
  <2>1. t \in todo[c] /\ t \in Task
    BY <1>6, FirstIn DEF MatchKey
  <2>2. task' \in [Task -> TaskRecord]
    <3>1. [kind |-> "get", frame |-> c] \in Callback
      BY DEF Callback
    <3>2. [task[t] EXCEPT !.callback = [kind |-> "get", frame |-> c]] \in TaskRecord
      BY <2>1, <3>1, TaskRecordUpdate
    <3>3. \/ task' = task
          \/ task' = [task EXCEPT ![t] = [@ EXCEPT !.callback = [kind |-> "get", frame |-> c]]]
      BY <1>6 DEF MatchKey
    <3> QED
      BY <3>2, <3>3
  <2>3. val' \in [Client -> {"empty", "whole"}]
    BY <1>6, <2>1 DEF MatchKey, TaskRecord
  <2>4. /\ prefetch_success' \in [Client -> BOOLEAN]
        /\ prediction_success' \in [Client -> BOOLEAN]
    BY <1>6 DEF MatchKey
  <2>5. /\ todo' \in [Client -> SUBSET Task]
        /\ iter' \in [Client -> Task \cup {NoOne}]
        /\ cpc' = [cpc EXCEPT ![c] = "recheck"]
    BY <1>6, <2>1 DEF MatchKey
  <2> QED
    BY <1>6, <2>2, <2>3, <2>4, <2>5 DEF MatchKey
<1>7. CASE Recheck(c)
  BY <1>7 DEF Recheck
<1>8. CASE Erase(c)
  <2>1. tail_lost' \in [Client -> BOOLEAN]
    BY <1>8 DEF Erase
  <2>2. /\ prefetch_tasks' \in [Client -> SUBSET Task]
        /\ deprecated_tasks' \in [Client -> SUBSET Task]
    BY <1>8 DEF Erase, Unlink, Loops
  <2> QED
    BY <1>8, <2>1, <2>2 DEF Erase
<1>9. CASE EndScan(c)
  BY <1>9 DEF EndScan
<1>10. CASE Reap(c)
  BY <1>10, FirstIn, UnallocatedType DEF Reap
<1>11. CASE Cancel(c)
  <2>1. task' \in [Task -> TaskRecord]
    <3>1. \A t \in Task : [task[t] EXCEPT !.operation = "noop"] \in TaskRecord
      BY TaskRecordUpdate
    <3>2. task' = [task EXCEPT ![iter[c]] = [@ EXCEPT !.operation = "noop"]]
      BY <1>11 DEF Cancel
    <3> QED
      BY <3>1, <3>2
  <2> QED
    BY <1>11, <2>1 DEF Cancel
<1>12. CASE EndReap(c)
  BY <1>12 DEF EndReap
<1>13. CASE Sweep(c)
  BY <1>13, FirstIn, UnallocatedType DEF Sweep
<1>14. CASE SubmitGet(c)
  BY <1>14, NewTaskType, SubmitType DEF SubmitGet, Callback
<1>15. CASE ServePrefetch(c)
  BY <1>15, PrefetchForKeyType DEF ServePrefetch
<1>16. CASE Answer(c)
  BY <1>16, WriteType DEF Answer
<1>17. CASE DeleteTask(c)
  BY <1>17, UnallocatedType DEF DeleteTask, DeleteFirst
<1>18. CASE NextList(c)
  BY <1>18 DEF NextList
<1>19. CASE Return(c)
  BY <1>19 DEF Return
<1> QED
  BY <1>1, <1>2, <1>3, <1>4, <1>5, <1>6, <1>7, <1>8, <1>9, <1>10, <1>11, <1>12,
     <1>13, <1>14, <1>15, <1>16, <1>17, <1>18, <1>19 DEF ServeStep

LEMMA WorkerStepType ==
  ASSUME TypeOK, HeldTasks, NEW w \in Worker, WorkerStep(w) PROVE TypeOK'
<1> DEFINE t == db_task[w]
<1> 0 \in 0 .. NumPrefetch /\ w \in Thread
  BY ServerAssumption DEF Thread
<1>a. wpc[w] \in {"callback", "finish", "detach"} => t \in Task
  BY DEF HeldTasks
<1>b. ASSUME NEW s \in {"finished", "detached"}, t \in Task,
             task' = [task EXCEPT ![t].task_state = s]
      PROVE  task' \in [Task -> TaskRecord]
  <2>1. task' = [task EXCEPT ![t] = [@ EXCEPT !.task_state = s]]
    BY <1>b
  <2>2. [task[t] EXCEPT !.task_state = s] \in TaskRecord
    BY <1>b, TaskRecordUpdate DEF TypeOK
  <2> QED
    BY <2>1, <2>2 DEF TypeOK
<1>c. t \in Task => task[t].key \in Key /\ task[t].callback \in Callback
  BY DEF TypeOK, TaskRecord
<1>d. t \in Task /\ CallbackOf(w).kind \in {"get", "ack"} => CallbackOf(w).frame \in Client
  BY <1>c DEF CallbackOf, Callback
<1> USE DEF TypeOK, wire, pool, scan, lists, frame, WGoto
<1>1. CASE Take(w)
  <2> PICK u \in task_queue :
         /\ task_queue' = task_queue \ {u}
         /\ db_task' = [db_task EXCEPT ![w] = u]
         /\ task' = [task EXCEPT ![u].task_state = "processing",
                                 ![u].val = IF task[u].operation \in {"get", "fetch"}
                                              THEN "whole" ELSE @]
    BY <1>1 DEF Take
  <2>1. u \in Task /\ task[u] \in TaskRecord /\ task[u].val \in {"empty", "whole"}
    BY DEF TaskRecord
  <2> DEFINE v == IF task[u].operation \in {"get", "fetch"} THEN "whole" ELSE task[u].val
  <2>2. [task[u] EXCEPT !.task_state = "processing", !.val = v] \in TaskRecord
    BY <2>1, TaskRecordUpdate
  <2>3. task' = [task EXCEPT ![u] = [@ EXCEPT !.task_state = "processing", !.val = v]]
    BY <2>1 DEF TaskRecord
  <2>4. task' \in [Task -> TaskRecord]
    BY <2>2, <2>3
  <2> QED
    BY <1>1, <2>1, <2>4 DEF Take
<1>2. CASE CallPrefetch(w)
  BY <1>2, <1>a, <1>c, <1>d, PrefetchForKeyType DEF CallPrefetch
<1>3. CASE CallAnswer(w)
  BY <1>3, <1>a, <1>d, WriteType DEF CallAnswer
<1>4. CASE CallAck(w)
  BY <1>4, <1>a, <1>d, WriteType DEF CallAck
<1>5. CASE Finish(w)
  BY <1>5, <1>a, <1>b DEF Finish
<1>6. CASE Detach(w)
  BY <1>6, <1>a, <1>b DEF Detach
<1>7. CASE Exit(w)
  BY <1>7 DEF Exit
<1> QED
  BY <1>1, <1>2, <1>3, <1>4, <1>5, <1>6, <1>7 DEF WorkerStep

LEMMA NextType == TypeOK /\ HeldTasks /\ Loops /\ [Next]_vars => TypeOK'
<1> SUFFICES ASSUME TypeOK, HeldTasks, Loops, [Next]_vars PROVE TypeOK'
  OBVIOUS
<1>1. ASSUME NEW c \in Client, PeerStep(c) \/ ServeStep(c) PROVE TypeOK'
  BY <1>1, PeerStepType, ServeStepType
<1>2. ASSUME NEW w \in Worker, WorkerStep(w) PROVE TypeOK'
  BY <1>2, WorkerStepType
<1>3. ASSUME NEW w \in Worker, SetStop(w) PROVE TypeOK'
  BY <1>3 DEF SetStop, TypeOK, wire, frame, lists, scan
<1>4. CASE Interrupt
  BY <1>4 DEF Interrupt, TypeOK, wire, pool, frame, lists, scan
<1>5. CASE UNCHANGED vars
  BY <1>5 DEF vars, TypeOK, wire, pool, frame, lists, scan
<1> QED
  BY <1>1, <1>2, <1>3, <1>4, <1>5 DEF Next, Rest

-----------------------------------------------------------------------------
(* The memory of the tasks.                                                *)

LEMMA InitMemory == Init => MemoryInv
<1> SUFFICES ASSUME Init PROVE MemoryInv
  OBVIOUS
<1>1. TypeOK
  BY InitType
<1>2. QueuedTasks /\ HeldTasks /\ ListedTasks /\ OneOwner
  BY DEF Init, QueuedTasks, HeldTasks, ListedTasks, OneOwner, Listed
<1>3. Loops
  BY DEF Init, Loops
<1>4. GetsAwaited
  BY DEF Init, GetsAwaited, Bearers, StateOf, Unallocated
<1> QED
  BY <1>1, <1>2, <1>3, <1>4 DEF MemoryInv

(* A step that neither touches a task nor moves a serving thread.          *)
LEMMA QuietMemory ==
  ASSUME MemoryInv, TypeOK',
         UNCHANGED <<task, task_queue, wpc, db_task, cpc, todo, iter, lists>>
  PROVE  MemoryInv'
<1> USE DEF MemoryInv, lists, Listed, StateOf
<1>1. QueuedTasks' /\ HeldTasks'
  BY DEF QueuedTasks, HeldTasks
<1>2. ListedTasks' /\ OneOwner'
  BY DEF ListedTasks, OneOwner
<1>3. Loops'
  BY DEF Loops
<1>4. GetsAwaited'
  BY DEF GetsAwaited, Bearers, Awaited
<1> QED
  BY <1>1, <1>2, <1>3, <1>4

(* A serving thread that moves on to another loop, and touches no task.    *)
LEMMA MoveMemory ==
  ASSUME MemoryInv, TypeOK', Loops', NEW c \in Client,
         UNCHANGED <<task, task_queue, wpc, db_task, lists>>,
         \A d \in Client \ {c} : cpc'[d] = cpc[d],
         Bearers(c) \cap Awaited(c) \subseteq Awaited(c)'
  PROVE  MemoryInv'
<1> USE DEF MemoryInv, lists, Listed, StateOf
<1>1. QueuedTasks' /\ HeldTasks'
  BY DEF QueuedTasks, HeldTasks
<1>2. ListedTasks' /\ OneOwner'
  BY DEF ListedTasks, OneOwner
<1>3. GetsAwaited'
  <2> SUFFICES ASSUME NEW d \in Client, NEW t \in Bearers(d)',
                      task[t].callback.kind = "get"
               PROVE  t \in Awaited(d)'
    BY DEF GetsAwaited
  <2>1. t \in Bearers(d)
    BY DEF Bearers
  <2>2. t \in Awaited(d)
    BY <2>1 DEF GetsAwaited
  <2>3. CASE d = c
    BY <2>1, <2>2, <2>3
  <2>4. CASE d # c
    BY <2>2, <2>4 DEF Awaited
  <2> QED
    BY <2>3, <2>4
<1> QED
  BY <1>1, <1>2, <1>3

LEMMA PeerStepMemory ==
  ASSUME MemoryInv, TypeOK', NEW c \in Client, PeerStep(c) PROVE MemoryInv'
<1>1. UNCHANGED <<task, task_queue, wpc, db_task, cpc, todo, iter, lists>>
  BY DEF PeerStep, SendRequest, ReadResponse, SendQuit, Drop, ReadEnd,
         wire, pool, scan, lists, frame
<1> QED
  BY <1>1, QuietMemory

(* Deleting a detached task and taking it off its list.                    *)
LEMMA DeleteMemory ==
  ASSUME MemoryInv, TypeOK', Loops', NEW c \in Client, NEW t \in Listed(c),
         StateOf(t) = "detached",
         task' = [task EXCEPT ![t] = Unallocated],
         UNCHANGED <<task_queue, wpc, db_task>>,
         \A d \in Client :
           /\ prefetch_tasks'[d] = prefetch_tasks[d] \ {t}
           /\ deprecated_tasks'[d] = deprecated_tasks[d] \ {t}
           /\ tasks'[d] = tasks[d] \ {t}
           /\ Awaited(d)' = Awaited(d) \ {t}
  PROVE  MemoryInv'
<1> USE DEF MemoryInv, Listed, StateOf
<1>1. t \in Task /\ \A u \in Task \ {t} : task'[u] = task[u]
  BY DEF TypeOK
<1>2. task'[t] = Unallocated /\ task'[t].task_state = "free"
  BY <1>1 DEF TypeOK, Unallocated
<1>3. t \notin task_queue /\ \A w \in Worker : db_task[w] # t
  <2>1. \A w \in Worker : db_task[w] = t =>
          wpc[w] \in {"poll", "exited", "callback", "finish", "detach"}
    BY DEF TypeOK
  <2> QED
    BY <1>1, <2>1, ServerAssumption DEF QueuedTasks, HeldTasks
<1>4. QueuedTasks'
  BY <1>1, <1>3 DEF QueuedTasks, TypeOK
<1>5. HeldTasks'
  BY <1>1, <1>3 DEF HeldTasks, TypeOK
<1>6. ListedTasks'
  BY <1>1 DEF ListedTasks, TypeOK
<1>7. OneOwner'
  BY DEF OneOwner
<1>8. GetsAwaited'
  <2> SUFFICES ASSUME NEW d \in Client, NEW u \in Bearers(d)',
                      task'[u].callback.kind = "get"
               PROVE  u \in Awaited(d)'
    BY DEF GetsAwaited
  <2>1. u \in Task /\ u # t
    BY <1>2 DEF Bearers
  <2>2. u \in Bearers(d) /\ task[u].callback.kind = "get"
    BY <1>1, <2>1 DEF Bearers
  <2> QED
    BY <2>1, <2>2 DEF GetsAwaited
<1> QED
  BY <1>4, <1>5, <1>6, <1>7, <1>8

(* Submitting a task, whether a list keeps it or not.                      *)
LEMMA SubmitMemory ==
  ASSUME MemoryInv, TypeOK', Loops', NEW c \in Client,
         NEW r \in TaskRecord, r.task_state = "in_queue",
         Submit(Fresh, r),
         UNCHANGED <<wpc, db_task, deprecated_tasks>>,
         \A d \in Client :
           /\ Awaited(d) \subseteq Awaited(d)'
           /\ d # c => prefetch_tasks'[d] = prefetch_tasks[d] /\ tasks'[d] = tasks[d],
         \/ /\ prefetch_tasks'[c] \in {prefetch_tasks[c], prefetch_tasks[c] \cup {Fresh}}
            /\ tasks'[c] = tasks[c]
         \/ /\ prefetch_tasks'[c] = prefetch_tasks[c]
            /\ tasks'[c] = tasks[c] \cup {Fresh},
         r.callback.kind = "get" => r.callback.frame = c /\ Fresh \in Awaited(c)'
  PROVE  MemoryInv'
<1> DEFINE t == Fresh
<1> USE DEF MemoryInv, Listed, StateOf
<1>1. /\ t \in Task /\ task[t].task_state = "free"
      /\ \A u \in Task \ {t} : task'[u] = task[u]
      /\ task'[t] = r
      /\ task_queue' = task_queue \cup {t}
  BY FreshFree DEF TypeOK, Submit
<1> HIDE DEF t
<1>2. t \notin task_queue /\ \A w \in Worker : db_task[w] # t
  <2>1. \A w \in Worker : db_task[w] = t =>
          wpc[w] \in {"poll", "exited", "callback", "finish", "detach"}
    BY DEF TypeOK
  <2> QED
    BY <1>1, <2>1, ServerAssumption DEF QueuedTasks, HeldTasks
<1>3. \A d \in Client : t \notin Listed(d)
  BY <1>1 DEF ListedTasks
<1>4. QueuedTasks'
  BY <1>1 DEF QueuedTasks, TypeOK
<1>5. HeldTasks'
  BY <1>1, <1>2 DEF HeldTasks, TypeOK
<1>6. \A d \in Client :
        /\ prefetch_tasks'[d] \subseteq prefetch_tasks[d] \cup {t}
        /\ tasks'[d] \subseteq tasks[d] \cup {t}
        /\ deprecated_tasks'[d] = deprecated_tasks[d]
        /\ d # c => Listed(d)' = Listed(d)
        /\ ~(t \in prefetch_tasks'[d] /\ t \in tasks'[d])
  BY <1>3 DEF t
<1>7. ListedTasks'
  BY <1>1, <1>6 DEF ListedTasks, TypeOK
<1>8. OneOwner'
  <2> SUFFICES ASSUME NEW d \in Client, NEW e \in Client
               PROVE  /\ (prefetch_tasks[d] \cap deprecated_tasks[d] = {})'
                      /\ (prefetch_tasks[d] \cap tasks[d] = {})'
                      /\ (deprecated_tasks[d] \cap tasks[d] = {})'
                      /\ d # e => (Listed(d) \cap Listed(e) = {})'
    BY DEF OneOwner
  <2>1. d # e => (Listed(d) \cap Listed(e) = {})'
    <3>1. Listed(d)' \subseteq Listed(d) \cup {t} /\ Listed(e)' \subseteq Listed(e) \cup {t}
      BY <1>6
    <3>2. d # e => ~(t \in Listed(d)' /\ t \in Listed(e)')
      BY <1>3, <1>6
    <3> QED
      BY <3>1, <3>2 DEF OneOwner
  <2> QED
    BY <1>3, <1>6, <2>1 DEF OneOwner
<1>9. GetsAwaited'
  <2> SUFFICES ASSUME NEW d \in Client, NEW u \in Bearers(d)',
                      task'[u].callback.kind = "get"
               PROVE  u \in Awaited(d)'
    BY DEF GetsAwaited
  <2>1. CASE u = t
    BY <1>1, <2>1 DEF Bearers, t
  <2>2. CASE u # t
    <3>1. u \in Bearers(d) /\ task[u].callback.kind = "get"
      BY <1>1, <2>2 DEF Bearers
    <3> QED
      BY <3>1 DEF GetsAwaited
  <2> QED
    BY <2>1, <2>2
<1> QED
  BY <1>4, <1>5, <1>7, <1>8, <1>9

(* Changing fields of tasks, but no task_state and no owner of a callback. *)
LEMMA UpdateMemory ==
  ASSUME MemoryInv, TypeOK', Loops', NEW c \in Client,
         \A t \in Task :
           /\ task'[t].task_state = task[t].task_state
           /\ \/ task'[t].callback = task[t].callback
              \/ task'[t].callback.frame = c /\ t \in Awaited(c)',
         UNCHANGED <<task_queue, wpc, db_task, lists>>,
         \A d \in Client : Awaited(d)' = Awaited(d)
  PROVE  MemoryInv'
<1> USE DEF MemoryInv, lists, Listed, StateOf
<1>1. QueuedTasks' /\ HeldTasks'
  BY DEF QueuedTasks, HeldTasks, TypeOK
<1>2. ListedTasks' /\ OneOwner'
  BY DEF ListedTasks, OneOwner, TypeOK
<1>3. GetsAwaited'
  BY DEF GetsAwaited, Bearers
<1> QED
  BY <1>1, <1>2, <1>3

(* One round of prefetch_for_key.                                          *)
LEMMA PrefetchForKeyMemory ==
  ASSUME MemoryInv, TypeOK', NEW th \in Thread, NEW c \in Client, NEW k \in Key,
         PrefetchForKey(th, c, k),
         UNCHANGED <<wpc, db_task, cpc, iter>>
  PROVE  MemoryInv'
<1> NumPrefetch \in Nat
  BY ServerAssumption
<1> DEFINE r == NewTask("fetch", Prediction(k, count[th]), "empty", Silent)
<1>1. r \in TaskRecord /\ r.task_state = "in_queue" /\ r.callback.kind = "silent"
  <2>1. count[th] \in Nat
    BY DEF TypeOK, MemoryInv
  <2>2. r \in TaskRecord
    BY <2>1, PredictionInKey, NewTaskType, SilentType
  <2> QED
    BY <2>2 DEF NewTask, Silent
<1>2. Submit(Fresh, r) /\ PushBack(c, Fresh) /\ UNCHANGED <<deprecated_tasks, tasks>>
  BY DEF PrefetchForKey
<1> HIDE DEF r
<1>3. Fresh \in Task /\ \A d \in Client : Fresh \notin Listed(d)
  BY <1>2, FreshFree DEF Submit, MemoryInv, ListedTasks
<1>4. /\ prefetch_tasks'[c] \in {prefetch_tasks[c], prefetch_tasks[c] \cup {Fresh}}
      /\ \A d \in Client : d # c => prefetch_tasks'[d] = prefetch_tasks[d]
  BY <1>2 DEF PushBack, MemoryInv, TypeOK
<1>5. Loops'
  <2> USE DEF MemoryInv, TypeOK
  <2>1. \A d \in Client : d # c => todo'[d] = todo[d]
    BY <1>2 DEF PushBack
  <2>2. cpc[c] \in {"scan", "recheck", "erase"} =>
          /\ todo'[c] \subseteq prefetch_tasks'[c]
          /\ iter[c] \in prefetch_tasks[c] => (iter[c] \in todo'[c] => iter[c] \in todo[c])
    BY <1>2, <1>3 DEF PushBack, Loops, Listed
  <2>3. cpc[c] \notin {"scan", "recheck", "erase"} => todo'[c] = todo[c]
    BY <1>2 DEF PushBack
  <2>4. prefetch_tasks[c] \subseteq prefetch_tasks'[c]
    BY <1>4
  <2> SUFFICES ASSUME NEW d \in Client
               PROVE  /\ cpc[d] \in {"scan", "recheck", "erase"}
                           => todo'[d] \subseteq prefetch_tasks'[d]
                      /\ cpc[d] \in {"recheck", "erase"}
                           => iter[d] \in prefetch_tasks'[d] \ todo'[d]
                      /\ cpc[d] \in {"reap", "cancel"} => todo'[d] \subseteq deprecated_tasks[d]
                      /\ cpc[d] = "sweep" => todo'[d] \subseteq tasks[d]
    BY <1>2 DEF Loops
  <2>5. CASE d # c
    BY <1>4, <2>1, <2>5 DEF Loops
  <2>6. CASE d = c
    BY <2>2, <2>3, <2>4, <2>6 DEF Loops
  <2> QED
    BY <2>5, <2>6
<1>6. \A d \in Client : Awaited(d) \subseteq Awaited(d)'
  BY <1>2, <1>4 DEF Awaited, Listed
<1> QED
  BY <1>1, <1>2, <1>4, <1>5, <1>6, SubmitMemory

(* What is on one list of a frame is on no other list.                     *)
LEMMA OneList ==
  ASSUME MemoryInv, NEW c \in Client, NEW t \in Listed(c)
  PROVE  /\ \A d \in Client \ {c} : t \notin Listed(d)
         /\ t \in prefetch_tasks[c] => t \notin deprecated_tasks[c] \cup tasks[c]
         /\ t \in deprecated_tasks[c] => t \notin prefetch_tasks[c] \cup tasks[c]
         /\ t \in tasks[c] => t \notin prefetch_tasks[c] \cup deprecated_tasks[c]
  BY DEF MemoryInv, OneOwner, Listed

LEMMA ServeStepMemory ==
  ASSUME MemoryInv, TypeOK', NEW c \in Client, ServeStep(c) PROVE MemoryInv'
<1> USE DEF wire, pool, scan, lists, frame, Goto
<1>a. TypeOK /\ Loops
  BY DEF MemoryInv
<1>b. ASSUME NEW l, cpc' = [cpc EXCEPT ![c] = l], l \notin {"free_deprecated", "free_tasks", "done"},
             UNCHANGED lists
      PROVE  Bearers(c) \cap Awaited(c) \subseteq Awaited(c)'
  BY <1>a, <1>b DEF Awaited, Listed, TypeOK
<1>1. CASE CheckQuit(c)
  <2>1. Loops'
    BY <1>1, <1>a DEF CheckQuit, Loops, TypeOK
  <2> QED
    BY <1>1, <1>a, <1>b, <2>1, MoveMemory DEF CheckQuit, TypeOK
<1>2. CASE ReadGet(c)
  <2>1. Loops'
    BY <1>2, <1>a DEF ReadGet, Loops, TypeOK
  <2> QED
    BY <1>2, <1>a, <1>b, <2>1, MoveMemory DEF ReadGet, TypeOK
<1>3. CASE ReadPutOrDel(c)
  <2> DEFINE r == NewTask(req[c].op, req[c].key, IF req[c].op = "put" THEN "whole" ELSE "empty",
                          [kind |-> "ack", frame |-> c])
  <2>1. Loops' /\ Submit(Fresh, r) /\ r.task_state = "in_queue" /\ r.callback.kind = "ack"
    BY <1>3, <1>a DEF ReadPutOrDel, Loops, TypeOK, NewTask
  <2>2. r \in TaskRecord
    BY <1>3, <1>a, NewTaskType DEF ReadPutOrDel, TypeOK, Request, Callback
  <2>3. \A d \in Client : Awaited(d) \subseteq Awaited(d)'
    BY <1>3, <1>a DEF ReadPutOrDel, Awaited, Listed, TypeOK
  <2> HIDE DEF r
  <2> QED
    BY <1>3, <2>1, <2>2, <2>3, SubmitMemory DEF ReadPutOrDel
<1>4. CASE ReadQuit(c)
  <2>1. Loops'
    BY <1>4, <1>a DEF ReadQuit, Loops, TypeOK
  <2> QED
    BY <1>4, <1>a, <1>b, <2>1, MoveMemory DEF ReadQuit, TypeOK
<1>5. CASE SkipOther(c)
  <2>1. Loops'
    BY <1>5, <1>a, FirstIn DEF SkipOther, Loops, TypeOK
  <2> QED
    BY <1>5, <1>a, <1>b, <2>1, MoveMemory DEF SkipOther, TypeOK
<1>6. CASE MatchKey(c)
  <2>1. First(todo[c]) \in prefetch_tasks[c]
    BY <1>6, <1>a, FirstIn DEF MatchKey, Loops
  <2>2. Loops'
    BY <1>6, <1>a, <2>1 DEF MatchKey, Loops, TypeOK
  <2>3. \A d \in Client : Awaited(d)' = Awaited(d)
    BY <1>6, <1>a DEF MatchKey, Awaited, Listed, TypeOK
  <2>4. First(todo[c]) \in Awaited(c)'
    BY <1>6, <2>1, <2>3 DEF MatchKey, Awaited, Listed
  <2>5. \A t \in Task :
           /\ task'[t].task_state = task[t].task_state
           /\ \/ task'[t].callback = task[t].callback
              \/ task'[t].callback.frame = c /\ t \in Awaited(c)'
    <3>1. \/ task' = task
          \/ task' = [task EXCEPT ![First(todo[c])].callback = [kind |-> "get", frame |-> c]]
      BY <1>6 DEF MatchKey
    <3>2. ASSUME NEW r \in TaskRecord, NEW cb
          PROVE  /\ [r EXCEPT !.callback = cb].task_state = r.task_state
                 /\ [r EXCEPT !.callback = cb].callback = cb
      BY DEF TaskRecord
    <3>3. CASE task' = [task EXCEPT ![First(todo[c])].callback =
                          [kind |-> "get", frame |-> c]]
      <4> TAKE t \in Task
      <4>1. task'[t] = IF t = First(todo[c])
                         THEN [task[t] EXCEPT !.callback = [kind |-> "get", frame |-> c]]
                         ELSE task[t]
        BY <1>a, <3>3 DEF TypeOK
      <4> QED
        BY <1>a, <2>4, <3>2, <4>1 DEF TypeOK
    <3> QED
      BY <3>1, <3>3
  <2> QED
    BY <1>6, <2>2, <2>3, <2>5, UpdateMemory DEF MatchKey
<1>7. CASE Recheck(c)
  <2>1. Loops'
    BY <1>7, <1>a DEF Recheck, Loops, TypeOK
  <2> QED
    BY <1>7, <1>a, <1>b, <2>1, MoveMemory DEF Recheck, TypeOK
<1>9. CASE EndScan(c)
  <2>1. Loops'
    BY <1>9, <1>a DEF EndScan, Loops, TypeOK
  <2> QED
    BY <1>9, <1>a, <1>b, <2>1, MoveMemory DEF EndScan, TypeOK
<1>11. CASE Cancel(c)
  <2>1. Loops'
    BY <1>11, <1>a DEF Cancel, Loops, TypeOK
  <2>2. \A d \in Client : Awaited(d)' = Awaited(d)
    BY <1>11, <1>a DEF Cancel, Awaited, Listed, TypeOK
  <2>3. \A t \in Task : /\ task'[t].task_state = task[t].task_state
                        /\ task'[t].callback = task[t].callback
    BY <1>11, <1>a DEF Cancel, TypeOK, TaskRecord
  <2> QED
    BY <1>11, <2>1, <2>2, <2>3, UpdateMemory DEF Cancel
<1>12. CASE EndReap(c)
  <2>1. Loops'
    BY <1>12, <1>a DEF EndReap, Loops, TypeOK
  <2> QED
    BY <1>12, <1>a, <1>b, <2>1, MoveMemory DEF EndReap, TypeOK
<1>15. CASE ServePrefetch(c)
  BY <1>15, <1>a, PrefetchForKeyMemory DEF ServePrefetch, TypeOK, Thread
<1>16. CASE Answer(c)
  <2>1. Loops'
    BY <1>16, <1>a DEF Answer, Loops, TypeOK
  <2> QED
    BY <1>16, <1>a, <1>b, <2>1, MoveMemory DEF Answer, TypeOK
<1>18. CASE NextList(c)
  <2>1. Loops'
    BY <1>18, <1>a DEF NextList, Loops, TypeOK
  <2>2. Bearers(c) \cap Awaited(c) \subseteq Awaited(c)'
    BY <1>18, <1>a DEF NextList, Drained, Awaited, Listed, TypeOK
  <2> QED
    BY <1>18, <1>a, <2>1, <2>2, MoveMemory DEF NextList, TypeOK
<1>8. CASE Erase(c)
  <2> DEFINE t == iter[c]
  <2>1. t \in prefetch_tasks[c] /\ t \in Task /\ t \in Listed(c)
    BY <1>8, <1>a DEF Erase, Loops, TypeOK, Listed
  <2>2. /\ prefetch_tasks' = [prefetch_tasks EXCEPT ![c] = @ \ {t}]
        /\ deprecated_tasks' = [deprecated_tasks EXCEPT ![c] = @ \cup {t}]
        /\ UNCHANGED <<task, task_queue, wpc, db_task, tasks, todo, iter>>
        /\ cpc[c] = "erase" /\ cpc' = [cpc EXCEPT ![c] = "scan"]
    BY <1>8 DEF Erase, Unlink
  <2>3. \A d \in Client :
          /\ Listed(d)' = Listed(d)
          /\ d # c => prefetch_tasks'[d] = prefetch_tasks[d]
                      /\ deprecated_tasks'[d] = deprecated_tasks[d] /\ cpc'[d] = cpc[d]
    BY <1>a, <2>1, <2>2 DEF Listed, TypeOK
  <2>4. (QueuedTasks /\ HeldTasks /\ ListedTasks)'
    BY <2>2, <2>3 DEF MemoryInv, QueuedTasks, HeldTasks, ListedTasks, StateOf
  <2>5. OneOwner'
    BY <1>a, <2>1, <2>2, <2>3, OneList DEF MemoryInv, OneOwner, TypeOK
  <2>6. Loops'
    BY <1>a, <2>2 DEF Loops, TypeOK
  <2>7. \A d \in Client : Awaited(d)' = Awaited(d)
    BY <1>a, <2>2, <2>3 DEF Awaited, TypeOK
  <2>8. GetsAwaited'
    BY <2>2, <2>7 DEF MemoryInv, GetsAwaited, Bearers, StateOf
  <2> QED
    BY <2>4, <2>5, <2>6, <2>8 DEF MemoryInv
<1>10. CASE Reap(c)
  <2> DEFINE t == First(todo[c])
  <2>1. t \in deprecated_tasks[c] /\ t \in Listed(c)
    BY <1>10, <1>a, FirstIn DEF Reap, Loops, Listed
  <2>2. Loops'
    <3>1. /\ todo' = [todo EXCEPT ![c] = @ \ {t}]
          /\ cpc[c] = "reap" /\ cpc' \in {cpc, [cpc EXCEPT ![c] = "cancel"]}
          /\ \/ deprecated_tasks' = deprecated_tasks
             \/ deprecated_tasks' = [deprecated_tasks EXCEPT ![c] = @ \ {t}]
          /\ \A d \in Client \ {c} : iter'[d] = iter[d]
          /\ UNCHANGED <<prefetch_tasks, tasks>>
      BY <1>10, <1>a DEF Reap, TypeOK
    <3> QED
      BY <1>a, <3>1 DEF Loops, TypeOK
  <2>3. CASE Deletable(t) /\ task' = [task EXCEPT ![t] = Unallocated]
             /\ deprecated_tasks' = [deprecated_tasks EXCEPT ![c] = @ \ {t}]
             /\ UNCHANGED cpc
    <3>1. \A d \in Client :
            /\ prefetch_tasks'[d] = prefetch_tasks[d] \ {t}
            /\ deprecated_tasks'[d] = deprecated_tasks[d] \ {t}
            /\ tasks'[d] = tasks[d] \ {t}
      BY <1>10, <1>a, <2>1, <2>3, OneList DEF Reap, Listed, TypeOK
    <3>2. \A d \in Client : Awaited(d)' = Awaited(d) \ {t}
      BY <2>3, <3>1 DEF Awaited, Listed
    <3> QED
      BY <1>10, <2>1, <2>2, <2>3, <3>1, <3>2, DeleteMemory DEF Reap, Deletable
  <2>4. CASE UNCHANGED <<task, deprecated_tasks>>
    <3>1. UNCHANGED lists /\ \A d \in Client \ {c} : cpc'[d] = cpc[d]
      BY <1>10, <1>a, <2>4 DEF Reap, TypeOK
    <3>2. Bearers(c) \cap Awaited(c) \subseteq Awaited(c)'
      BY <1>10, <1>a, <2>4 DEF Reap, Awaited, Listed, TypeOK
    <3> QED
      BY <1>10, <2>2, <2>4, <3>1, <3>2, MoveMemory DEF Reap
  <2> QED
    BY <1>10, <2>3, <2>4 DEF Reap
<1>13. CASE Sweep(c)
  <2> DEFINE t == First(todo[c])
  <2>1. t \in tasks[c] /\ t \in Listed(c)
    BY <1>13, <1>a, FirstIn DEF Sweep, Loops, Listed
  <2>2. Loops'
    <3>1. /\ todo' = [todo EXCEPT ![c] = @ \ {t}]
          /\ cpc[c] = "sweep"
          /\ tasks' = tasks \/ tasks' = [tasks EXCEPT ![c] = @ \ {t}]
          /\ UNCHANGED <<cpc, iter, prefetch_tasks, deprecated_tasks>>
      BY <1>13 DEF Sweep
    <3> QED
      BY <1>a, <3>1 DEF Loops, TypeOK
  <2>3. CASE Deletable(t) /\ task' = [task EXCEPT ![t] = Unallocated]
             /\ tasks' = [tasks EXCEPT ![c] = @ \ {t}]
    <3>1. \A d \in Client :
            /\ prefetch_tasks'[d] = prefetch_tasks[d] \ {t}
            /\ deprecated_tasks'[d] = deprecated_tasks[d] \ {t}
            /\ tasks'[d] = tasks[d] \ {t}
      BY <1>13, <1>a, <2>1, <2>3, OneList DEF Sweep, Listed, TypeOK
    <3>2. \A d \in Client : Awaited(d)' = Awaited(d) \ {t}
      BY <1>13, <3>1 DEF Sweep, Awaited, Listed
    <3> QED
      BY <1>13, <2>1, <2>2, <2>3, <3>1, <3>2, DeleteMemory DEF Sweep, Deletable
  <2>4. CASE UNCHANGED <<task, tasks>>
    <3>1. \A d \in Client : Awaited(d)' = Awaited(d)
      BY <1>13, <2>4 DEF Sweep, Awaited, Listed
    <3> QED
      BY <1>13, <2>2, <2>4, <3>1, MoveMemory DEF Sweep
  <2> QED
    BY <1>13, <2>3, <2>4 DEF Sweep
<1>14. CASE SubmitGet(c)
  <2> DEFINE r == NewTask("get", key[c], "empty", [kind |-> "get", frame |-> c])
  <2>1. Loops'
    BY <1>14, <1>a DEF SubmitGet, Loops, TypeOK
  <2>2. \A d \in Client : Awaited(d)' = Listed(d)' \/ d # c
    BY <1>14, <1>a DEF SubmitGet, Awaited, TypeOK
  <2>3. CASE Submit(Fresh, r) /\ tasks' = [tasks EXCEPT ![c] = @ \cup {Fresh}]
    <3>1. r \in TaskRecord /\ r.task_state = "in_queue" /\ r.callback.frame = c
      BY <1>a, NewTaskType DEF TypeOK, Callback, NewTask
    <3>2. \A d \in Client : Awaited(d) \subseteq Awaited(d)'
      BY <1>14, <1>a, <2>3 DEF SubmitGet, Awaited, Listed, TypeOK
    <3>3. tasks'[c] = tasks[c] \cup {Fresh} /\ Fresh \in Awaited(c)'
      BY <1>a, <2>2, <2>3 DEF TypeOK, Listed
    <3>4. \A d \in Client : d # c => tasks'[d] = tasks[d]
      BY <2>3
    <3> HIDE DEF r
    <3> QED
      BY <1>14, <2>1, <2>3, <3>1, <3>2, <3>3, <3>4, SubmitMemory DEF SubmitGet
  <2>4. CASE UNCHANGED <<task, task_queue, tasks>>
    <3>1. UNCHANGED lists /\ \A d \in Client \ {c} : cpc'[d] = cpc[d]
      BY <1>14, <1>a, <2>4 DEF SubmitGet, TypeOK
    <3>2. Bearers(c) \cap Awaited(c) \subseteq Awaited(c)'
      BY <1>14, <1>a, <2>4 DEF SubmitGet, Awaited, Listed, TypeOK
    <3> QED
      BY <1>14, <2>1, <2>4, <3>1, <3>2, MoveMemory DEF SubmitGet
  <2> QED
    BY <1>14, <2>3, <2>4 DEF SubmitGet
<1>17. CASE DeleteTask(c)
  <2>1. PICK t :
          /\ t \in Listed(c) /\ StateOf(t) = "detached"
          /\ task' = [task EXCEPT ![t] = Unallocated]
          /\ \/ /\ t \in prefetch_tasks[c]
                /\ prefetch_tasks' = [prefetch_tasks EXCEPT ![c] = @ \ {t}]
                /\ UNCHANGED <<deprecated_tasks, tasks>>
             \/ /\ t \in deprecated_tasks[c]
                /\ deprecated_tasks' = [deprecated_tasks EXCEPT ![c] = @ \ {t}]
                /\ UNCHANGED <<prefetch_tasks, tasks>>
             \/ /\ t \in tasks[c]
                /\ tasks' = [tasks EXCEPT ![c] = @ \ {t}]
                /\ UNCHANGED <<prefetch_tasks, deprecated_tasks>>
    BY <1>17, FirstIn DEF DeleteTask, DeleteFirst, Deletable, Listed
  <2>2. UNCHANGED <<cpc, task_queue, wpc, db_task, todo, iter>>
        /\ cpc[c] \in {"free_prefetch", "free_deprecated", "free_tasks"}
    BY <1>17 DEF DeleteTask
  <2>3. \A d \in Client :
          /\ prefetch_tasks'[d] = prefetch_tasks[d] \ {t}
          /\ deprecated_tasks'[d] = deprecated_tasks[d] \ {t}
          /\ tasks'[d] = tasks[d] \ {t}
    <3>1. \A d \in Client \ {c} :
            /\ t \notin prefetch_tasks[d] \cup deprecated_tasks[d] \cup tasks[d]
            /\ prefetch_tasks'[d] = prefetch_tasks[d]
            /\ deprecated_tasks'[d] = deprecated_tasks[d]
            /\ tasks'[d] = tasks[d]
      BY <1>a, <2>1, OneList DEF Listed, TypeOK
    <3>2. /\ prefetch_tasks'[c] = prefetch_tasks[c] \ {t}
          /\ deprecated_tasks'[c] = deprecated_tasks[c] \ {t}
          /\ tasks'[c] = tasks[c] \ {t}
      BY <1>a, <2>1, OneList DEF TypeOK
    <3> QED
      BY <3>1, <3>2
  <2>4. \A d \in Client : Awaited(d)' = Awaited(d) \ {t}
    BY <2>2, <2>3 DEF Awaited, Listed
  <2>5. Loops'
    <3>1. \A d \in Client \ {c} :
            /\ prefetch_tasks'[d] = prefetch_tasks[d]
            /\ deprecated_tasks'[d] = deprecated_tasks[d]
            /\ tasks'[d] = tasks[d]
      BY <1>a, <2>1 DEF TypeOK
    <3> QED
      BY <1>a, <2>2, <3>1 DEF Loops
  <2> QED
    BY <2>1, <2>2, <2>3, <2>4, <2>5, DeleteMemory
<1>19. CASE Return(c)
  <2>1. Loops'
    BY <1>19, <1>a DEF Return, Loops, TypeOK
  <2>2. /\ UNCHANGED <<task, task_queue, wpc, db_task>>
        /\ \A d \in Client :
             /\ prefetch_tasks'[d] \subseteq prefetch_tasks[d]
             /\ deprecated_tasks'[d] \subseteq deprecated_tasks[d]
             /\ tasks'[d] \subseteq tasks[d]
    BY <1>19, <1>a DEF Return, TypeOK
  <2>3. (QueuedTasks /\ HeldTasks /\ ListedTasks)'
    BY <2>2 DEF MemoryInv, QueuedTasks, HeldTasks, ListedTasks, Listed, StateOf
  <2>4. OneOwner'
    BY <2>2 DEF MemoryInv, OneOwner, Listed
  <2>5. \A d \in Client : Awaited(d)' = Awaited(d)
    BY <1>19, <1>a DEF Return, Drained, Awaited, Listed, TypeOK
  <2>6. GetsAwaited'
    BY <2>2, <2>5 DEF MemoryInv, GetsAwaited, Bearers, StateOf
  <2> QED
    BY <2>1, <2>3, <2>4, <2>6 DEF MemoryInv
<1> QED
  BY <1>1, <1>2, <1>3, <1>4, <1>5, <1>6, <1>7, <1>8, <1>9, <1>10, <1>11, <1>12,
     <1>13, <1>14, <1>15, <1>16, <1>17, <1>18, <1>19 DEF ServeStep

(* A worker that changes the state of the task it holds.                   *)
LEMMA HolderMemory ==
  ASSUME MemoryInv, TypeOK', NEW w \in Worker, NEW t \in Task,
         NEW s \in {"processing", "finished", "detached"},
         \/ t \in task_queue /\ db_task[w] = NoOne /\ s = "processing"
         \/ t \notin task_queue /\ db_task[w] = t /\ s # "processing" /\ wpc[w] # "poll",
         task'[t].task_state = s, task'[t].callback = task[t].callback,
         \A u \in Task \ {t} : task'[u] = task[u],
         task_queue' = task_queue \ {t},
         \/ s = "processing" /\ db_task'[w] = t /\ wpc'[w] = "callback"
         \/ s = "finished" /\ db_task'[w] = t /\ wpc'[w] = "detach"
         \/ s = "detached" /\ db_task'[w] = NoOne /\ wpc'[w] = "poll",
         \A v \in Worker \ {w} : db_task'[v] = db_task[v] /\ wpc'[v] = wpc[v],
         UNCHANGED <<cpc, todo, iter, lists>>
  PROVE  MemoryInv'
<1> USE DEF MemoryInv, lists, Listed, StateOf
<1>1. \A v \in Worker : db_task[v] = t => v = w
  <2>1. \A v \in Worker : wpc[v] \in {"poll", "exited", "callback", "finish", "detach"}
    BY DEF TypeOK
  <2>2. t # NoOne
    BY ServerAssumption
  <2> QED
    BY <2>1, <2>2 DEF QueuedTasks, HeldTasks
<1>2. QueuedTasks'
  BY DEF QueuedTasks, TypeOK
<1>3. HeldTasks'
  <2>1. ASSUME NEW v \in Worker
        PROVE  /\ wpc'[v] \in {"poll", "exited"} => db_task'[v] = NoOne
               /\ wpc'[v] \in {"callback", "finish"} =>
                    db_task'[v] \in Task /\ task'[db_task'[v]].task_state = "processing"
               /\ wpc'[v] = "detach" =>
                    db_task'[v] \in Task /\ task'[db_task'[v]].task_state = "finished"
    <3>1. CASE v = w
      BY <3>1
    <3>2. CASE v # w
      BY <1>1, <3>2 DEF HeldTasks
    <3> QED
      BY <3>1, <3>2
  <2>2. ASSUME NEW v \in Worker, NEW x \in Worker, db_task'[v] = db_task'[x]
        PROVE  v = x \/ db_task'[v] = NoOne
    BY <1>1, <2>2 DEF HeldTasks
  <2> QED
    BY <2>1, <2>2 DEF HeldTasks
<1>4. ListedTasks' /\ OneOwner'
  <2>1. \A u \in Task : task[u].task_state # "free" => task'[u].task_state # "free"
    OBVIOUS
  <2>2. \A c \in Client : Listed(c)' = Listed(c) /\ Listed(c) \subseteq Task
    BY DEF TypeOK
  <2>3. ListedTasks'
    BY <2>1, <2>2 DEF ListedTasks
  <2> QED
    BY <2>3 DEF OneOwner
<1>5. Loops'
  BY DEF Loops
<1>6. GetsAwaited'
  <2> SUFFICES ASSUME NEW d \in Client, NEW u \in Bearers(d)',
                      task'[u].callback.kind = "get"
               PROVE  u \in Awaited(d)'
    BY DEF GetsAwaited
  <2>1. u \in Bearers(d) /\ task[u].callback.kind = "get"
    <3>1. CASE u = t
      <4>1. s = "processing" /\ t \in task_queue
        BY <3>1 DEF Bearers
      <4>2. task[t].task_state = "in_queue" /\ \A v \in Worker : db_task[v] # t
        BY <1>1, <4>1, ServerAssumption DEF QueuedTasks
      <4> QED
        BY <3>1, <4>2 DEF Bearers
    <3>2. CASE u # t
      <4>1. u \in Task /\ task'[u] = task[u]
        BY <3>2 DEF Bearers
      <4>2. \A v \in Worker : db_task[v] = u => wpc[v] # "finish"
        <5>1. \A v \in Worker \ {w} : db_task[v] = u => wpc[v] # "finish"
          BY DEF Bearers
        <5>2. db_task[w] # u
          BY <3>2, <4>1, ServerAssumption
        <5> QED
          BY <5>1, <5>2
      <4> QED
        BY <4>1, <4>2 DEF Bearers
    <3> QED
      BY <3>1, <3>2
  <2>2. Awaited(d)' = Awaited(d)
    BY DEF Awaited
  <2> QED
    BY <2>1, <2>2 DEF GetsAwaited
<1> QED
  BY <1>2, <1>3, <1>4, <1>5, <1>6

(* A worker that moves on, holding the same task in the same state.        *)
LEMMA WorkerMoveMemory ==
  ASSUME MemoryInv, TypeOK', NEW w \in Worker,
         UNCHANGED <<task, task_queue, db_task, cpc, todo, iter, lists>>,
         \/ wpc[w] = "callback" /\ wpc'[w] = "finish"
         \/ wpc[w] = "poll" /\ wpc'[w] = "exited",
         \A v \in Worker \ {w} : wpc'[v] = wpc[v]
  PROVE  MemoryInv'
<1> USE DEF MemoryInv, lists, Listed, StateOf
<1>1. QueuedTasks'
  BY DEF QueuedTasks
<1>2. HeldTasks'
  BY DEF HeldTasks
<1>3. ListedTasks' /\ OneOwner'
  BY DEF ListedTasks, OneOwner
<1>4. Loops'
  BY DEF Loops
<1>5. GetsAwaited'
  <2>1. \A d \in Client : Bearers(d)' \subseteq Bearers(d) /\ Awaited(d)' = Awaited(d)
    BY DEF Bearers, Awaited
  <2> QED
    BY <2>1 DEF GetsAwaited
<1> QED
  BY <1>1, <1>2, <1>3, <1>4, <1>5

LEMMA WorkerStepMemory ==
  ASSUME MemoryInv, TypeOK', NEW w \in Worker, WorkerStep(w) PROVE MemoryInv'
<1> USE DEF wire, pool, scan, lists, frame, WGoto
<1>a. TypeOK /\ HeldTasks /\ QueuedTasks
  BY DEF MemoryInv
<1>1. CASE Take(w)
  <2> PICK u \in task_queue :
         /\ task_queue' = task_queue \ {u}
         /\ db_task' = [db_task EXCEPT ![w] = u]
         /\ task' = [task EXCEPT ![u].task_state = "processing",
                                 ![u].val = IF task[u].operation \in {"get", "fetch"}
                                              THEN "whole" ELSE @]
    BY <1>1 DEF Take
  <2>1. u \in Task /\ db_task[w] = NoOne
    BY <1>1, <1>a DEF Take, HeldTasks, TypeOK
  <2>2. task'[u].task_state = "processing" /\ task'[u].callback = task[u].callback
    BY <1>a, <2>1 DEF TypeOK, TaskRecord
  <2>3. \A t \in Task \ {u} : task'[t] = task[t]
    BY <1>a DEF TypeOK
  <2>4. /\ db_task'[w] = u /\ wpc'[w] = "callback"
        /\ \A v \in Worker \ {w} : db_task'[v] = db_task[v] /\ wpc'[v] = wpc[v]
    BY <1>1, <1>a DEF Take, TypeOK
  <2> QED
    BY <1>1, <2>1, <2>2, <2>3, <2>4, HolderMemory DEF Take
<1>2. CASE CallPrefetch(w)
  <2>1. db_task[w] \in Task
    BY <1>2, <1>a DEF CallPrefetch, HeldTasks
  <2>2. task[db_task[w]].key \in Key /\ CallbackOf(w).frame \in Client /\ w \in Thread
    BY <1>2, <1>a, <2>1 DEF CallPrefetch, CallbackOf, TypeOK, TaskRecord, Callback, Thread
  <2> QED
    BY <1>2, <2>2, PrefetchForKeyMemory DEF CallPrefetch
<1>3. CASE CallAnswer(w)
  BY <1>3, <1>a, WorkerMoveMemory DEF CallAnswer, TypeOK
<1>4. CASE CallAck(w)
  BY <1>4, <1>a, WorkerMoveMemory DEF CallAck, TypeOK
<1>5. CASE Finish(w)
  <2> DEFINE t == db_task[w]
  <2>1. t \in Task /\ StateOf(t) = "processing" /\ wpc[w] \in {"callback", "finish"}
    BY <1>5, <1>a DEF Finish, HeldTasks
  <2>2. t \notin task_queue
    BY <1>a, <2>1 DEF QueuedTasks
  <2>3. /\ task'[t].task_state = "finished" /\ task'[t].callback = task[t].callback
        /\ \A u \in Task \ {t} : task'[u] = task[u]
    BY <1>5, <1>a, <2>1 DEF Finish, TypeOK, TaskRecord
  <2>4. wpc'[w] = "detach" /\ \A v \in Worker \ {w} : wpc'[v] = wpc[v]
    BY <1>5, <1>a DEF Finish, TypeOK
  <2>5. UNCHANGED <<task_queue, db_task, cpc, todo, iter, lists>>
    BY <1>5 DEF Finish
  <2> HIDE DEF t
  <2> QED
    BY <2>1, <2>2, <2>3, <2>4, <2>5, HolderMemory DEF t
<1>6. CASE Detach(w)
  <2> DEFINE t == db_task[w]
  <2>1. t \in Task /\ StateOf(t) = "finished" /\ wpc[w] = "detach"
    BY <1>6, <1>a DEF Detach, HeldTasks
  <2>2. t \notin task_queue
    BY <1>a, <2>1 DEF QueuedTasks
  <2>3. /\ task'[t].task_state = "detached" /\ task'[t].callback = task[t].callback
        /\ \A u \in Task \ {t} : task'[u] = task[u]
    BY <1>6, <1>a, <2>1 DEF Detach, TypeOK, TaskRecord
  <2>4. /\ wpc'[w] = "poll" /\ db_task'[w] = NoOne
        /\ \A v \in Worker \ {w} : wpc'[v] = wpc[v] /\ db_task'[v] = db_task[v]
    BY <1>6, <1>a DEF Detach, TypeOK
  <2>5. UNCHANGED <<task_queue, cpc, todo, iter, lists>>
    BY <1>6 DEF Detach
  <2> HIDE DEF t
  <2> QED
    BY <2>1, <2>2, <2>3, <2>4, <2>5, HolderMemory DEF t
<1>7. CASE Exit(w)
  BY <1>7, <1>a, WorkerMoveMemory DEF Exit, TypeOK
<1> QED
  BY <1>1, <1>2, <1>3, <1>4, <1>5, <1>6, <1>7 DEF WorkerStep

LEMMA NextMemory == MemoryInv /\ [Next]_vars => MemoryInv'
<1> SUFFICES ASSUME MemoryInv, [Next]_vars PROVE MemoryInv'
  OBVIOUS
<1>a. TypeOK'
  BY NextType DEF MemoryInv
<1>1. ASSUME NEW c \in Client, PeerStep(c) \/ ServeStep(c) PROVE MemoryInv'
  BY <1>a, <1>1, PeerStepMemory, ServeStepMemory
<1>2. ASSUME NEW w \in Worker, WorkerStep(w) PROVE MemoryInv'
  BY <1>a, <1>2, WorkerStepMemory
<1>3. ASSUME NEW w \in Worker, SetStop(w) PROVE MemoryInv'
  BY <1>a, <1>3, QuietMemory DEF SetStop, frame, lists, scan
<1>4. CASE Interrupt
  BY <1>a, <1>4, QuietMemory DEF Interrupt, pool, frame, lists, scan
<1>5. CASE UNCHANGED vars
  BY <1>a, <1>5, QuietMemory DEF vars, pool, frame, lists, scan
<1> QED
  BY <1>1, <1>2, <1>3, <1>4, <1>5 DEF Next, Rest

-----------------------------------------------------------------------------
(* The theorems.                                                           *)

(* MemoryInv is an invariant of the request path.                          *)
THEOREM MemorySound == Spec => []MemoryInv
  BY InitMemory, NextMemory, PTL DEF Spec

(* Every variable keeps its type; above all, a loop of prefetch_or_submit  *)
(* and a worker always have a task in hand when they use one.              *)
THEOREM TypeCorrect == Spec => []TypeOK
<1>1. MemoryInv => TypeOK
  BY DEF MemoryInv
<1> QED
  BY <1>1, MemorySound, PTL

(* No task is used after it was deleted: what the queue, a worker or a     *)
(* list still refers to is never free.                                     *)
THEOREM TasksNeverDangle == Spec => []NoDanglingTask
<1>1. MemoryInv => NoDanglingTask
  <2> SUFFICES ASSUME MemoryInv, NEW t \in Task, StateOf(t) = "free"
               PROVE  /\ t \notin task_queue
                      /\ \A w \in Worker : db_task[w] # t
                      /\ \A c \in Client : t \notin Listed(c)
    BY DEF NoDanglingTask
  <2>1. t \notin task_queue
    BY DEF MemoryInv, QueuedTasks
  <2>2. ASSUME NEW w \in Worker PROVE db_task[w] # t
    <3>1. wpc[w] \in {"poll", "exited", "callback", "finish", "detach"}
      BY DEF MemoryInv, TypeOK
    <3> QED
      BY <3>1, ServerAssumption DEF MemoryInv, HeldTasks
  <2>3. \A c \in Client : t \notin Listed(c)
    BY DEF MemoryInv, ListedTasks
  <2> QED
    BY <2>1, <2>2, <2>3
<1> QED
  BY <1>1, MemorySound, PTL

(* No task is deleted twice: a list, of one connection only, owns it.      *)
THEOREM TasksHaveOneOwner == Spec => []OneOwner
<1>1. MemoryInv => OneOwner
  BY DEF MemoryInv
<1> QED
  BY <1>1, MemorySound, PTL

(* delete_tasks keeps serve_client from returning while a callback of a    *)
(* get can still reach its frame.                                          *)
THEOREM FramesOutliveGets == Spec => []NoStaleFrame
<1>1. MemoryInv => NoStaleFrame
  BY DEF MemoryInv, GetsAwaited, Awaited, NoStaleFrame, Alive
<1> QED
  BY <1>1, MemorySound, PTL

-----------------------------------------------------------------------------
(***************************************************************************)
(* Who answers the requests: each request that was taken is answered, once,*)
(* and with a whole value.                                                 *)
(*                                                                         *)
(* The theorems below need two things of an installation that the code     *)
(* does not check.                                                         *)
(***************************************************************************)

(* The predictions of a key are different keys and none is the key itself: *)
(* otherwise two predictions of one key can be on the list, and a scan     *)
(* that meets both answers twice (the run duplicates).                     *)
FewPredictions == DBSize >= 3 /\ NumPrefetch <= DBSize - DBSize \div 3

(* No response can reach a connection that is not the one it is for: the   *)
(* callback of a put or del uses the socket of a frame that may be gone    *)
(* (CallAck), which takes a connection that ends before it was answered,   *)
(* and another one for the stray byte.                                     *)
NoStrayBytes ==
  \/ \A c, d \in Client : c = d
  \/ Commands \subseteq {"get"}
  \/ ~MayDrop /\ ~MayInterrupt

-----------------------------------------------------------------------------
(* The invariant.                                                          *)

Scanning(c) == cpc[c] \in {"scan", "recheck", "erase"}
InGet(c) == Scanning(c) \/ cpc[c] \in {"reap", "cancel", "sweep"}

(* A request is with the client's socket, with the serving thread, ...     *)
Unread(c) == req[c].op \in {"get", "put", "del"}
Serving(c) == (InGet(c) /\ ~prediction_success[c]) \/ cpc[c] = "prefetch"

(* ... or with a task: exactly one of them as long as the client waits.    *)
OneBearer(c) ==
  /\ \A s, t \in Bearers(c) : s = t
  /\ Serving(c) => Bearers(c) = {}
  /\ Unread(c) => Bearers(c) = {} /\ ~Serving(c)
  /\ Unread(c) \/ Serving(c) \/ Bearers(c) # {} => out[c] = 0 /\ peer[c] # "idle"
  /\ peer[c] = "waiting" /\ out[c] = 0 /\ ~Unread(c) /\ ~Serving(c) /\ Alive(c)
       => Bearers(c) # {}

(* The two ends of the wire.                                               *)
WireInStep(c) ==
  /\ out[c] <= 1
  /\ peer[c] # "waiting" => out[c] = 0
  /\ ~Unread(c) => req[c] = NoRequest \/ (req[c] = Quit /\ peer[c] = "gone")

(* A task that is queued or being processed is where its state says.       *)
StatesTrue ==
  \A t \in Task :
    /\ StateOf(t) = "in_queue" => t \in task_queue
    /\ StateOf(t) = "processing" => Locked(t)

(* A task that was executed as a get or fetch has its value, and what has  *)
(* the callback of a get was not made as anything else.                    *)
ExecutedWhole ==
  \A t \in Task :
    /\ task[t].operation \in {"get", "fetch"} /\ StateOf(t) \in {"processing", "finished", "detached"}
         => task[t].val = "whole"
    /\ task[t].callback.kind = "get" => task[t].operation \notin {"put", "del"}

(* The predictions of a connection are its own, and are not cancelled; a   *)
(* task that is deprecated while it is still queued answers nobody.        *)
Predictions(c) ==
  \A t \in prefetch_tasks[c] :
    task[t].operation = "fetch" /\ task[t].callback \in {Silent, [kind |-> "get", frame |-> c]}
Deprecated(c) ==
  /\ \A t \in deprecated_tasks[c] : StateOf(t) = "in_queue" => task[t].callback = Silent
  /\ cpc[c] = "erase" /\ StateOf(iter[c]) = "in_queue" => task[iter[c]].callback = Silent
  /\ cpc[c] = "cancel" => iter[c] \in deprecated_tasks[c]

(* prefetch_success and prediction_success.                                *)
Flags(c) ==
  /\ ~InGet(c) => ~prefetch_success[c] /\ ~prediction_success[c]
  /\ ~(prefetch_success[c] /\ prediction_success[c])
  /\ prefetch_success[c] \/ cpc[c] = "prefetch" => val[c] = "whole"

(* The get that a task bears is the current one, and has no response yet.  *)
GetBearer(c, t) == t \in Bearers(c) /\ task[t].callback.kind = "get"
CurrentGet(c) ==
  /\ response_count[c] <= 1
  /\ Serving(c) => response_count[c] = 0
  /\ \A t \in Task : GetBearer(c, t) => task[t].key = key[c] /\ response_count[c] = 0

(* Thread th is in prefetch_for_key for connection c.                      *)
Predicting(th, c) ==
  \/ th = c /\ cpc[c] = "prefetch"
  \/ th \in Worker /\ wpc[th] = "callback" /\ GetBearer(c, db_task[th])

(* The list holds nothing but the hijacked prediction of the current key,  *)
(* and the first n predictions made from it.                               *)
OnlyPredicted(c, n) ==
  \A t \in prefetch_tasks[c] :
    task[t].key = key[c] \/ \E i \in 0 .. n - 1 : task[t].key = Prediction(key[c], i)

(* While the list is scanned at most one element has the key, and what was *)
(* visited and left on the list is that one; afterwards no key is twice on *)
(* the list, because it starts from that element alone.                    *)
KeysApart(c) ==
  /\ Scanning(c) =>
       /\ \A s, t \in prefetch_tasks[c] :
            task[s].key = key[c] /\ task[t].key = key[c] => s = t
       /\ \A t \in prefetch_tasks[c] \ todo[c] :
            task[t].key = key[c] \/ (cpc[c] = "erase" /\ t = iter[c])
       /\ prefetch_success[c] \/ prediction_success[c] =>
            \A t \in todo[c] : task[t].key # key[c]
  /\ ~Scanning(c) =>
       /\ \A s, t \in prefetch_tasks[c] : task[s].key = task[t].key => s = t
       /\ \A th \in Thread : Predicting(th, c) => OnlyPredicted(c, count[th])
       /\ InGet(c) /\ Serving(c) => OnlyPredicted(c, 0)
       /\ \A t \in Task : GetBearer(c, t) /\ StateOf(t) = "in_queue" => OnlyPredicted(c, 0)

(* Why NoStrayBytes is enough.                                             *)
Strayless ==
  /\ Commands \subseteq {"get"} =>
       /\ \A t \in Task : task[t].callback.kind # "ack"
       /\ \A c \in Client : req[c].op \notin {"put", "del"}
  /\ ~MayDrop /\ ~MayInterrupt =>
       /\ ~quit
       /\ \A c \in Client :
            /\ cpc[c] \in {"free_prefetch", "free_deprecated", "free_tasks", "done"}
                 => peer[c] = "gone"
            /\ peer[c] = "gone" => Bearers(c) = {} /\ ~Unread(c) /\ ~Serving(c)

(* What the proofs go by: per connection, that it is answered in step, and *)
(* that the lists and flags of its frame are in order.                     *)
Answering(c) == OneBearer(c) /\ WireInStep(c) /\ CurrentGet(c)
InOrder(c) == Predictions(c) /\ Deprecated(c) /\ Flags(c) /\ KeysApart(c)
TasksTrue == StatesTrue /\ ExecutedWhole /\ CancelledAreSilent

AnswerInv ==
  /\ TasksTrue
  /\ Strayless
  /\ \A c \in Client : Answering(c) /\ InOrder(c)

-----------------------------------------------------------------------------
(* The keys of the predictions.                                            *)

(* % takes off D at most once from a number below 2 * D.                   *)
LEMMA ModuloOnce ==
  ASSUME NEW D \in Nat, D > 0, NEW x \in 0 .. 2 * D - 1
  PROVE  x % D = IF x < D THEN x ELSE x - D
<1> DEFINE q == x \div D
           r == x % D
<1>1. q \in Int /\ r \in 0 .. D - 1 /\ x = D * q + r
  BY SMT
<1> HIDE DEF q, r
<1>2. q = 0 \/ q = 1
  <2>1. CASE q < 0
    <3>1. D * q <= -D
      BY <2>1, <1>1
    <3> QED
      BY <3>1, <1>1
  <2>2. CASE q > 1
    <3>1. D * q >= 2 * D
      BY <2>2, <1>1
    <3> QED
      BY <3>1, <1>1
  <2> QED
    BY <2>1, <2>2, <1>1
<1>3. CASE q = 0
  BY <1>1, <1>3 DEF r
<1>4. CASE q = 1
  BY <1>1, <1>4 DEF r
<1> QED
  BY <1>2, <1>3, <1>4

(* The predictions of a key are distinct, and none of them is the key.     *)
LEMMA PredictionsApart ==
  ASSUME FewPredictions, NEW k \in Key, NEW i \in 0 .. NumPrefetch - 1
  PROVE  /\ Prediction(k, i) # k
         /\ \A j \in 0 .. i - 1 : Prediction(k, j) # Prediction(k, i)
<1> DEFINE q == DBSize \div 3
<1>1. DBSize \in Nat /\ DBSize >= 3 /\ NumPrefetch \in Nat /\ k \in 0 .. DBSize - 1
  BY ServerAssumption DEF FewPredictions, Key
<1>2. q \in Nat /\ q >= 1 /\ i + q <= DBSize - 1
  BY <1>1 DEF FewPredictions
<1> HIDE DEF q
<1>3. ASSUME NEW j \in 0 .. i
      PROVE  Prediction(k, j) = IF k + j + q < DBSize THEN k + j + q ELSE k + j + q - DBSize
  <2>1. k + j + q \in 0 .. 2 * DBSize - 1
    BY <1>1, <1>2
  <2> QED
    BY <1>1, <2>1, ModuloOnce DEF Prediction, q
<1>4. i \in 0 .. i
  BY <1>1
<1>5. Prediction(k, i) # k
  BY <1>1, <1>2, <1>3, <1>4
<1>6. ASSUME NEW j \in 0 .. i - 1 PROVE Prediction(k, j) # Prediction(k, i)
  <2>1. j \in 0 .. i
    BY <1>1
  <2> QED
    BY <1>1, <1>2, <1>3, <1>4, <2>1
<1> QED
  BY <1>5, <1>6

-----------------------------------------------------------------------------
(* What a step leaves of the invariant as it was.                          *)

LEMMA InitAnswer == Init => AnswerInv
<1> SUFFICES ASSUME Init PROVE AnswerInv
  OBVIOUS
<1>1. \A t \in Task : task[t] = Unallocated
  BY DEF Init
<1>2. TasksTrue
  BY <1>1 DEF TasksTrue, StatesTrue, ExecutedWhole, CancelledAreSilent, StateOf, Unallocated
<1>3. \A c \in Client : Bearers(c) = {} /\ ~Serving(c) /\ ~Unread(c) /\ ~Scanning(c)
  BY <1>1 DEF Init, Bearers, StateOf, Unallocated, Serving, InGet, Scanning, Unread, NoRequest
<1>4. Strayless
  BY <1>1, <1>3 DEF Init, Strayless, Unallocated, Silent, NoRequest
<1>5. ASSUME NEW c \in Client PROVE Answering(c)
  BY <1>3 DEF Init, Answering, OneBearer, WireInStep, CurrentGet, GetBearer
<1>6. ASSUME NEW c \in Client PROVE InOrder(c)
  BY <1>3 DEF Init, InOrder, Predictions, Deprecated, Flags, KeysApart, OnlyPredicted,
              InGet, Scanning
<1> QED
  BY <1>2, <1>4, <1>5, <1>6 DEF AnswerInv

(* The variables of one connection that its frame and its wire keep.       *)
FrameKept(c) ==
  /\ cpc'[c] = cpc[c] /\ key'[c] = key[c]
  /\ prefetch_tasks'[c] = prefetch_tasks[c] /\ deprecated_tasks'[c] = deprecated_tasks[c]
  /\ todo'[c] = todo[c] /\ iter'[c] = iter[c] /\ val'[c] = val[c]
  /\ prefetch_success'[c] = prefetch_success[c]
  /\ prediction_success'[c] = prediction_success[c]
  /\ response_count'[c] = response_count[c]
WireKept(c) == peer'[c] = peer[c] /\ req'[c] = req[c] /\ out'[c] = out[c]

(* A task keeps what it is for, and is not queued again.                   *)
TaskKept(t) ==
  /\ task'[t].key = task[t].key /\ task'[t].callback = task[t].callback
  /\ task'[t].operation = task[t].operation
  /\ StateOf(t)' = "in_queue" => StateOf(t) = "in_queue"

LEMMA AnsweringKept ==
  ASSUME NEW c \in Client, Answering(c), WireKept(c), Bearers(c)' = Bearers(c),
         Serving(c)' = Serving(c), Alive(c)' = Alive(c),
         key'[c] = key[c], response_count'[c] = response_count[c],
         \A t \in Bearers(c) : TaskKept(t)
  PROVE  Answering(c)'
<1>1. OneBearer(c)'
  BY DEF Answering, OneBearer, WireKept, Unread
<1>2. WireInStep(c)'
  BY DEF Answering, WireInStep, WireKept, Unread
<1>3. CurrentGet(c)'
  BY DEF Answering, CurrentGet, GetBearer, TaskKept
<1> QED
  BY <1>1, <1>2, <1>3 DEF Answering

LEMMA InOrderKept ==
  ASSUME Loops, NEW c \in Client, InOrder(c), FrameKept(c), Bearers(c)' = Bearers(c),
         \A t \in Bearers(c) \cup prefetch_tasks[c] \cup deprecated_tasks[c] : TaskKept(t),
         \A th \in Thread :
           Predicting(th, c)' /\ ~Scanning(c) => OnlyPredicted(c, count'[th])
  PROVE  InOrder(c)'
<1> USE DEF FrameKept, TaskKept
<1>1. Predictions(c)'
  BY DEF InOrder, Predictions
<1>2. Deprecated(c)'
  BY DEF InOrder, Deprecated, Loops
<1>3. Flags(c)'
  BY DEF InOrder, Flags, InGet, Scanning
<1>4. KeysApart(c)'
  <2>1. Scanning(c)' = Scanning(c) /\ InGet(c)' = InGet(c) /\ Serving(c)' = Serving(c)
    BY DEF Scanning, InGet, Serving
  <2>2. \A n : OnlyPredicted(c, n)' = OnlyPredicted(c, n)
    BY DEF OnlyPredicted, Prediction
  <2>3. \A t \in prefetch_tasks[c] : task'[t].key = task[t].key
    OBVIOUS
  <2>4. Scanning(c) =>
         /\ \A s, t \in prefetch_tasks'[c] :
              task'[s].key = key'[c] /\ task'[t].key = key'[c] => s = t
         /\ \A t \in prefetch_tasks'[c] \ todo'[c] :
              task'[t].key = key'[c] \/ (cpc'[c] = "erase" /\ t = iter'[c])
    BY <2>3 DEF InOrder, KeysApart
  <2>5. Scanning(c) => (prefetch_success[c] \/ prediction_success[c] =>
              \A t \in todo'[c] : task'[t].key # key'[c])
    BY <2>3 DEF InOrder, KeysApart, Loops, Scanning
  <2>6. ~Scanning(c) =>
          \A s, t \in prefetch_tasks'[c] : task'[s].key = task'[t].key => s = t
    BY <2>3 DEF InOrder, KeysApart
  <2>7. ~Scanning(c) /\ InGet(c) /\ Serving(c) => OnlyPredicted(c, 0)
    BY DEF InOrder, KeysApart
  <2>8. ~Scanning(c) =>
          \A t \in Task : GetBearer(c, t)' /\ StateOf(t)' = "in_queue" => OnlyPredicted(c, 0)
    BY DEF InOrder, KeysApart, GetBearer
  <2> QED
    BY <2>1, <2>2, <2>4, <2>5, <2>6, <2>7, <2>8 DEF KeysApart
<1> QED
  BY <1>1, <1>2, <1>3, <1>4 DEF InOrder

(* A step that leaves the tasks and the workers alone.                     *)
LEMMA TasksUntouched ==
  ASSUME TasksTrue, UNCHANGED <<task, task_queue, wpc, db_task>>
  PROVE  /\ TasksTrue'
         /\ \A c \in Client : Bearers(c)' = Bearers(c)
         /\ \A t \in Task : TaskKept(t)
<1>1. StatesTrue'
  BY DEF TasksTrue, StatesTrue, StateOf, Locked
<1>2. ExecutedWhole' /\ CancelledAreSilent'
  BY DEF TasksTrue, ExecutedWhole, CancelledAreSilent, StateOf
<1> QED
  BY <1>1, <1>2 DEF TasksTrue, Bearers, StateOf, TaskKept

(* A connection that a step of another one does not concern.               *)
LEMMA OthersKept ==
  ASSUME MemoryInv, AnswerInv, NEW c \in Client, FrameKept(c), WireKept(c),
         Bearers(c)' = Bearers(c),
         \A t \in Bearers(c) \cup prefetch_tasks[c] \cup deprecated_tasks[c] : TaskKept(t),
         \A th \in Thread : Predicting(th, c)' => Predicting(th, c) /\ count'[th] = count[th]
  PROVE  Answering(c)' /\ InOrder(c)'
<1>1. Answering(c)'
  <2>1. Serving(c)' = Serving(c) /\ Alive(c)' = Alive(c)
    BY DEF FrameKept, Serving, InGet, Scanning, Alive
  <2> QED
    BY <2>1, AnsweringKept DEF AnswerInv, FrameKept
<1>2. \A th \in Thread : Predicting(th, c)' /\ ~Scanning(c) => OnlyPredicted(c, count'[th])
  BY DEF AnswerInv, InOrder, KeysApart
<1> QED
  BY <1>1, <1>2, InOrderKept DEF AnswerInv, MemoryInv

(* The steps of a client change its wire only.                             *)
LEMMA WireStepAnswer ==
  ASSUME MemoryInv, AnswerInv, NEW c \in Client,
         UNCHANGED <<task, task_queue, quit, pool, frame, count>>,
         \A d \in Client \ {c} : WireKept(d),
         OneBearer(c)', WireInStep(c)', Strayless'
  PROVE  AnswerInv'
<1> USE DEF pool, frame, lists, scan
<1>1. /\ TasksTrue'
      /\ \A d \in Client : Bearers(d)' = Bearers(d)
      /\ \A t \in Task : TaskKept(t)
  BY TasksUntouched DEF AnswerInv
<1>2. \A d \in Client : FrameKept(d) /\ prefetch_tasks[d] \cup deprecated_tasks[d] \subseteq Task
  BY DEF FrameKept, MemoryInv, TypeOK
<1>3. \A d \in Client : Bearers(d) \subseteq Task
  BY DEF Bearers
<1>4. \A th \in Thread, d \in Client :
        Predicting(th, d)' => Predicting(th, d) /\ count'[th] = count[th]
  BY <1>1 DEF Predicting, GetBearer
<1>5. ASSUME NEW d \in Client \ {c} PROVE Answering(d)' /\ InOrder(d)'
  BY <1>1, <1>2, <1>3, <1>4, OthersKept
<1>6. InOrder(c)'
  <2>1. \A th \in Thread : Predicting(th, c)' /\ ~Scanning(c) => OnlyPredicted(c, count'[th])
    BY <1>4 DEF AnswerInv, InOrder, KeysApart
  <2> QED
    BY <1>1, <1>2, <1>3, <2>1, InOrderKept DEF AnswerInv, MemoryInv
<1>7. CurrentGet(c)'
  BY <1>1 DEF AnswerInv, Answering, CurrentGet, GetBearer, Serving, InGet, Scanning
<1> QED
  BY <1>1, <1>5, <1>6, <1>7 DEF AnswerInv, Answering

LEMMA PeerStepAnswer ==
  ASSUME MemoryInv, AnswerInv, NEW c \in Client, PeerStep(c) PROVE AnswerInv'
<1> USE DEF wire
<1>a. TypeOK /\ OneBearer(c) /\ WireInStep(c) /\ Strayless
  BY DEF MemoryInv, AnswerInv, Answering
<1>b. UNCHANGED <<task, task_queue, quit, pool, frame, count>>
  BY DEF PeerStep, SendRequest, ReadResponse, SendQuit, Drop, ReadEnd
<1>c. \A d \in Client \ {c} : WireKept(d)
  BY <1>a DEF PeerStep, SendRequest, ReadResponse, SendQuit, Drop, ReadEnd, WireKept, TypeOK
<1>d. /\ Bearers(c)' = Bearers(c) /\ Serving(c)' = Serving(c) /\ Alive(c)' = Alive(c)
      /\ \A d \in Client \ {c} :
           Bearers(d)' = Bearers(d) /\ Serving(d)' = Serving(d) /\ Unread(d)' = Unread(d)
  BY <1>b, <1>c DEF Bearers, Serving, InGet, Scanning, Alive, StateOf, Unread, WireKept,
                    pool, frame, lists, scan
<1>1. CASE SendRequest(c)
  <2>1. PICK op \in Commands, k \in Asked : req' = [req EXCEPT ![c] = [op |-> op, key |-> k]]
    BY <1>1 DEF SendRequest
  <2>2. /\ peer[c] = "idle" /\ ~Unread(c) /\ peer'[c] = "waiting" /\ out'[c] = out[c]
        /\ req'[c].op = op /\ req'[c].op \in {"get", "put", "del"}
    BY <1>1, <1>a, <2>1, ServerAssumption DEF SendRequest, TypeOK, Unread, NoRequest
  <2>3. OneBearer(c)' /\ WireInStep(c)'
    BY <1>a, <1>d, <2>2 DEF OneBearer, WireInStep, Unread, TypeOK
  <2>4. Strayless'
    BY <1>a, <1>b, <1>c, <1>d, <2>2 DEF Strayless, WireKept, frame
  <2> QED
    BY <1>b, <1>c, <2>3, <2>4, WireStepAnswer
<1>2. CASE ReadResponse(c)
  <2>1. /\ peer'[c] = "idle" /\ out'[c] = out[c] - 1 /\ out[c] \in Nat /\ out[c] > 0
        /\ req'[c] = req[c]
    BY <1>2, <1>a DEF ReadResponse, TypeOK
  <2>2. OneBearer(c)' /\ WireInStep(c)'
    BY <1>a, <1>d, <2>1 DEF OneBearer, WireInStep, Unread
  <2>3. Strayless'
    BY <1>2, <1>a, <1>b, <1>c, <1>d, <2>1 DEF ReadResponse, Strayless, WireKept, frame, Unread
  <2> QED
    BY <1>b, <1>c, <2>2, <2>3, WireStepAnswer
<1>3. CASE SendQuit(c)
  <2>1. /\ peer[c] = "idle" /\ peer'[c] = "gone" /\ out'[c] = 0
        /\ req'[c] = Quit /\ req[c] = NoRequest
    BY <1>3, <1>a DEF SendQuit, TypeOK
  <2>2. OneBearer(c)' /\ WireInStep(c)'
    BY <1>a, <1>d, <2>1 DEF OneBearer, WireInStep, Unread, Quit, NoRequest
  <2>3. Strayless'
    BY <1>a, <1>b, <1>c, <1>d, <2>1 DEF Strayless, OneBearer, WireKept, frame, Unread, Quit
  <2> QED
    BY <1>b, <1>c, <2>2, <2>3, WireStepAnswer
<1>4. CASE Drop(c)
  <2>1. peer'[c] = "gone" /\ out'[c] = 0 /\ req'[c] = req[c] /\ MayDrop
    BY <1>4, <1>a DEF Drop, TypeOK
  <2>2. OneBearer(c)' /\ WireInStep(c)'
    BY <1>a, <1>d, <2>1 DEF OneBearer, WireInStep, Unread
  <2>3. Strayless'
    BY <1>a, <1>b, <1>c, <2>1 DEF Strayless, WireKept, frame
  <2> QED
    BY <1>b, <1>c, <2>2, <2>3, WireStepAnswer
<1>5. CASE ReadEnd(c)
  <2>1. /\ peer[c] = "waiting" /\ peer'[c] = "gone" /\ cpc[c] = "done"
        /\ out'[c] = 0 /\ req'[c] = req[c]
    BY <1>5, <1>a DEF ReadEnd, TypeOK, Alive
  <2>2. OneBearer(c)' /\ WireInStep(c)'
    BY <1>a, <1>d, <2>1 DEF OneBearer, WireInStep, Unread
  <2>3. Strayless'
    BY <1>a, <1>b, <1>c, <2>1 DEF Strayless, WireKept, frame
  <2> QED
    BY <1>b, <1>c, <2>2, <2>3, WireStepAnswer
<1> QED
  BY <1>1, <1>2, <1>3, <1>4, <1>5 DEF PeerStep

-----------------------------------------------------------------------------
(* The steps of a serving thread.                                          *)

(* What they are to the other connections.                                 *)
LEMMA OthersOfServe ==
  ASSUME MemoryInv, AnswerInv, NEW c \in Client,
         UNCHANGED <<wpc, db_task>>,
         \A th \in Thread \ {c} : count'[th] = count[th],
         \A d \in Client \ {c} :
           /\ FrameKept(d) /\ WireKept(d) /\ Bearers(d)' = Bearers(d)
           /\ \A t \in Bearers(d) \cup prefetch_tasks[d] \cup deprecated_tasks[d] : TaskKept(t)
  PROVE  \A d \in Client \ {c} : Answering(d)' /\ InOrder(d)'
<1> TAKE d \in Client \ {c}
<1>1. ASSUME NEW th \in Thread, Predicting(th, d)'
      PROVE  Predicting(th, d) /\ count'[th] = count[th]
  <2>1. th # c
    BY <1>1, ServerAssumption DEF Predicting
  <2>2. Predicting(th, d)
    BY <1>1 DEF Predicting, FrameKept, GetBearer, TaskKept
  <2> QED
    BY <2>1, <2>2
<1> QED
  BY <1>1, OthersKept

(* A step that moves the thread on, and touches no task.                   *)
LEMMA MoveAnswer ==
  ASSUME MemoryInv, AnswerInv, NEW c \in Client,
         UNCHANGED <<task, task_queue, wpc, db_task>>,
         \A th \in Thread \ {c} : count'[th] = count[th],
         \A d \in Client \ {c} : FrameKept(d) /\ WireKept(d),
         Bearers(c)' = Bearers(c) /\ (\A t \in Task : TaskKept(t)) =>
            Strayless' /\ Answering(c)' /\ InOrder(c)'
  PROVE  AnswerInv'
<1>1. /\ TasksTrue'
      /\ \A d \in Client : Bearers(d)' = Bearers(d)
      /\ \A t \in Task : TaskKept(t)
  BY TasksUntouched DEF AnswerInv
<1>2. \A d \in Client : Bearers(d) \cup prefetch_tasks[d] \cup deprecated_tasks[d] \subseteq Task
  BY DEF Bearers, MemoryInv, TypeOK
<1>3. \A d \in Client \ {c} : Answering(d)' /\ InOrder(d)'
  BY <1>1, <1>2, OthersOfServe
<1> QED
  BY <1>1, <1>3 DEF AnswerInv

(* The current get stays what it was, whatever happens to the lists.       *)
LEMMA GetGoesOn ==
  ASSUME NEW c \in Client, Answering(c), UNCHANGED <<task, req, out, peer, key, response_count>>,
         Bearers(c)' = Bearers(c), Serving(c)' = Serving(c), Alive(c)' = Alive(c)
  PROVE  Answering(c)'
<1>1. WireKept(c) /\ \A t \in Bearers(c) : TaskKept(t)
  BY DEF WireKept, TaskKept, StateOf
<1> QED
  BY <1>1, AnsweringKept

(* The same of why no byte goes astray.                                    *)
LEMMA StraylessKept ==
  ASSUME Strayless, NEW c \in Client, UNCHANGED <<task, req, peer, quit>>,
         \A d \in Client : Bearers(d)' = Bearers(d),
         \A d \in Client \ {c} : Serving(d)' = Serving(d) /\ cpc'[d] = cpc[d],
         Serving(c)' => Serving(c),
         cpc'[c] \in {"free_prefetch", "free_deprecated", "free_tasks", "done"} =>
           cpc[c] \in {"free_prefetch", "free_deprecated", "free_tasks", "done"}
  PROVE  Strayless'
  BY DEF Strayless, Unread

(* The thread goes on with prefetch_or_submit, and touches no task.        *)
LEMMA ScanMoveAnswer ==
  ASSUME MemoryInv, AnswerInv, NEW c \in Client, InGet(c), InGet(c)',
         UNCHANGED <<task, task_queue, wpc, db_task, wire, quit, key, response_count,
                     prediction_success, count>>,
         \A d \in Client \ {c} : FrameKept(d),
         InOrder(c)'
  PROVE  AnswerInv'
<1> USE DEF wire
<1>1. Serving(c)' = Serving(c) /\ Alive(c)' = Alive(c)
  BY DEF Serving, InGet, Scanning, Alive
<1>2. \A d \in Client \ {c} : FrameKept(d) /\ WireKept(d)
  BY DEF WireKept
<1>3. \A d \in Client \ {c} : Serving(d)' = Serving(d) /\ cpc'[d] = cpc[d]
  BY DEF FrameKept, Serving, InGet, Scanning
<1>4. \A d \in Client : Bearers(d)' = Bearers(d)
  BY TasksUntouched DEF AnswerInv
<1>5. Answering(c)'
  BY <1>1, <1>4, GetGoesOn DEF AnswerInv
<1>6. Strayless'
  BY <1>1, <1>3, <1>4, StraylessKept DEF AnswerInv, InGet, Scanning
<1> QED
  BY <1>2, <1>5, <1>6, MoveAnswer

LEMMA SkipOtherAnswer ==
  ASSUME MemoryInv, AnswerInv, NEW c \in Client, SkipOther(c) PROVE AnswerInv'
<1> DEFINE t == First(todo[c])
<1> USE DEF pool, lists, scan, Goto
<1>a. TypeOK /\ Loops /\ InOrder(c) /\ Answering(c)
  BY DEF MemoryInv, AnswerInv
<1>1. /\ t \in todo[c] /\ t \in prefetch_tasks[c] /\ t \in Task
      /\ task[t].key # key[c] /\ cpc[c] = "scan" /\ cpc'[c] = "erase"
      /\ iter'[c] = t /\ todo'[c] = todo[c] \ {t}
  BY <1>a, FirstIn DEF SkipOther, TypeOK, Loops
<1>2. /\ UNCHANGED <<task, task_queue, wpc, db_task, wire, quit, key, response_count, lists,
                     prediction_success, prefetch_success, val, count>>
      /\ \A d \in Client \ {c} : FrameKept(d)
  BY <1>a DEF SkipOther, FrameKept, TypeOK
<1> HIDE DEF t
<1>3. InGet(c) /\ InGet(c)' /\ Scanning(c) /\ Scanning(c)'
  BY <1>1 DEF InGet, Scanning
<1>4. StateOf(t) = "in_queue" => task[t].callback = Silent
  <2> SUFFICES ASSUME StateOf(t) = "in_queue", task[t].callback # Silent PROVE FALSE
    OBVIOUS
  <2>1. task[t].callback = [kind |-> "get", frame |-> c]
    BY <1>a, <1>1 DEF InOrder, Predictions
  <2>2. \A w \in Worker : db_task[w] = t => wpc[w] # "finish"
    BY <1>1 DEF MemoryInv, HeldTasks
  <2>3. GetBearer(c, t)
    BY <1>1, <2>1, <2>2 DEF GetBearer, Bearers
  <2> QED
    BY <1>a, <1>1, <2>3 DEF Answering, CurrentGet
<1>5. Predictions(c)' /\ Deprecated(c)' /\ Flags(c)'
  BY <1>a, <1>1, <1>2, <1>3, <1>4 DEF InOrder, Predictions, Deprecated, Flags, StateOf
<1>6. KeysApart(c)'
  BY <1>a, <1>1, <1>2, <1>3 DEF InOrder, KeysApart
<1> QED
  BY <1>2, <1>3, <1>5, <1>6, ScanMoveAnswer DEF InOrder

LEMMA RecheckAnswer ==
  ASSUME MemoryInv, AnswerInv, NEW c \in Client, Recheck(c) PROVE AnswerInv'
<1> USE DEF pool, lists, scan, Goto
<1>a. TypeOK /\ Loops /\ InOrder(c)
  BY DEF MemoryInv, AnswerInv
<1>1. /\ cpc[c] = "recheck" /\ iter[c] \in prefetch_tasks[c] \ todo[c]
      /\ cpc'[c] = IF Completed(iter[c]) THEN "erase" ELSE "scan"
  BY <1>a DEF Recheck, TypeOK, Loops
<1>2. /\ UNCHANGED <<task, task_queue, wpc, db_task, wire, quit, key, response_count, lists,
                     todo, iter, prediction_success, prefetch_success, val, count>>
      /\ \A d \in Client \ {c} : FrameKept(d)
  BY <1>a DEF Recheck, FrameKept, TypeOK
<1>3. InGet(c) /\ InGet(c)' /\ Scanning(c) /\ Scanning(c)'
  BY <1>1 DEF InGet, Scanning
<1>4. Predictions(c)' /\ Deprecated(c)' /\ Flags(c)'
  BY <1>a, <1>1, <1>2, <1>3 DEF InOrder, Predictions, Deprecated, Flags, StateOf, Completed
<1>5. KeysApart(c)'
  BY <1>a, <1>1, <1>2, <1>3 DEF InOrder, KeysApart
<1> QED
  BY <1>2, <1>3, <1>4, <1>5, ScanMoveAnswer DEF InOrder

LEMMA EraseAnswer ==
  ASSUME MemoryInv, AnswerInv, NEW c \in Client, Erase(c) PROVE AnswerInv'
<1> USE DEF pool, lists, scan, Goto
<1>a. TypeOK /\ Loops /\ InOrder(c)
  BY DEF MemoryInv, AnswerInv
<1>1. /\ cpc[c] = "erase" /\ iter[c] \in prefetch_tasks[c] \ todo[c] /\ cpc'[c] = "scan"
      /\ prefetch_tasks'[c] = prefetch_tasks[c] \ {iter[c]}
      /\ deprecated_tasks'[c] = deprecated_tasks[c] \cup {iter[c]}
  BY <1>a DEF Erase, Unlink, TypeOK, Loops
<1>2. /\ UNCHANGED <<task, task_queue, wpc, db_task, wire, quit, key, response_count,
                     todo, iter, prediction_success, prefetch_success, val, count>>
      /\ \A d \in Client \ {c} : FrameKept(d)
  BY <1>a DEF Erase, FrameKept, TypeOK
<1>3. InGet(c) /\ InGet(c)' /\ Scanning(c) /\ Scanning(c)'
  BY <1>1 DEF InGet, Scanning
<1>4. Predictions(c)' /\ Deprecated(c)' /\ Flags(c)'
  BY <1>a, <1>1, <1>2, <1>3 DEF InOrder, Predictions, Deprecated, Flags, StateOf
<1>5. KeysApart(c)'
  BY <1>a, <1>1, <1>2, <1>3 DEF InOrder, KeysApart
<1> QED
  BY <1>2, <1>3, <1>4, <1>5, ScanMoveAnswer DEF InOrder

(* What is left on the list after the scan is the prediction it found.     *)
LEMMA EndScanAnswer ==
  ASSUME MemoryInv, AnswerInv, NEW c \in Client, EndScan(c) PROVE AnswerInv'
<1> USE DEF pool, lists, scan, Goto
<1>a. TypeOK /\ InOrder(c)
  BY DEF MemoryInv, AnswerInv
<1>1. cpc[c] = "scan" /\ todo[c] = {} /\ cpc'[c] = "reap"
  BY <1>a DEF EndScan, TypeOK
<1>2. /\ UNCHANGED <<task, task_queue, wpc, db_task, wire, quit, key, response_count, lists,
                     iter, prediction_success, prefetch_success, val, count>>
      /\ \A d \in Client \ {c} : FrameKept(d)
  BY <1>a DEF EndScan, FrameKept, TypeOK
<1>3. InGet(c) /\ InGet(c)' /\ Scanning(c) /\ ~Scanning(c)'
  BY <1>1 DEF InGet, Scanning
<1>4. Predictions(c)' /\ Deprecated(c)' /\ Flags(c)'
  BY <1>a, <1>1, <1>2, <1>3 DEF InOrder, Predictions, Deprecated, Flags, StateOf
<1>5. KeysApart(c)'
  <2>1. \A t \in prefetch_tasks[c] : task[t].key = key[c]
    BY <1>a, <1>1, <1>3 DEF InOrder, KeysApart
  <2>2. \A n : OnlyPredicted(c, n)'
    BY <1>2, <2>1 DEF OnlyPredicted
  <2>3. \A s, t \in prefetch_tasks[c] : s = t
    BY <1>a, <1>3, <2>1 DEF InOrder, KeysApart
  <2> QED
    BY <1>2, <1>3, <2>2, <2>3 DEF KeysApart
<1> QED
  BY <1>2, <1>3, <1>4, <1>5, ScanMoveAnswer DEF InOrder

LEMMA EndReapAnswer ==
  ASSUME MemoryInv, AnswerInv, NEW c \in Client, EndReap(c) PROVE AnswerInv'
<1> USE DEF pool, lists, scan, Goto
<1>a. TypeOK /\ InOrder(c)
  BY DEF MemoryInv, AnswerInv
<1>1. cpc[c] = "reap" /\ cpc'[c] = "sweep"
  BY <1>a DEF EndReap, TypeOK
<1>2. /\ UNCHANGED <<task, task_queue, wpc, db_task, wire, quit, key, response_count, lists,
                     iter, prediction_success, prefetch_success, val, count>>
      /\ \A d \in Client \ {c} : FrameKept(d)
  BY <1>a DEF EndReap, FrameKept, TypeOK
<1>3. InGet(c) /\ InGet(c)' /\ ~Scanning(c) /\ ~Scanning(c)'
  BY <1>1 DEF InGet, Scanning
<1>4. Predictions(c)' /\ Deprecated(c)' /\ Flags(c)'
  BY <1>a, <1>1, <1>2, <1>3 DEF InOrder, Predictions, Deprecated, Flags, StateOf
<1>5. KeysApart(c)'
  BY <1>a, <1>1, <1>2, <1>3
     DEF InOrder, KeysApart, OnlyPredicted, Prediction, Predicting, GetBearer, Bearers, StateOf,
         Serving
<1> QED
  BY <1>2, <1>3, <1>4, <1>5, ScanMoveAnswer DEF InOrder

-----------------------------------------------------------------------------
(* Around prefetch_or_submit the thread only moves on and deletes tasks.   *)

Around(c) == cpc[c] \in {"loop", "read", "free_prefetch", "free_deprecated", "free_tasks", "done"}
Ended(c) == cpc[c] \in {"free_prefetch", "free_deprecated", "free_tasks", "done"}

(* Deleting a task that is over concerns no get, and no other list.        *)
LEMMA TaskDeleted ==
  ASSUME MemoryInv, TasksTrue, NEW c \in Client, NEW t \in Listed(c),
         StateOf(t) = "detached", task' = [task EXCEPT ![t] = Unallocated],
         UNCHANGED <<task_queue, wpc, db_task>>
  PROVE  /\ TasksTrue'
         /\ \A d \in Client : Bearers(d)' = Bearers(d) /\ t \notin Bearers(d)
         /\ \A u \in Task \ {t} : task'[u] = task[u]
         /\ \A u \in Task : task'[u].callback \in {task[u].callback, Silent}
<1>a. TypeOK
  BY DEF MemoryInv
<1>1. t \in Task /\ task'[t] = Unallocated /\ \A u \in Task \ {t} : task'[u] = task[u]
  BY <1>a DEF Listed, TypeOK
<1>2. /\ Unallocated.task_state = "free" /\ Unallocated.operation = "noop"
      /\ Unallocated.callback = Silent
  BY DEF Unallocated
<1>3. TasksTrue'
  BY <1>1, <1>2 DEF TasksTrue, StatesTrue, ExecutedWhole, CancelledAreSilent, StateOf, Locked
<1>4. \A d \in Client : Bearers(d)' = Bearers(d) /\ t \notin Bearers(d)
  BY <1>1, <1>2 DEF Bearers, StateOf
<1> QED
  BY <1>1, <1>2, <1>3, <1>4

LEMMA AroundAnswer ==
  ASSUME MemoryInv, AnswerInv, NEW c \in Client, Around(c), Around(c)',
         UNCHANGED <<wpc, db_task, peer, out, quit, key, response_count, prefetch_success,
                     prediction_success, count>>,
         TasksTrue', \A d \in Client : Bearers(d)' = Bearers(d),
         \A d \in Client :
           \A t \in Bearers(d) \cup prefetch_tasks'[d] \cup deprecated_tasks'[d] : task'[t] = task[t],
         \A t \in Task : task'[t].callback \in {task[t].callback, Silent},
         prefetch_tasks'[c] \subseteq prefetch_tasks[c],
         deprecated_tasks'[c] \subseteq deprecated_tasks[c],
         \A d \in Client \ {c} : FrameKept(d) /\ req'[d] = req[d],
         req'[c] = req[c] \/ (~Unread(c) /\ req'[c] = NoRequest),
         Alive(c)' => Alive(c),
         Ended(c)' => Ended(c) \/ quit \/ peer[c] = "gone"
  PROVE  AnswerInv'
<1>a. Answering(c) /\ InOrder(c) /\ Strayless
  BY DEF AnswerInv
<1>1. /\ ~InGet(c) /\ ~InGet(c)' /\ ~Serving(c) /\ ~Serving(c)' /\ ~Scanning(c) /\ ~Scanning(c)'
      /\ cpc'[c] \notin {"erase", "cancel", "prefetch"} /\ cpc[c] # "prefetch"
  BY DEF Around, InGet, Scanning, Serving
<1>2. Unread(c)' = Unread(c)
  BY DEF Unread, NoRequest
<1>3. Answering(c)'
  <2>1. OneBearer(c)'
    BY <1>a, <1>1, <1>2 DEF Answering, OneBearer
  <2>2. WireInStep(c)'
    BY <1>a, <1>2 DEF Answering, WireInStep
  <2>3. CurrentGet(c)'
    BY <1>a, <1>1 DEF Answering, CurrentGet, GetBearer
  <2> QED
    BY <2>1, <2>2, <2>3 DEF Answering
<1>4. InOrder(c)'
  <2>1. Predictions(c)' /\ Deprecated(c)' /\ Flags(c)'
    BY <1>a, <1>1 DEF InOrder, Predictions, Deprecated, Flags, StateOf
  <2>2. \A s, t \in prefetch_tasks'[c] : task'[s].key = task'[t].key => s = t
    BY <1>a, <1>1 DEF InOrder, KeysApart
  <2>3. \A th \in Thread : Predicting(th, c)' => Predicting(th, c)
    BY <1>1 DEF Predicting, GetBearer
  <2>4. \A n : OnlyPredicted(c, n) => OnlyPredicted(c, n)'
    BY DEF OnlyPredicted, Prediction
  <2>5. \A t \in Task : GetBearer(c, t)' /\ StateOf(t)' = "in_queue" => OnlyPredicted(c, 0)
    BY <1>a, <1>1 DEF InOrder, KeysApart, GetBearer, StateOf
  <2>6. \A th \in Thread : Predicting(th, c)' => OnlyPredicted(c, count[th])'
    BY <1>a, <1>1, <2>3, <2>4 DEF InOrder, KeysApart
  <2>7. KeysApart(c)'
    BY <1>1, <2>2, <2>4, <2>5, <2>6 DEF KeysApart
  <2> QED
    BY <2>1, <2>7 DEF InOrder
<1>5. \A d \in Client \ {c} : Answering(d)' /\ InOrder(d)'
  <2>1. \A d \in Client \ {c} :
          /\ FrameKept(d) /\ WireKept(d) /\ Bearers(d)' = Bearers(d)
          /\ \A t \in Bearers(d) \cup prefetch_tasks[d] \cup deprecated_tasks[d] : TaskKept(t)
    BY DEF WireKept, FrameKept, TaskKept, StateOf
  <2> QED
    BY <2>1, OthersOfServe
<1>6. Strayless'
  <2>1. \A d \in Client \ {c} : Serving(d)' = Serving(d) /\ cpc'[d] = cpc[d]
    BY DEF FrameKept, Serving, InGet, Scanning
  <2>2. \A t \in Task : task[t].callback.kind # "ack" => task'[t].callback.kind # "ack"
    BY DEF Silent
  <2>3. \A d \in Client : req[d].op \notin {"put", "del"} => req'[d].op \notin {"put", "del"}
    BY <1>2 DEF Unread, NoRequest
  <2>4. \A d \in Client : Unread(d)' = Unread(d)
    BY <1>2 DEF Unread
  <2> QED
    BY <1>a, <1>1, <2>1, <2>2, <2>3, <2>4 DEF Strayless, Ended
<1> QED
  BY <1>3, <1>4, <1>5, <1>6 DEF AnswerInv

LEMMA AroundStepAnswer ==
  ASSUME MemoryInv, AnswerInv, NEW c \in Client,
         CheckQuit(c) \/ ReadQuit(c) \/ NextList(c) \/ Return(c)
  PROVE  AnswerInv'
<1> USE DEF wire, pool, lists, scan, Goto
<1>a. TypeOK /\ WireInStep(c)
  BY DEF MemoryInv, AnswerInv, Answering
<1>1. UNCHANGED <<task, task_queue, wpc, db_task, peer, out, quit, key, response_count,
                  prefetch_success, prediction_success, count>>
  BY DEF CheckQuit, ReadQuit, NextList, Return
<1>2. /\ TasksTrue'
      /\ \A d \in Client : Bearers(d)' = Bearers(d)
  BY <1>1, TasksUntouched DEF AnswerInv
<1>3. \A d \in Client \ {c} : FrameKept(d) /\ req'[d] = req[d]
  BY <1>a DEF CheckQuit, ReadQuit, NextList, Return, FrameKept, TypeOK
<1>4. /\ prefetch_tasks'[c] \subseteq prefetch_tasks[c]
      /\ deprecated_tasks'[c] \subseteq deprecated_tasks[c]
  BY <1>a DEF CheckQuit, ReadQuit, NextList, Return, TypeOK
<1>5. Around(c) /\ Around(c)' /\ Alive(c)
  BY <1>a DEF CheckQuit, ReadQuit, NextList, Return, TypeOK, Around, Alive
<1>6. req'[c] = req[c] \/ (~Unread(c) /\ req'[c] = NoRequest)
  BY <1>a DEF CheckQuit, ReadQuit, NextList, Return, TypeOK, Unread, Quit, NoRequest
<1>7. Ended(c)' => Ended(c) \/ quit \/ peer[c] = "gone"
  BY <1>a DEF CheckQuit, ReadQuit, NextList, Return, TypeOK, Ended, WireInStep, Unread, Quit,
              NoRequest
<1> QED
  BY <1>1, <1>2, <1>3, <1>4, <1>5, <1>6, <1>7, AroundAnswer

LEMMA DeleteTaskAnswer ==
  ASSUME MemoryInv, AnswerInv, NEW c \in Client, DeleteTask(c) PROVE AnswerInv'
<1> USE DEF wire, pool, lists, scan
<1>a. TypeOK
  BY DEF MemoryInv
<1>1. PICK t :
        /\ t \in Listed(c) /\ StateOf(t) = "detached"
        /\ task' = [task EXCEPT ![t] = Unallocated]
        /\ \/ /\ t \in prefetch_tasks[c]
              /\ prefetch_tasks' = [prefetch_tasks EXCEPT ![c] = @ \ {t}]
              /\ UNCHANGED <<deprecated_tasks, tasks>>
           \/ /\ t \in deprecated_tasks[c]
              /\ deprecated_tasks' = [deprecated_tasks EXCEPT ![c] = @ \ {t}]
              /\ UNCHANGED <<prefetch_tasks, tasks>>
           \/ /\ t \in tasks[c]
              /\ tasks' = [tasks EXCEPT ![c] = @ \ {t}]
              /\ UNCHANGED <<prefetch_tasks, deprecated_tasks>>
  BY FirstIn DEF DeleteTask, DeleteFirst, Deletable, Listed
<1>2. UNCHANGED <<task_queue, wpc, db_task, cpc, wire, quit, key, response_count, scan, count>>
  BY DEF DeleteTask
<1>3. /\ TasksTrue'
      /\ \A d \in Client : Bearers(d)' = Bearers(d) /\ t \notin Bearers(d)
      /\ \A u \in Task \ {t} : task'[u] = task[u]
      /\ \A u \in Task : task'[u].callback \in {task[u].callback, Silent}
  BY <1>1, <1>2, TaskDeleted DEF AnswerInv
<1>4. \A d \in Client : t \notin prefetch_tasks'[d] \cup deprecated_tasks'[d]
  <2>1. \A d \in Client \ {c} : t \notin prefetch_tasks[d] \cup deprecated_tasks[d]
    BY <1>1, OneList DEF Listed
  <2>2. /\ t \in prefetch_tasks[c] => t \notin deprecated_tasks[c]
        /\ t \in tasks[c] => t \notin prefetch_tasks[c] \cup deprecated_tasks[c]
    BY <1>1, OneList
  <2> QED
    BY <1>a, <1>1, <2>1, <2>2 DEF TypeOK
<1>5. \A d \in Client :
        /\ prefetch_tasks'[d] \subseteq prefetch_tasks[d] /\ prefetch_tasks[d] \subseteq Task
        /\ deprecated_tasks'[d] \subseteq deprecated_tasks[d] /\ deprecated_tasks[d] \subseteq Task
        /\ Bearers(d) \subseteq Task
  BY <1>a, <1>1 DEF TypeOK, Bearers
<1>6. \A d \in Client :
        \A u \in Bearers(d) \cup prefetch_tasks'[d] \cup deprecated_tasks'[d] : task'[u] = task[u]
  BY <1>3, <1>4, <1>5
<1>7. \A d \in Client \ {c} : FrameKept(d) /\ req'[d] = req[d]
  BY <1>a, <1>1, <1>2 DEF FrameKept, TypeOK
<1>8. Around(c) /\ Around(c)' /\ Alive(c) /\ Ended(c)
  BY <1>2 DEF DeleteTask, Around, Alive, Ended
<1> QED
  BY <1>2, <1>3, <1>5, <1>6, <1>7, <1>8, AroundAnswer

-----------------------------------------------------------------------------
(* A get is read, and its key looked for among the predictions.            *)

LEMMA ReadGetAnswer ==
  ASSUME MemoryInv, AnswerInv, NEW c \in Client, ReadGet(c) PROVE AnswerInv'
<1> USE DEF wire, pool, lists, scan, Goto
<1>a. TypeOK /\ Answering(c) /\ InOrder(c) /\ Strayless
  BY DEF MemoryInv, AnswerInv
<1>1. /\ cpc[c] = "read" /\ cpc'[c] = "scan" /\ req[c].op = "get" /\ req'[c] = NoRequest
      /\ response_count'[c] = 0 /\ todo'[c] = prefetch_tasks[c]
  BY <1>a DEF ReadGet, TypeOK
<1>2. UNCHANGED <<task, task_queue, wpc, db_task, peer, out, quit, lists, iter,
                  prefetch_success, prediction_success, val, count>>
  BY DEF ReadGet
<1>3. \A d \in Client \ {c} : FrameKept(d) /\ WireKept(d)
  BY <1>a DEF ReadGet, FrameKept, WireKept, TypeOK
<1>4. /\ Unread(c) /\ ~Unread(c)' /\ ~InGet(c) /\ InGet(c)' /\ Scanning(c)' /\ ~Scanning(c)
      /\ cpc'[c] \notin {"erase", "cancel", "prefetch"} /\ Serving(c)'
      /\ Alive(c) /\ Alive(c)'
  BY <1>a, <1>1, <1>2 DEF Unread, InGet, Scanning, Serving, NoRequest, InOrder, Flags, Alive
<1>5. Bearers(c) = {}
  BY <1>a, <1>4 DEF Answering, OneBearer
<1>6. ASSUME Bearers(c)' = Bearers(c) PROVE Answering(c)' /\ InOrder(c)'
  <2>1. OneBearer(c)'
    BY <1>a, <1>2, <1>4, <1>5, <1>6 DEF Answering, OneBearer
  <2>2. WireInStep(c)'
    BY <1>a, <1>1, <1>2 DEF Answering, WireInStep
  <2>3. CurrentGet(c)'
    BY <1>1, <1>5, <1>6 DEF CurrentGet, GetBearer
  <2>4. Predictions(c)' /\ Deprecated(c)' /\ Flags(c)'
    BY <1>a, <1>2, <1>4 DEF InOrder, Predictions, Deprecated, Flags, StateOf
  <2>5. KeysApart(c)'
    BY <1>a, <1>1, <1>2, <1>4 DEF InOrder, KeysApart, Flags
  <2> QED
    BY <2>1, <2>2, <2>3, <2>4, <2>5 DEF Answering, InOrder
<1>7. Strayless'
  <2>1. \A d \in Client : Bearers(d)' = Bearers(d)
    BY <1>2 DEF Bearers, StateOf
  <2>2. \A d \in Client \ {c} : Serving(d)' = Serving(d) /\ cpc'[d] = cpc[d] /\ Unread(d)' = Unread(d)
    BY <1>3 DEF FrameKept, WireKept, Serving, InGet, Scanning, Unread
  <2> QED
    BY <1>a, <1>1, <1>2, <1>3, <1>4, <2>1, <2>2 DEF Strayless, NoRequest, WireKept
<1> QED
  BY <1>2, <1>3, <1>6, <1>7, MoveAnswer

(* The value was fetched already, or the prediction is left the callback.  *)
LEMMA MatchKeyAnswer ==
  ASSUME MemoryInv, AnswerInv, NEW c \in Client, MatchKey(c) PROVE AnswerInv'
<1> DEFINE t == First(todo[c])
           get == [kind |-> "get", frame |-> c]
<1> USE DEF wire, pool, lists, scan, Goto
<1>a. TypeOK /\ Loops /\ Answering(c) /\ InOrder(c) /\ Strayless
  BY DEF MemoryInv, AnswerInv
<1>1. /\ cpc[c] = "scan" /\ t \in todo[c] /\ t \in prefetch_tasks[c] /\ t \in Task
      /\ task[t].key = key[c] /\ ~Locked(t)
      /\ cpc'[c] = "recheck" /\ iter'[c] = t /\ todo'[c] = todo[c] \ {t}
  BY <1>a, FirstIn DEF MatchKey, TypeOK, Loops
<1>2. UNCHANGED <<task_queue, wpc, db_task, wire, quit, key, response_count, lists, count>>
  BY DEF MatchKey
<1>3. \A d \in Client \ {c} : FrameKept(d) /\ WireKept(d)
  BY <1>a DEF MatchKey, FrameKept, WireKept, TypeOK
<1>4. /\ Scanning(c) /\ InGet(c) /\ Scanning(c)' /\ InGet(c)' /\ Alive(c)' = Alive(c)
      /\ Unread(c)' = Unread(c)
  BY <1>1, <1>2 DEF Scanning, InGet, Alive, Unread
<1>5. /\ ~prefetch_success[c] /\ ~prediction_success[c] /\ Serving(c)
      /\ Bearers(c) = {} /\ response_count[c] = 0
  BY <1>a, <1>1, <1>4 DEF InOrder, KeysApart, Serving, Answering, OneBearer, CurrentGet
<1>6. /\ task[t].operation = "fetch" /\ task[t].callback \in {Silent, get}
      /\ StateOf(t) \in {"in_queue", "processing", "finished", "detached"}
      /\ StateOf(t) # "processing"
  <2>1. StateOf(t) # "free"
    BY <1>1 DEF MemoryInv, ListedTasks, Listed
  <2> QED
    BY <1>a, <1>1, <2>1
       DEF AnswerInv, TasksTrue, StatesTrue, InOrder, Predictions, TypeOK, TaskRecord, StateOf
<1>7. task[t].callback = Silent \/ Completed(t)
  <2> SUFFICES ASSUME task[t].callback = get, StateOf(t) = "in_queue" PROVE FALSE
    BY <1>6 DEF Completed
  <2>1. \A w \in Worker : db_task[w] = t => wpc[w] # "finish"
    BY <1>1 DEF MemoryInv, HeldTasks
  <2>2. t \in Bearers(c)
    BY <1>1, <2>1 DEF Bearers
  <2> QED
    BY <1>5, <2>2
<1> HIDE DEF t
<1>8. CASE Completed(t)
  <2>1. /\ prefetch_success'[c] /\ ~prediction_success'[c] /\ val'[c] = task[t].val
        /\ UNCHANGED task
    BY <1>a, <1>5, <1>8 DEF MatchKey, TypeOK, t
  <2>2. task[t].val = "whole"
    BY <1>1, <1>6, <1>8 DEF AnswerInv, TasksTrue, ExecutedWhole, Completed
  <2>3. \A d \in Client : Bearers(d)' = Bearers(d)
    BY <1>2, <2>1, TasksUntouched DEF AnswerInv
  <2>4. Serving(c)' = Serving(c)
    BY <1>4, <1>5, <2>1 DEF Serving
  <2>5. Answering(c)'
    BY <1>a, <1>2, <1>4, <2>1, <2>3, <2>4, GetGoesOn
  <2>6. Predictions(c)' /\ Deprecated(c)' /\ Flags(c)'
    BY <1>a, <1>1, <1>2, <1>4, <2>1, <2>2 DEF InOrder, Predictions, Deprecated, Flags, StateOf
  <2>7. KeysApart(c)'
    BY <1>a, <1>1, <1>2, <1>4, <2>1 DEF InOrder, KeysApart, Loops
  <2>8. Strayless'
    <3>1. \A d \in Client \ {c} : Serving(d)' = Serving(d) /\ cpc'[d] = cpc[d]
      BY <1>3 DEF FrameKept, Serving, InGet, Scanning
    <3> QED
      BY <1>a, <1>1, <1>2, <2>1, <2>3, <2>4, <3>1, StraylessKept
  <2> QED
    BY <1>2, <1>3, <2>1, <2>5, <2>6, <2>7, <2>8, MoveAnswer DEF InOrder
<1>9. CASE ~Completed(t)
  <2>1. /\ ~prefetch_success'[c] /\ prediction_success'[c] /\ val'[c] = val[c]
        /\ task' = [task EXCEPT ![t].callback = get]
    BY <1>a, <1>5, <1>9 DEF MatchKey, TypeOK, t
  <2>2. /\ StateOf(t) = "in_queue" /\ task[t].callback = Silent
        /\ t \in task_queue /\ \A w \in Worker : db_task[w] # t
    <3>1. StateOf(t) = "in_queue" /\ task[t].callback = Silent
      BY <1>6, <1>7, <1>9 DEF Completed
    <3>2. \A w \in Worker : db_task[w] = t =>
            wpc[w] \in {"poll", "exited", "callback", "finish", "detach"}
      BY <1>a DEF TypeOK
    <3>3. \A w \in Worker : db_task[w] # t
      BY <1>1, <3>1, <3>2, ServerAssumption DEF MemoryInv, HeldTasks
    <3> QED
      BY <1>1, <3>1, <3>3 DEF AnswerInv, TasksTrue, StatesTrue
  <2>3. /\ \A u \in Task \ {t} : task'[u] = task[u]
        /\ task'[t].callback = get /\ task'[t].task_state = task[t].task_state
        /\ task'[t].operation = task[t].operation /\ task'[t].key = task[t].key
        /\ task'[t].val = task[t].val
    BY <1>a, <1>1, <2>1 DEF TypeOK, TaskRecord
  <2>4. Bearers(c)' = {t} /\ \A d \in Client \ {c} : Bearers(d)' = Bearers(d)
    <3>1. \A u \in Task \ {t}, d \in Client : u \in Bearers(d)' <=> u \in Bearers(d)
      BY <1>2, <2>3 DEF Bearers, StateOf
    <3>2. \A d \in Client : t \in Bearers(d)' <=> d = c
      BY <1>1, <2>2, <2>3, <1>2 DEF Bearers, StateOf
    <3>3. \A d \in Client : t \notin Bearers(d)
      BY <2>2, ServerAssumption DEF Bearers, Silent
    <3>4. \A d \in Client : Bearers(d) \subseteq Task /\ Bearers(d)' \subseteq Task
      BY DEF Bearers
    <3>5. Bearers(c)' = {t}
      BY <1>1, <1>5, <3>1, <3>2, <3>4
    <3>6. ASSUME NEW d \in Client \ {c} PROVE Bearers(d)' = Bearers(d)
      BY <3>1, <3>2, <3>3, <3>4
    <3> QED
      BY <3>5, <3>6
  <2>5. TasksTrue'
    <3>1. StatesTrue' /\ ExecutedWhole'
      BY <1>2, <1>6, <2>2, <2>3
         DEF AnswerInv, TasksTrue, StatesTrue, ExecutedWhole, StateOf, Locked
    <3>2. CancelledAreSilent'
      BY <1>6, <2>2, <2>3 DEF AnswerInv, TasksTrue, CancelledAreSilent, StateOf
    <3> QED
      BY <3>1, <3>2 DEF TasksTrue
  <2>6. ~Serving(c)'
    BY <1>1, <2>1 DEF Serving
  <2>7. Answering(c)'
    <3>1. OneBearer(c)'
      BY <1>a, <1>2, <1>4, <1>5, <2>4, <2>6 DEF Answering, OneBearer
    <3>2. WireInStep(c)'
      BY <1>a, <1>2 DEF Answering, WireInStep, Unread
    <3>3. CurrentGet(c)'
      BY <1>1, <1>2, <1>5, <2>3, <2>4, <2>6 DEF CurrentGet, GetBearer
    <3> QED
      BY <3>1, <3>2, <3>3 DEF Answering
  <2>8. InOrder(c)'
    <3>1. t \notin deprecated_tasks[c] /\ prefetch_tasks[c] \cup deprecated_tasks[c] \subseteq Task
      BY <1>a, <1>1, OneList DEF Listed, TypeOK
    <3>2. Predictions(c)' /\ Flags(c)'
      BY <1>a, <1>1, <1>2, <1>4, <2>1, <2>3, <3>1 DEF InOrder, Predictions, Flags
    <3>3. Deprecated(c)'
      BY <1>a, <1>1, <1>2, <2>3, <3>1 DEF InOrder, Deprecated, StateOf
    <3>4. \A u \in prefetch_tasks[c] : task'[u].key = task[u].key
      BY <2>3, <3>1
    <3>5. todo[c] \subseteq prefetch_tasks[c]
      BY <1>a, <1>1 DEF Loops
    <3>6. KeysApart(c)'
      BY <1>a, <1>1, <1>2, <1>4, <3>4, <3>5 DEF InOrder, KeysApart
    <3> QED
      BY <3>2, <3>3, <3>6 DEF InOrder
  <2>9. \A d \in Client \ {c} : Answering(d)' /\ InOrder(d)'
    <3>1. \A d \in Client \ {c} : t \notin Bearers(d) \cup prefetch_tasks[d] \cup deprecated_tasks[d]
      BY <1>1, <2>2, OneList, ServerAssumption DEF Bearers, Listed, Silent
    <3>2. \A d \in Client : Bearers(d) \cup prefetch_tasks[d] \cup deprecated_tasks[d] \subseteq Task
      BY <1>a DEF Bearers, TypeOK
    <3>3. \A d \in Client \ {c} :
            \A u \in Bearers(d) \cup prefetch_tasks[d] \cup deprecated_tasks[d] : TaskKept(u)
      BY <2>3, <3>1, <3>2 DEF TaskKept, StateOf
    <3> QED
      BY <1>2, <1>3, <2>4, <3>3, OthersOfServe
  <2>10. Strayless'
    <3>1. \A d \in Client \ {c} : Serving(d)' = Serving(d) /\ cpc'[d] = cpc[d] /\ Unread(d)' = Unread(d)
      BY <1>3 DEF FrameKept, WireKept, Serving, InGet, Scanning, Unread
    <3> QED
      BY <1>a, <1>1, <1>2, <1>3, <1>4, <1>5, <2>3, <2>4, <2>6, <3>1 DEF Strayless, WireKept
  <2> QED
    BY <2>5, <2>7, <2>8, <2>9, <2>10 DEF AnswerInv
<1> QED
  BY <1>8, <1>9

-----------------------------------------------------------------------------
(* The loops over deprecated_tasks and tasks.                              *)

LEMMA TidyAnswer ==
  ASSUME MemoryInv, AnswerInv, NEW c \in Client,
         cpc[c] \in {"reap", "cancel", "sweep"}, cpc'[c] \in {"reap", "cancel", "sweep"},
         UNCHANGED <<wpc, db_task, wire, quit, key, response_count, prefetch_tasks,
                     prefetch_success, prediction_success, val, count>>,
         TasksTrue', \A d \in Client : Bearers(d)' = Bearers(d),
         \A d \in Client : \A t \in Bearers(d) \cup prefetch_tasks[d] : TaskKept(t),
         \A d \in Client \ {c} : FrameKept(d) /\ \A t \in deprecated_tasks[d] : TaskKept(t),
         \A t \in Task : task'[t].callback \in {task[t].callback, Silent},
         Deprecated(c)'
  PROVE  AnswerInv'
<1> USE DEF wire
<1>a. Answering(c) /\ InOrder(c) /\ Strayless
  BY DEF AnswerInv
<1>1. /\ InGet(c) /\ InGet(c)' /\ ~Scanning(c) /\ ~Scanning(c)'
      /\ Serving(c)' = Serving(c) /\ Alive(c)' = Alive(c)
      /\ cpc[c] # "prefetch" /\ cpc'[c] # "prefetch"
  BY DEF InGet, Scanning, Serving, Alive
<1>2. \A d \in Client : WireKept(d)
  BY DEF WireKept
<1>3. Answering(c)'
  BY <1>a, <1>1, <1>2, AnsweringKept
<1>4. Predictions(c)' /\ Flags(c)'
  BY <1>a, <1>1 DEF InOrder, Predictions, Flags, TaskKept
<1>5. KeysApart(c)'
  <2>1. \A th \in Thread : Predicting(th, c)' => Predicting(th, c)
    BY <1>1 DEF Predicting, GetBearer, TaskKept
  <2>2. \A t \in prefetch_tasks[c] : task'[t].key = task[t].key
    BY DEF TaskKept
  <2>3. \A n : OnlyPredicted(c, n) => OnlyPredicted(c, n)'
    BY <2>2 DEF OnlyPredicted, Prediction
  <2>4. \A t \in Task : GetBearer(c, t)' /\ StateOf(t)' = "in_queue" =>
                          GetBearer(c, t) /\ StateOf(t) = "in_queue"
    BY DEF GetBearer, TaskKept
  <2>5. \A s, t \in prefetch_tasks[c] : task'[s].key = task'[t].key => s = t
    BY <1>a, <1>1, <2>2 DEF InOrder, KeysApart
  <2>6. \A th \in Thread : Predicting(th, c)' => OnlyPredicted(c, count[th])'
    BY <1>a, <1>1, <2>1, <2>3 DEF InOrder, KeysApart
  <2>7. Serving(c)' => OnlyPredicted(c, 0)'
    BY <1>a, <1>1, <2>3 DEF InOrder, KeysApart
  <2>8. \A t \in Task : GetBearer(c, t)' /\ StateOf(t)' = "in_queue" => OnlyPredicted(c, 0)'
    BY <1>a, <1>1, <2>3, <2>4 DEF InOrder, KeysApart
  <2> QED
    BY <1>1, <2>5, <2>6, <2>7, <2>8 DEF KeysApart
<1>6. \A d \in Client \ {c} : Answering(d)' /\ InOrder(d)'
  <2>1. \A d \in Client \ {c} :
          \A t \in Bearers(d) \cup prefetch_tasks[d] \cup deprecated_tasks[d] : TaskKept(t)
    OBVIOUS
  <2> QED
    BY <1>2, <2>1, OthersOfServe
<1>7. Strayless'
  <2>1. \A d \in Client \ {c} : Serving(d)' = Serving(d) /\ cpc'[d] = cpc[d]
    BY DEF FrameKept, Serving, InGet, Scanning
  <2>2. \A t \in Task : task[t].callback.kind # "ack" => task'[t].callback.kind # "ack"
    BY DEF Silent
  <2>3. \A d \in Client : Unread(d)' = Unread(d)
    BY DEF Unread
  <2> QED
    BY <1>a, <1>1, <2>1, <2>2, <2>3 DEF Strayless
<1> QED
  BY <1>3, <1>4, <1>5, <1>6, <1>7 DEF AnswerInv, InOrder

(* A task that is deleted by one of these loops.                           *)
LEMMA TidyDeleteAnswer ==
  ASSUME MemoryInv, AnswerInv, NEW c \in Client,
         cpc[c] \in {"reap", "sweep"}, cpc'[c] = cpc[c],
         NEW t \in deprecated_tasks[c] \cup tasks[c],
         StateOf(t) = "detached", task' = [task EXCEPT ![t] = Unallocated],
         UNCHANGED <<task_queue, wpc, db_task, wire, quit, key, response_count, prefetch_tasks,
                     prefetch_success, prediction_success, val, count>>,
         deprecated_tasks'[c] \subseteq deprecated_tasks[c] \ {t},
         \A d \in Client \ {c} : FrameKept(d)
  PROVE  AnswerInv'
<1>1. t \in Listed(c)
  BY DEF Listed
<1>2. /\ TasksTrue'
      /\ \A d \in Client : Bearers(d)' = Bearers(d) /\ t \notin Bearers(d)
      /\ \A u \in Task \ {t} : task'[u] = task[u]
      /\ \A u \in Task : task'[u].callback \in {task[u].callback, Silent}
  BY <1>1, TaskDeleted DEF AnswerInv
<1>3. \A d \in Client : t \notin prefetch_tasks[d]
  BY <1>1, OneList DEF Listed
<1>4. \A d \in Client \ {c} : t \notin deprecated_tasks[d]
  BY <1>1, OneList DEF Listed
<1>5. \A d \in Client : Bearers(d) \cup prefetch_tasks[d] \cup deprecated_tasks[d] \subseteq Task
  BY DEF Bearers, MemoryInv, TypeOK
<1>6. \A d \in Client : \A u \in Bearers(d) \cup prefetch_tasks[d] : TaskKept(u)
  BY <1>2, <1>3, <1>5 DEF TaskKept, StateOf
<1>7. \A d \in Client \ {c} : FrameKept(d) /\ \A u \in deprecated_tasks[d] : TaskKept(u)
  BY <1>2, <1>4, <1>5 DEF TaskKept, StateOf
<1>8. Deprecated(c)'
  BY <1>2, <1>5 DEF AnswerInv, InOrder, Deprecated, StateOf
<1> QED
  BY <1>2, <1>6, <1>7, <1>8, TidyAnswer

LEMMA ReapAnswer ==
  ASSUME MemoryInv, AnswerInv, NEW c \in Client, Reap(c) PROVE AnswerInv'
<1> DEFINE t == First(todo[c])
<1> USE DEF pool, lists, scan, Goto
<1>a. TypeOK /\ Loops /\ InOrder(c)
  BY DEF MemoryInv, AnswerInv
<1>1. cpc[c] = "reap" /\ t \in todo[c] /\ t \in deprecated_tasks[c] /\ t \in Task
  BY <1>a, FirstIn DEF Reap, TypeOK, Loops
<1>2. UNCHANGED <<task_queue, wpc, db_task, wire, quit, key, response_count, prefetch_tasks,
                  prefetch_success, prediction_success, val, count>>
  BY DEF Reap
<1>3. \A d \in Client \ {c} : FrameKept(d)
  BY <1>a DEF Reap, FrameKept, TypeOK
<1>4. CASE /\ Deletable(t) /\ task' = [task EXCEPT ![t] = Unallocated]
           /\ deprecated_tasks' = [deprecated_tasks EXCEPT ![c] = @ \ {t}]
           /\ UNCHANGED cpc
  <2>1. deprecated_tasks'[c] \subseteq deprecated_tasks[c] \ {t}
    BY <1>a, <1>4 DEF TypeOK
  <2> QED
    BY <1>1, <1>2, <1>3, <1>4, <2>1, TidyDeleteAnswer DEF Deletable
<1>5. CASE /\ UNCHANGED <<task, deprecated_tasks>>
           /\ \/ cpc'[c] = "reap"
              \/ cpc'[c] = "cancel" /\ iter'[c] = t
  <2>1. /\ TasksTrue'
        /\ \A d \in Client : Bearers(d)' = Bearers(d)
        /\ \A u \in Task : TaskKept(u) /\ task'[u].callback = task[u].callback
    BY <1>2, <1>5, TasksUntouched DEF AnswerInv
  <2>2. \A d \in Client : Bearers(d) \cup prefetch_tasks[d] \cup deprecated_tasks[d] \subseteq Task
    BY <1>a DEF Bearers, TypeOK
  <2>3. Deprecated(c)'
    BY <1>a, <1>1, <1>5 DEF InOrder, Deprecated, StateOf
  <2> HIDE DEF t
  <2> QED
    BY <1>1, <1>2, <1>3, <1>5, <2>1, <2>2, <2>3, TidyAnswer
<1> QED
  BY <1>a, <1>1, <1>4, <1>5 DEF Reap, TypeOK

(* What is cancelled is silent when it is queued still.                    *)
LEMMA CancelAnswer ==
  ASSUME MemoryInv, AnswerInv, NEW c \in Client, Cancel(c) PROVE AnswerInv'
<1> DEFINE t == iter[c]
<1> USE DEF pool, lists, scan, Goto
<1>a. TypeOK /\ InOrder(c) /\ TasksTrue
  BY DEF MemoryInv, AnswerInv
<1>1. /\ cpc[c] = "cancel" /\ cpc'[c] = "reap" /\ ~Locked(t)
      /\ t \in deprecated_tasks[c] /\ t \in Task
      /\ task' = [task EXCEPT ![t].operation = "noop"]
  BY <1>a DEF Cancel, TypeOK, InOrder, Deprecated
<1>2. UNCHANGED <<task_queue, wpc, db_task, wire, quit, key, response_count, lists, iter,
                  prefetch_success, prediction_success, val, count>>
  BY DEF Cancel
<1>3. \A d \in Client \ {c} : FrameKept(d)
  BY <1>a DEF Cancel, FrameKept, TypeOK
<1> HIDE DEF t
<1>4. /\ \A u \in Task \ {t} : task'[u] = task[u]
      /\ task'[t].key = task[t].key /\ task'[t].callback = task[t].callback
      /\ task'[t].task_state = task[t].task_state /\ task'[t].operation = "noop"
  BY <1>a, <1>1 DEF TypeOK, TaskRecord
<1>5. StateOf(t) # "processing" /\ (StateOf(t) = "in_queue" => task[t].callback = Silent)
  BY <1>a, <1>1 DEF TasksTrue, StatesTrue, InOrder, Deprecated
<1>6. TasksTrue'
  <2>1. StatesTrue' /\ ExecutedWhole'
    BY <1>a, <1>1, <1>2, <1>4 DEF TasksTrue, StatesTrue, ExecutedWhole, StateOf, Locked
  <2>2. CancelledAreSilent'
    BY <1>a, <1>4, <1>5 DEF TasksTrue, CancelledAreSilent, StateOf
  <2> QED
    BY <2>1, <2>2 DEF TasksTrue
<1>7. \A d \in Client : Bearers(d)' = Bearers(d) /\ t \notin Bearers(d)
  <2>1. \A d \in Client : t \notin Bearers(d)
    BY <1>5, ServerAssumption DEF Bearers, Silent
  <2> QED
    BY <1>2, <1>4, <2>1 DEF Bearers, StateOf
<1>8. /\ \A d \in Client : t \notin prefetch_tasks[d]
      /\ \A d \in Client \ {c} : t \notin deprecated_tasks[d]
  BY <1>1, OneList DEF Listed
<1>9. \A d \in Client : Bearers(d) \cup prefetch_tasks[d] \cup deprecated_tasks[d] \subseteq Task
  BY <1>a DEF Bearers, TypeOK
<1>10. \A d \in Client : \A u \in Bearers(d) \cup prefetch_tasks[d] : TaskKept(u)
  BY <1>4, <1>7, <1>8, <1>9 DEF TaskKept, StateOf
<1>11. \A d \in Client \ {c} : \A u \in deprecated_tasks[d] : TaskKept(u)
  BY <1>4, <1>8, <1>9 DEF TaskKept, StateOf
<1>12. Deprecated(c)'
  BY <1>a, <1>1, <1>2, <1>4, <1>9 DEF InOrder, Deprecated, StateOf
<1>13. \A u \in Task : task'[u].callback = task[u].callback
  BY <1>4
<1> QED
  BY <1>1, <1>2, <1>3, <1>6, <1>7, <1>10, <1>11, <1>12, <1>13, TidyAnswer

LEMMA SweepAnswer ==
  ASSUME MemoryInv, AnswerInv, NEW c \in Client, Sweep(c) PROVE AnswerInv'
<1> DEFINE t == First(todo[c])
<1> USE DEF pool, lists, scan
<1>a. TypeOK /\ Loops /\ InOrder(c)
  BY DEF MemoryInv, AnswerInv
<1>1. cpc[c] = "sweep" /\ t \in tasks[c] /\ t \in Task
  BY <1>a, FirstIn DEF Sweep, TypeOK, Loops
<1>2. UNCHANGED <<task_queue, wpc, db_task, wire, quit, cpc, key, response_count, prefetch_tasks,
                  deprecated_tasks, iter, prefetch_success, prediction_success, val, count>>
  BY DEF Sweep
<1>3. \A d \in Client \ {c} : FrameKept(d)
  BY <1>a DEF Sweep, FrameKept, TypeOK
<1>4. t \notin deprecated_tasks[c]
  BY <1>1, OneList DEF Listed
<1> HIDE DEF t
<1>5. CASE Deletable(t) /\ task' = [task EXCEPT ![t] = Unallocated]
  <2>1. deprecated_tasks'[c] \subseteq deprecated_tasks[c] \ {t}
    BY <1>2, <1>4
  <2>2. t \in deprecated_tasks[c] \cup tasks[c] /\ StateOf(t) = "detached"
    BY <1>1, <1>5 DEF Deletable
  <2>3. cpc[c] \in {"reap", "sweep"} /\ cpc'[c] = cpc[c]
    BY <1>1, <1>2
  <2> QED
    BY <1>2, <1>3, <1>5, <2>1, <2>2, <2>3, TidyDeleteAnswer
<1>6. CASE UNCHANGED task
  <2>1. /\ TasksTrue'
        /\ \A d \in Client : Bearers(d)' = Bearers(d)
        /\ \A u \in Task : TaskKept(u) /\ task'[u].callback = task[u].callback
    BY <1>2, <1>6, TasksUntouched DEF AnswerInv
  <2>2. \A d \in Client : Bearers(d) \cup prefetch_tasks[d] \cup deprecated_tasks[d] \subseteq Task
    BY <1>a DEF Bearers, TypeOK
  <2>3. Deprecated(c)'
    BY <1>a, <1>1, <1>2, <1>6 DEF InOrder, Deprecated, StateOf
  <2> QED
    BY <1>1, <1>2, <1>3, <2>1, <2>2, <2>3, TidyAnswer
<1> QED
  BY <1>5, <1>6 DEF Sweep, t

-----------------------------------------------------------------------------
(* Submitting a task.                                                      *)

LEMMA TaskSubmitted ==
  ASSUME MemoryInv, TasksTrue, NEW r \in TaskRecord,
         r.task_state = "in_queue", r.operation # "noop",
         r.callback.kind = "get" => r.operation \notin {"put", "del"},
         Submit(Fresh, r), UNCHANGED <<wpc, db_task>>
  PROVE  /\ TasksTrue'
         /\ Fresh \in Task /\ task'[Fresh] = r /\ \A u \in Task \ {Fresh} : task'[u] = task[u]
         /\ \A d \in Client : Fresh \notin Bearers(d) /\ Fresh \notin Listed(d)
         /\ \A w \in Worker : db_task[w] # Fresh
         /\ \A d \in Client :
              /\ r.callback.frame = d => Bearers(d)' = Bearers(d) \cup {Fresh}
              /\ r.callback.frame # d => Bearers(d)' = Bearers(d)
<1> DEFINE t == Fresh
<1>a. TypeOK
  BY DEF MemoryInv
<1>1. /\ t \in Task /\ StateOf(t) = "free"
      /\ \A u \in Task \ {t} : task'[u] = task[u]
      /\ task'[t] = r
      /\ task_queue' = task_queue \cup {t}
  BY <1>a, FreshFree DEF TypeOK, Submit
<1> HIDE DEF t
<1>2. \A w \in Worker : db_task[w] # t
  <2>1. \A w \in Worker : db_task[w] = t =>
          wpc[w] \in {"poll", "exited", "callback", "finish", "detach"}
    BY <1>a DEF TypeOK
  <2> QED
    BY <1>1, <2>1, ServerAssumption DEF MemoryInv, HeldTasks
<1>3. \A d \in Client : t \notin Bearers(d) /\ t \notin Listed(d)
  BY <1>1 DEF MemoryInv, ListedTasks, Bearers
<1>4. TasksTrue'
  <2>1. StatesTrue' /\ ExecutedWhole'
    BY <1>1 DEF TasksTrue, StatesTrue, ExecutedWhole, StateOf, Locked
  <2>2. CancelledAreSilent'
    BY <1>1 DEF TasksTrue, CancelledAreSilent, StateOf
  <2> QED
    BY <2>1, <2>2 DEF TasksTrue
<1>5. ASSUME NEW d \in Client
      PROVE  /\ r.callback.frame = d => Bearers(d)' = Bearers(d) \cup {t}
             /\ r.callback.frame # d => Bearers(d)' = Bearers(d)
  <2>1. \A u \in Task \ {t} : u \in Bearers(d)' <=> u \in Bearers(d)
    BY <1>1 DEF Bearers, StateOf
  <2>2. t \in Bearers(d)' <=> r.callback.frame = d
    BY <1>1, <1>2 DEF Bearers, StateOf
  <2>3. Bearers(d) \subseteq Task /\ Bearers(d)' \subseteq Task
    BY DEF Bearers
  <2>4. CASE r.callback.frame = d
    BY <1>1, <1>3, <2>1, <2>2, <2>3, <2>4
  <2>5. CASE r.callback.frame # d
    <3>1. t \notin Bearers(d)' /\ t \notin Bearers(d)
      BY <1>3, <2>2, <2>5
    <3>2. \A u \in Task : u \in Bearers(d)' <=> u \in Bearers(d)
      BY <2>1, <3>1
    <3> QED
      BY <2>3, <2>5, <3>2
  <2> QED
    BY <2>4, <2>5
<1> QED
  BY <1>1, <1>2, <1>3, <1>4, <1>5 DEF t

(* A put or a del is read, and its task bears it.                          *)
LEMMA ReadPutOrDelAnswer ==
  ASSUME MemoryInv, AnswerInv, NEW c \in Client, ReadPutOrDel(c) PROVE AnswerInv'
<1> DEFINE ack == [kind |-> "ack", frame |-> c]
           r == NewTask(req[c].op, req[c].key,
                        IF req[c].op = "put" THEN "whole" ELSE "empty", ack)
           t == Fresh
<1> USE DEF wire, pool, lists, scan, Goto
<1>a. TypeOK /\ Answering(c) /\ InOrder(c) /\ Strayless /\ TasksTrue
  BY DEF MemoryInv, AnswerInv
<1>1. /\ cpc[c] = "read" /\ cpc'[c] = "loop" /\ req[c].op \in {"put", "del"}
      /\ req'[c] = NoRequest /\ Submit(Fresh, r)
  BY <1>a DEF ReadPutOrDel, TypeOK
<1>2. UNCHANGED <<wpc, db_task, peer, out, quit, lists, iter, prefetch_success,
                  prediction_success, val, response_count, count>>
  BY DEF ReadPutOrDel
<1>3. \A d \in Client \ {c} : FrameKept(d) /\ WireKept(d)
  BY <1>a DEF ReadPutOrDel, FrameKept, WireKept, TypeOK
<1>4. /\ r \in TaskRecord /\ r.task_state = "in_queue" /\ r.operation # "noop"
      /\ r.callback = ack
  <2>1. r \in TaskRecord
    BY <1>1, <1>a, NewTaskType DEF TypeOK, Request, Callback
  <2> QED
    BY <1>1, <2>1 DEF NewTask
<1> HIDE DEF r
<1>5. /\ TasksTrue'
      /\ t \in Task /\ task'[t] = r /\ \A u \in Task \ {t} : task'[u] = task[u]
      /\ \A d \in Client : t \notin Bearers(d) /\ t \notin Listed(d)
      /\ \A d \in Client \ {c} : Bearers(d)' = Bearers(d)
      /\ Bearers(c)' = Bearers(c) \cup {t}
  BY <1>a, <1>1, <1>2, <1>4, TaskSubmitted
<1> HIDE DEF t
<1>6. /\ Unread(c) /\ ~Unread(c)' /\ ~Serving(c) /\ ~Serving(c)' /\ ~InGet(c) /\ ~InGet(c)'
      /\ ~Scanning(c) /\ ~Scanning(c)' /\ Alive(c)
      /\ cpc'[c] \notin {"erase", "cancel", "prefetch"}
  BY <1>1 DEF Unread, Serving, InGet, Scanning, Alive, NoRequest
<1>7. Bearers(c) = {} /\ Bearers(c)' = {t} /\ out[c] = 0 /\ peer[c] # "idle"
  BY <1>a, <1>5, <1>6 DEF Answering, OneBearer
<1>8. Answering(c)'
  <2>1. OneBearer(c)'
    BY <1>2, <1>6, <1>7 DEF OneBearer
  <2>2. WireInStep(c)'
    BY <1>a, <1>1, <1>2 DEF Answering, WireInStep
  <2>3. CurrentGet(c)'
    BY <1>a, <1>2, <1>4, <1>5, <1>6, <1>7 DEF Answering, CurrentGet, GetBearer
  <2> QED
    BY <2>1, <2>2, <2>3 DEF Answering
<1>9. \A d \in Client :
        \A u \in Bearers(d) \cup prefetch_tasks[d] \cup deprecated_tasks[d] :
          task'[u] = task[u]
  BY <1>a, <1>5 DEF TypeOK, Listed, Bearers
<1>10. InOrder(c)'
  <2>1. Predictions(c)' /\ Deprecated(c)' /\ Flags(c)'
    BY <1>a, <1>2, <1>6, <1>9 DEF InOrder, Predictions, Deprecated, Flags, StateOf
  <2>2. \A s, u \in prefetch_tasks'[c] : task'[s].key = task'[u].key => s = u
    BY <1>a, <1>2, <1>6, <1>9 DEF InOrder, KeysApart
  <2>3. \A u : ~GetBearer(c, u)'
    BY <1>4, <1>5, <1>7 DEF GetBearer
  <2>4. \A th \in Thread : ~Predicting(th, c)'
    BY <1>6, <2>3 DEF Predicting
  <2>5. KeysApart(c)'
    BY <1>6, <2>2, <2>3, <2>4 DEF KeysApart
  <2> QED
    BY <2>1, <2>5 DEF InOrder
<1>11. \A d \in Client \ {c} : Answering(d)' /\ InOrder(d)'
  BY <1>2, <1>3, <1>5, <1>9, OthersOfServe DEF TaskKept, StateOf
<1>12. Strayless'
  <2>1. \A d \in Client \ {c} : Serving(d)' = Serving(d) /\ cpc'[d] = cpc[d] /\ Unread(d)' = Unread(d)
    BY <1>3 DEF FrameKept, WireKept, Serving, InGet, Scanning, Unread
  <2> QED
    BY <1>a, <1>1, <1>2, <1>3, <1>5, <1>6, <2>1 DEF Strayless, WireKept
<1> QED
  BY <1>5, <1>8, <1>10, <1>11, <1>12 DEF AnswerInv

(* The end of prefetch_or_submit: a task of its own bears the get, or a    *)
(* hijacked one does, or the thread itself.                                *)
LEMMA SubmitGetAnswer ==
  ASSUME MemoryInv, AnswerInv, NEW c \in Client, SubmitGet(c) PROVE AnswerInv'
<1> DEFINE get == [kind |-> "get", frame |-> c]
           r == NewTask("get", key[c], "empty", get)
           t == Fresh
<1> USE DEF wire, pool, lists, scan, Goto
<1>a. TypeOK /\ Answering(c) /\ InOrder(c) /\ Strayless /\ TasksTrue
  BY DEF MemoryInv, AnswerInv
<1>1. /\ cpc[c] = "sweep" /\ cpc'[c] = IF prefetch_success[c] THEN "prefetch" ELSE "loop"
      /\ ~prefetch_success'[c] /\ ~prediction_success'[c] /\ count'[c] = 0
      /\ \A th \in Thread \ {c} : count'[th] = count[th]
  BY <1>a DEF SubmitGet, TypeOK, Thread
<1>2. UNCHANGED <<wpc, db_task, wire, quit, key, prefetch_tasks, deprecated_tasks, val,
                  response_count>>
  BY DEF SubmitGet
<1>3. \A d \in Client \ {c} : FrameKept(d) /\ WireKept(d)
  BY <1>a DEF SubmitGet, FrameKept, WireKept, TypeOK
<1>4. /\ Unread(c)' = Unread(c) /\ InGet(c) /\ ~InGet(c)' /\ ~Scanning(c) /\ ~Scanning(c)'
      /\ Alive(c) /\ Alive(c)' /\ cpc'[c] \notin {"erase", "cancel"} /\ cpc[c] # "prefetch"
      /\ Serving(c) <=> ~prediction_success[c]
      /\ Serving(c)' <=> prefetch_success[c]
      /\ prefetch_success[c] => ~prediction_success[c] /\ val[c] = "whole"
  BY <1>a, <1>1, <1>2 DEF Unread, Serving, InGet, Scanning, Alive, InOrder, Flags
<1>5. ASSUME \A u \in prefetch_tasks[c] \cup deprecated_tasks[c] : task'[u] = task[u],
             \A th \in Thread : Predicting(th, c)' => OnlyPredicted(c, count'[th]),
             \A u \in Task : GetBearer(c, u)' /\ StateOf(u)' = "in_queue" => OnlyPredicted(c, 0)
      PROVE  InOrder(c)'
  <2>1. Predictions(c)' /\ Deprecated(c)' /\ Flags(c)'
    BY <1>a, <1>1, <1>2, <1>4, <1>5 DEF InOrder, Predictions, Deprecated, Flags, StateOf
  <2>2. \A n : OnlyPredicted(c, n) => OnlyPredicted(c, n)'
    BY <1>2, <1>5 DEF OnlyPredicted, Prediction
  <2>3. \A s, u \in prefetch_tasks'[c] : task'[s].key = task'[u].key => s = u
    BY <1>a, <1>2, <1>4, <1>5 DEF InOrder, KeysApart
  <2>4. KeysApart(c)'
    BY <1>4, <1>5, <2>2, <2>3 DEF KeysApart
  <2> QED
    BY <2>1, <2>4 DEF InOrder
<1>6. \A d \in Client \ {c} : Serving(d)' = Serving(d) /\ cpc'[d] = cpc[d] /\ Unread(d)' = Unread(d)
  BY <1>3 DEF FrameKept, WireKept, Serving, InGet, Scanning, Unread
<1>7. CASE NeedsTask(c)
  <2>1. ~prefetch_success[c] /\ Serving(c) /\ Submit(Fresh, r)
    BY <1>4, <1>7 DEF NeedsTask, SubmitGet
  <2>2. Bearers(c) = {} /\ response_count[c] = 0 /\ out[c] = 0 /\ peer[c] # "idle" /\ ~Unread(c)
    BY <1>a, <2>1 DEF Answering, OneBearer, CurrentGet
  <2>3. /\ r \in TaskRecord /\ r.task_state = "in_queue" /\ r.operation = "get"
        /\ r.callback = get /\ r.key = key[c]
    <3>1. r \in TaskRecord
      BY <1>a, NewTaskType DEF TypeOK, Callback
    <3> QED
      BY <3>1 DEF NewTask
  <2> HIDE DEF r
  <2>4. /\ TasksTrue'
        /\ t \in Task /\ task'[t] = r /\ \A u \in Task \ {t} : task'[u] = task[u]
        /\ \A d \in Client : t \notin Bearers(d) /\ t \notin Listed(d)
        /\ \A w \in Worker : db_task[w] # t
        /\ \A d \in Client \ {c} : Bearers(d)' = Bearers(d)
        /\ Bearers(c)' = Bearers(c) \cup {t}
    BY <1>a, <1>2, <2>1, <2>3, TaskSubmitted
  <2> HIDE DEF t
  <2>5. Answering(c)'
    <3>1. OneBearer(c)'
      BY <1>2, <1>4, <2>1, <2>2, <2>4 DEF OneBearer
    <3>2. WireInStep(c)'
      BY <1>a, <1>2 DEF Answering, WireInStep, Unread
    <3>3. CurrentGet(c)'
      BY <1>2, <1>4, <2>1, <2>2, <2>3, <2>4 DEF CurrentGet, GetBearer
    <3> QED
      BY <3>1, <3>2, <3>3 DEF Answering
  <2>6. \A d \in Client :
          \A u \in Bearers(d) \cup prefetch_tasks[d] \cup deprecated_tasks[d] : task'[u] = task[u]
    BY <1>a, <2>4 DEF TypeOK, Listed, Bearers
  <2>7. OnlyPredicted(c, 0)
    BY <1>a, <1>4, <2>1 DEF InOrder, KeysApart
  <2>8. \A th \in Thread : ~Predicting(th, c)'
    <3>1. \A w \in Worker : db_task'[w] # t
      BY <1>2, <2>4
    <3> QED
      BY <1>1, <1>4, <2>1, <2>2, <2>4, <3>1 DEF Predicting, GetBearer
  <2>9. InOrder(c)'
    BY <1>5, <2>6, <2>7, <2>8
  <2>10. \A d \in Client \ {c} : Answering(d)' /\ InOrder(d)'
    BY <1>1, <1>2, <1>3, <2>4, <2>6, OthersOfServe DEF TaskKept, StateOf
  <2>11. Strayless'
    BY <1>a, <1>1, <1>2, <1>3, <1>4, <1>6, <2>1, <2>2, <2>3, <2>4 DEF Strayless, WireKept
  <2> QED
    BY <2>4, <2>5, <2>9, <2>10, <2>11 DEF AnswerInv
<1>8. CASE ~NeedsTask(c)
  <2>1. /\ UNCHANGED <<task, task_queue>>
        /\ Serving(c) <=> prefetch_success[c]
    BY <1>4, <1>8 DEF SubmitGet, NeedsTask
  <2>2. /\ \A d \in Client : Bearers(d)' = Bearers(d)
    BY <1>2, <2>1, TasksUntouched DEF AnswerInv
  <2>3. Answering(c)'
    <3>1. Serving(c)' = Serving(c) /\ Alive(c)' = Alive(c)
      BY <1>4, <2>1 DEF Serving, Alive
    <3> QED
      BY <1>a, <1>2, <2>1, <2>2, <3>1, GetGoesOn
  <2>4. Strayless'
    BY <1>a, <1>1, <1>2, <1>4, <1>6, <2>1, <2>2, StraylessKept
  <2>5. InOrder(c)'
    <3>1. ASSUME NEW th \in Thread, Predicting(th, c)' PROVE OnlyPredicted(c, count'[th])
      <4>1. CASE cpc'[c] = "prefetch"
        <5>1. Serving(c) /\ OnlyPredicted(c, 0) /\ Bearers(c) = {}
          BY <1>a, <1>1, <1>4, <2>1, <4>1 DEF InOrder, KeysApart, Answering, OneBearer
        <5>2. th = c
          BY <2>2, <3>1, <5>1 DEF Predicting, GetBearer
        <5> QED
          BY <1>1, <5>1, <5>2
      <4>2. CASE cpc'[c] # "prefetch"
        <5>1. Predicting(th, c) /\ th # c
          BY <1>2, <2>1, <2>2, <3>1, <4>2, ServerAssumption DEF Predicting, GetBearer
        <5> QED
          BY <1>a, <1>1, <1>4, <5>1 DEF InOrder, KeysApart
      <4> QED
        BY <4>1, <4>2
    <3>2. ASSUME NEW u \in Task, GetBearer(c, u)', StateOf(u)' = "in_queue"
          PROVE  OnlyPredicted(c, 0)
      BY <1>a, <1>4, <2>1, <2>2, <3>2 DEF InOrder, KeysApart, GetBearer, StateOf
    <3> QED
      BY <1>5, <2>1, <3>1, <3>2
  <2> QED
    BY <1>1, <1>2, <1>3, <2>1, <2>3, <2>4, <2>5, MoveAnswer
<1> QED
  BY <1>7, <1>8

-----------------------------------------------------------------------------
(* Predicting: a thread pushes what it predicts on the list of the frame.  *)

(* One thread at a time predicts for a connection, and no get is queued.   *)
LEMMA OnePredictor ==
  ASSUME MemoryInv, AnswerInv, NEW c \in Client, NEW th \in Thread, Predicting(th, c)
  PROVE  /\ \A x \in Thread : Predicting(x, c) => x = th
         /\ \A u \in Task : ~(GetBearer(c, u) /\ StateOf(u) = "in_queue")
         /\ ~(InGet(c) /\ Serving(c))
<1>a. OneBearer(c)
  BY DEF AnswerInv, Answering
<1>1. CASE cpc[c] = "prefetch"
  <2>1. Bearers(c) = {} /\ ~InGet(c)
    BY <1>a, <1>1 DEF OneBearer, Serving, InGet, Scanning
  <2> QED
    BY <2>1 DEF Predicting, GetBearer
<1>2. CASE cpc[c] # "prefetch"
  <2>1. th \in Worker /\ wpc[th] = "callback" /\ GetBearer(c, db_task[th])
    BY <1>2 DEF Predicting
  <2>2. db_task[th] \in Task /\ StateOf(db_task[th]) = "processing"
    BY <2>1 DEF MemoryInv, HeldTasks
  <2>3. \A u \in Bearers(c) : u = db_task[th]
    BY <1>a, <2>1 DEF OneBearer, GetBearer
  <2>4. \A x \in Thread : Predicting(x, c) => x = th
    BY <1>2, <2>1, <2>2, <2>3, ServerAssumption DEF Predicting, GetBearer, MemoryInv, HeldTasks
  <2>5. ~Serving(c)
    BY <1>a, <2>1 DEF OneBearer, GetBearer
  <2> QED
    BY <2>2, <2>3, <2>4, <2>5 DEF GetBearer
<1> QED
  BY <1>1, <1>2

LEMMA PrefetchForKeyAnswer ==
  ASSUME FewPredictions, MemoryInv, AnswerInv, NEW c \in Client, NEW th \in Thread,
         Predicting(th, c), PrefetchForKey(th, c, key[c]),
         UNCHANGED <<wire, quit, wpc, db_task, cpc, key, iter, prefetch_success,
                     prediction_success, val, response_count>>
  PROVE  AnswerInv'
<1> DEFINE t == Fresh
           n == count[th]
           k == Prediction(key[c], n)
           r == NewTask("fetch", k, "empty", Silent)
           P == prefetch_tasks[c]
<1> USE DEF wire
<1>a. TypeOK /\ Answering(c) /\ InOrder(c) /\ Strayless /\ TasksTrue /\ NumPrefetch \in Nat
  BY ServerAssumption DEF MemoryInv, AnswerInv
<1>1. /\ n \in Nat /\ n < NumPrefetch /\ key[c] \in Key /\ k \in Key
      /\ count'[th] = n + 1 /\ \A x \in Thread \ {th} : count'[x] = count[x]
      /\ UNCHANGED <<deprecated_tasks, tasks>>
  BY <1>a, PredictionInKey DEF TypeOK, PrefetchForKey
<1>2. k # key[c] /\ \A j \in 0 .. n - 1 : Prediction(key[c], j) # k
  BY <1>a, <1>1, PredictionsApart
<1>3. /\ r \in TaskRecord /\ r.task_state = "in_queue" /\ r.operation = "fetch"
      /\ r.callback = Silent /\ r.key = k
  <2>1. r \in TaskRecord
    BY <1>1, NewTaskType, SilentType
  <2> QED
    BY <2>1 DEF NewTask
<1> HIDE DEF k
<1>4. /\ TasksTrue'
      /\ t \in Task /\ task'[t] = r /\ \A u \in Task \ {t} : task'[u] = task[u]
      /\ \A d \in Client : t \notin Listed(d)
      /\ \A d \in Client : Bearers(d)' = Bearers(d)
  <2>1. Submit(Fresh, r)
    BY DEF PrefetchForKey, r, k
  <2>2. \A d \in Client : r.callback.frame # d
    BY <1>3, ServerAssumption DEF Silent
  <2> HIDE DEF r
  <2> QED
    BY <1>a, <1>3, <2>1, <2>2, TaskSubmitted
<1> HIDE DEF r
<1>5. \/ prefetch_tasks'[c] = P /\ todo'[c] = todo[c]
      \/ /\ prefetch_tasks'[c] = P \cup {t}
         /\ todo'[c] = IF Scanning(c) THEN todo[c] \cup {t} ELSE todo[c]
  BY <1>a DEF PrefetchForKey, PushBack, Scanning, TypeOK
<1>6. \A d \in Client \ {c} : FrameKept(d) /\ WireKept(d)
  BY <1>a, <1>1 DEF PrefetchForKey, PushBack, FrameKept, WireKept, TypeOK
<1> HIDE DEF t
<1>7. \A d \in Client :
        \A u \in Bearers(d) \cup prefetch_tasks[d] \cup deprecated_tasks[d] :
          u \in Task /\ u # t /\ task'[u] = task[u]
  <2>1. \A d \in Client : t \notin Bearers(d)
    BY <1>3, <1>4, ServerAssumption DEF Bearers, Silent
  <2> QED
    BY <1>a, <1>4, <2>1 DEF TypeOK, Listed, Bearers
<1>8. \A d \in Client : \A x \in Thread : Predicting(x, d)' <=> Predicting(x, d)
  BY <1>4, <1>7 DEF Predicting, GetBearer
<1>9. \A d \in Client \ {c} : Answering(d)' /\ InOrder(d)'
  <2>1. ASSUME NEW d \in Client \ {c} PROVE ~Predicting(th, d)
    BY <2>1, ServerAssumption DEF Predicting, GetBearer, Bearers
  <2>2. \A d \in Client \ {c} : \A u \in Bearers(d) \cup prefetch_tasks[d] \cup deprecated_tasks[d] :
          TaskKept(u)
    BY <1>7 DEF TaskKept, StateOf
  <2> QED
    BY <1>1, <1>4, <1>6, <1>8, <2>1, <2>2, OthersKept
<1>10. Answering(c)'
  <2>1. WireKept(c) /\ \A u \in Bearers(c) : TaskKept(u)
    BY <1>7 DEF WireKept, TaskKept, StateOf
  <2>2. Serving(c)' = Serving(c) /\ Alive(c)' = Alive(c)
    BY DEF Serving, InGet, Scanning, Alive
  <2> QED
    BY <1>a, <1>4, <2>1, <2>2, AnsweringKept
<1>11. Strayless'
  <2>1. \A d \in Client : Serving(d)' = Serving(d) /\ Unread(d)' = Unread(d)
    BY DEF Serving, InGet, Scanning, Unread
  <2>2. \A u \in Task : task[u].callback.kind # "ack" => task'[u].callback.kind # "ack"
    BY <1>3, <1>4 DEF Silent
  <2> QED
    BY <1>a, <1>4, <2>1, <2>2 DEF Strayless
<1>12. InOrder(c)'
  <2>1. Predictions(c)' /\ Deprecated(c)' /\ Flags(c)'
    <3>1. Predictions(c)'
      BY <1>a, <1>3, <1>4, <1>5, <1>7 DEF InOrder, Predictions
    <3>2. Deprecated(c)'
      BY <1>a, <1>1, <1>7 DEF InOrder, Deprecated, StateOf, MemoryInv, Loops
    <3>3. Flags(c)'
      BY <1>a DEF InOrder, Flags, InGet, Scanning
    <3> QED
      BY <3>1, <3>2, <3>3
  <2>2. CASE Scanning(c)
    <3>1. todo[c] \subseteq P
      BY <2>2 DEF MemoryInv, Loops, Scanning
    <3>2. /\ \A s, u \in prefetch_tasks'[c] :
               task'[s].key = key[c] /\ task'[u].key = key[c] => s = u
          /\ \A u \in prefetch_tasks'[c] \ todo'[c] :
               task'[u].key = key[c] \/ (cpc[c] = "erase" /\ u = iter[c])
      BY <1>a, <1>2, <1>3, <1>4, <1>5, <1>7, <2>2, <3>1 DEF InOrder, KeysApart
    <3>3. prefetch_success[c] \/ prediction_success[c] =>
            \A u \in todo'[c] : task'[u].key # key[c]
      BY <1>a, <1>2, <1>3, <1>4, <1>5, <1>7, <2>2, <3>1 DEF InOrder, KeysApart
    <3>4. Scanning(c)'
      BY <2>2 DEF Scanning
    <3>5. KeysApart(c)'
      BY <3>2, <3>3, <3>4 DEF KeysApart
    <3> QED
      BY <2>1, <3>5 DEF InOrder
  <2>3. CASE ~Scanning(c)
    <3>1. OnlyPredicted(c, n)
      BY <1>a, <2>3 DEF InOrder, KeysApart
    <3>2. \A u \in P : task[u].key # k
      BY <1>2, <3>1 DEF OnlyPredicted
    <3>3. \A s, u \in prefetch_tasks'[c] : task'[s].key = task'[u].key => s = u
      BY <1>a, <1>3, <1>4, <1>5, <1>7, <2>3, <3>2 DEF InOrder, KeysApart
    <3>4. ASSUME NEW u \in prefetch_tasks'[c]
          PROVE  task'[u].key = key[c] \/ \E i \in 0 .. n : task'[u].key = Prediction(key[c], i)
      <4>1. n \in 0 .. n /\ 0 .. n - 1 \subseteq 0 .. n
        BY <1>1
      <4>2. CASE u \in P
        BY <1>7, <3>1, <4>1, <4>2 DEF OnlyPredicted
      <4>3. CASE u \notin P
        BY <1>3, <1>4, <1>5, <3>4, <4>1, <4>3 DEF k
      <4> QED
        BY <4>2, <4>3
    <3>5. /\ \A x \in Thread : Predicting(x, c) => x = th
          /\ \A u \in Task : ~(GetBearer(c, u) /\ StateOf(u) = "in_queue")
          /\ ~(InGet(c) /\ Serving(c))
      BY OnePredictor
    <3>6. ASSUME NEW x \in Thread, Predicting(x, c)' PROVE OnlyPredicted(c, count[x])'
      <4>1. x = th
        BY <1>8, <3>5, <3>6
      <4>2. count'[x] - 1 = n
        BY <1>1, <4>1
      <4> QED
        BY <3>4, <4>2 DEF OnlyPredicted, Prediction
    <3>7. \A u \in Task : ~(GetBearer(c, u)' /\ StateOf(u)' = "in_queue")
      BY <1>4, <1>7, <3>5 DEF GetBearer, StateOf
    <3>8. ~Scanning(c)' /\ ~(InGet(c)' /\ Serving(c)')
      BY <2>3, <3>5 DEF Scanning, InGet, Serving
    <3>9. KeysApart(c)'
      BY <3>3, <3>6, <3>7, <3>8 DEF KeysApart
    <3> QED
      BY <2>1, <3>9 DEF InOrder
  <2> QED
    BY <2>2, <2>3
<1> QED
  BY <1>4, <1>9, <1>10, <1>11, <1>12 DEF AnswerInv

(* The serving thread answers: it had the get, and no task bears it.       *)
LEMMA AnswerAnswer ==
  ASSUME MemoryInv, AnswerInv, NEW c \in Client, Answer(c) PROVE AnswerInv'
<1> USE DEF pool, lists, scan, Goto
<1>a. TypeOK /\ Answering(c) /\ InOrder(c) /\ Strayless
  BY DEF MemoryInv, AnswerInv
<1>1. /\ cpc[c] = "prefetch" /\ cpc'[c] = "loop"
      /\ response_count'[c] = response_count[c] + 1
      /\ out'[c] = IF peer[c] = "gone" THEN out[c] ELSE out[c] + 1
      /\ \A th \in Thread \ {c} : count'[th] = count[th]
  BY <1>a DEF Answer, Write, TypeOK
<1>2. UNCHANGED <<task, task_queue, wpc, db_task, peer, req, quit, key, lists, iter, todo,
                  prefetch_success, prediction_success>>
  BY DEF Answer
<1>3. \A d \in Client \ {c} : FrameKept(d) /\ WireKept(d)
  BY <1>a DEF Answer, Write, FrameKept, WireKept, TypeOK
<1>4. /\ Serving(c) /\ ~Serving(c)' /\ ~InGet(c) /\ ~InGet(c)' /\ ~Scanning(c) /\ ~Scanning(c)'
      /\ cpc'[c] \notin {"erase", "cancel", "prefetch"} /\ ~prefetch_success[c]
  BY <1>a, <1>1 DEF Serving, InGet, Scanning, InOrder, Flags
<1>5. Bearers(c) = {} /\ ~Unread(c) /\ out[c] = 0 /\ peer[c] # "idle" /\ response_count[c] = 0
  BY <1>a, <1>4 DEF Answering, OneBearer, CurrentGet
<1>6. ASSUME Bearers(c)' = Bearers(c) PROVE Answering(c)' /\ InOrder(c)'
  <2>1. peer[c] \in {"waiting", "gone"}
    BY <1>a, <1>5 DEF TypeOK
  <2>2. OneBearer(c)' /\ WireInStep(c)'
    BY <1>a, <1>1, <1>2, <1>4, <1>5, <1>6, <2>1 DEF Answering, OneBearer, WireInStep, Unread
  <2>3. CurrentGet(c)'
    BY <1>1, <1>4, <1>5, <1>6 DEF CurrentGet, GetBearer
  <2>4. Predictions(c)' /\ Deprecated(c)' /\ Flags(c)'
    BY <1>a, <1>2, <1>4 DEF InOrder, Predictions, Deprecated, Flags, StateOf
  <2>5. KeysApart(c)'
    BY <1>a, <1>2, <1>4, <1>5, <1>6 DEF InOrder, KeysApart, Predicting, GetBearer
  <2> QED
    BY <2>2, <2>3, <2>4, <2>5 DEF Answering, InOrder
<1>7. Strayless'
  <2>1. \A d \in Client : Bearers(d)' = Bearers(d)
    BY <1>2 DEF Bearers, StateOf
  <2>2. \A d \in Client \ {c} : Serving(d)' = Serving(d) /\ cpc'[d] = cpc[d]
    BY <1>3 DEF FrameKept, Serving, InGet, Scanning
  <2> QED
    BY <1>a, <1>1, <1>2, <1>4, <2>1, <2>2, StraylessKept
<1> QED
  BY <1>1, <1>2, <1>3, <1>6, <1>7, MoveAnswer

LEMMA ServeStepAnswer ==
  ASSUME FewPredictions, MemoryInv, AnswerInv, NEW c \in Client, ServeStep(c)
  PROVE  AnswerInv'
<1>1. CASE ServePrefetch(c)
  <2>1. Predicting(c, c) /\ c \in Thread
    BY <1>1 DEF ServePrefetch, Predicting, Thread
  <2> QED
    BY <1>1, <2>1, PrefetchForKeyAnswer DEF ServePrefetch, pool
<1> QED
  BY <1>1, AroundStepAnswer, DeleteTaskAnswer, ReadGetAnswer, ReadPutOrDelAnswer,
     SkipOtherAnswer, MatchKeyAnswer, RecheckAnswer, EraseAnswer, EndScanAnswer, ReapAnswer,
     CancelAnswer, EndReapAnswer, SweepAnswer, SubmitGetAnswer, AnswerAnswer DEF ServeStep

-----------------------------------------------------------------------------
(* The steps of a worker.                                                  *)

(* A worker that changes the state of its task keeps what is answered.     *)
LEMMA WorkerKeepsAnswer ==
  ASSUME MemoryInv, AnswerInv, NEW w \in Worker,
         UNCHANGED <<wire, quit, frame>>,
         TasksTrue', \A d \in Client : Bearers(d)' = Bearers(d),
         \A t \in Task : TaskKept(t),
         \A th \in Thread, d \in Client :
           \/ Predicting(th, d)' => Predicting(th, d) /\ count'[th] = count[th]
           \/ th = w /\ \E t \in Bearers(d) :
                GetBearer(d, t) /\ StateOf(t) = "in_queue" /\ count'[w] = 0
  PROVE  AnswerInv'
<1> USE DEF wire, frame, lists, scan
<1>1. \A d \in Client :
        /\ FrameKept(d) /\ WireKept(d) /\ Serving(d)' = Serving(d) /\ Alive(d)' = Alive(d)
        /\ Unread(d)' = Unread(d)
  BY DEF FrameKept, WireKept, Serving, InGet, Scanning, Alive, Unread
<1>2. \A d \in Client : Bearers(d) \cup prefetch_tasks[d] \cup deprecated_tasks[d] \subseteq Task
  BY DEF Bearers, MemoryInv, TypeOK
<1>3. ASSUME NEW d \in Client PROVE Answering(d)' /\ InOrder(d)'
  <2>1. Answering(d)'
    BY <1>1, <1>2, AnsweringKept DEF AnswerInv, FrameKept
  <2>2. ASSUME NEW th \in Thread, Predicting(th, d)', ~Scanning(d)
        PROVE  OnlyPredicted(d, count'[th])
    <3>1. CASE Predicting(th, d) /\ count'[th] = count[th]
      BY <2>2, <3>1 DEF AnswerInv, InOrder, KeysApart
    <3>2. CASE th = w /\ \E t \in Bearers(d) :
                 GetBearer(d, t) /\ StateOf(t) = "in_queue" /\ count'[w] = 0
      <4>1. OnlyPredicted(d, 0)
        BY <2>2, <3>2 DEF AnswerInv, InOrder, KeysApart, Bearers
      <4> QED
        BY <3>2, <4>1
    <3> QED
      BY <2>2, <3>1, <3>2
  <2>3. InOrder(d)'
    BY <1>1, <1>2, <2>2, InOrderKept DEF AnswerInv, MemoryInv
  <2> QED
    BY <2>1, <2>3
<1>4. Strayless'
  BY <1>1 DEF AnswerInv, Strayless, TaskKept
<1> QED
  BY <1>3, <1>4 DEF AnswerInv

LEMMA TakeAnswer ==
  ASSUME MemoryInv, AnswerInv, NEW w \in Worker, Take(w) PROVE AnswerInv'
<1> USE DEF WGoto
<1>a. TypeOK /\ HeldTasks /\ QueuedTasks /\ TasksTrue
  BY DEF MemoryInv, AnswerInv
<1>1. PICK u \in task_queue :
        /\ task_queue' = task_queue \ {u}
        /\ db_task' = [db_task EXCEPT ![w] = u]
        /\ task' = [task EXCEPT ![u].task_state = "processing",
                                ![u].val = IF task[u].operation \in {"get", "fetch"}
                                             THEN "whole" ELSE @]
  BY DEF Take
<1>2. /\ u \in Task /\ StateOf(u) = "in_queue" /\ db_task[w] = NoOne /\ wpc[w] = "poll"
      /\ \A x \in Task \ {u} : task'[x] = task[x]
      /\ task'[u].task_state = "processing" /\ task'[u].callback = task[u].callback
      /\ task'[u].operation = task[u].operation /\ task'[u].key = task[u].key
      /\ task'[u].val = IF task[u].operation \in {"get", "fetch"} THEN "whole" ELSE task[u].val
  BY <1>1, <1>a DEF Take, TypeOK, TaskRecord, HeldTasks, QueuedTasks
<1>3. /\ db_task'[w] = u /\ wpc'[w] = "callback" /\ count'[w] = 0
      /\ \A v \in Worker \ {w} : db_task'[v] = db_task[v] /\ wpc'[v] = wpc[v]
      /\ \A th \in Thread \ {w} : count'[th] = count[th]
      /\ UNCHANGED <<wire, quit, frame>>
  BY <1>1, <1>a DEF Take, TypeOK, Thread
<1>4. \A v \in Worker : db_task[v] # u
  <2>1. \A v \in Worker : db_task[v] = u =>
          wpc[v] \in {"poll", "exited", "callback", "finish", "detach"}
    BY <1>a DEF TypeOK
  <2> QED
    BY <1>2, <1>a, <2>1, ServerAssumption DEF HeldTasks
<1>5. \A t \in Task : TaskKept(t)
  BY <1>2 DEF TaskKept, StateOf
<1>6. \A d \in Client : Bearers(d)' = Bearers(d)
  <2>1. \A t \in Task \ {u}, d \in Client : t \in Bearers(d)' <=> t \in Bearers(d)
    BY <1>2, <1>3, ServerAssumption DEF Bearers, StateOf
  <2>2. \A d \in Client : u \in Bearers(d)' <=> u \in Bearers(d)
    BY <1>2, <1>3, <1>4 DEF Bearers, StateOf
  <2>3. \A d \in Client : Bearers(d) \subseteq Task /\ Bearers(d)' \subseteq Task
    BY DEF Bearers
  <2>4. ASSUME NEW d \in Client PROVE Bearers(d)' = Bearers(d)
    BY <2>1, <2>2, <2>3
  <2> QED
    BY <2>4
<1>7. TasksTrue'
  <2>1. StatesTrue'
    <3>1. \A t \in Task \ {u} : Locked(t) => Locked(t)'
      BY <1>2, <1>3 DEF Locked
    <3>2. Locked(u)'
      BY <1>3 DEF Locked
    <3> QED
      BY <1>1, <1>2, <1>a, <3>1, <3>2 DEF TasksTrue, StatesTrue, StateOf
  <2>2. ExecutedWhole'
    BY <1>2, <1>a DEF TasksTrue, ExecutedWhole, StateOf
  <2>3. CancelledAreSilent'
    BY <1>2, <1>a DEF TasksTrue, CancelledAreSilent, StateOf
  <2> QED
    BY <2>1, <2>2, <2>3 DEF TasksTrue
<1>8. ASSUME NEW th \in Thread, NEW d \in Client
      PROVE  \/ Predicting(th, d)' => Predicting(th, d) /\ count'[th] = count[th]
             \/ th = w /\ \E t \in Bearers(d) :
                  GetBearer(d, t) /\ StateOf(t) = "in_queue" /\ count'[w] = 0
  <2>1. CASE th = w
    <3>1. Predicting(w, d)' => GetBearer(d, u)
      BY <1>2, <1>3, <1>6, ServerAssumption DEF Predicting, GetBearer
    <3> QED
      BY <1>2, <1>3, <2>1, <3>1 DEF GetBearer
  <2>2. CASE th # w
    <3>1. \A x : GetBearer(d, x)' => GetBearer(d, x)
      BY <1>5, <1>6 DEF GetBearer, TaskKept, Bearers
    <3> QED
      BY <1>3, <2>2, <3>1 DEF Predicting, frame
  <2> QED
    BY <2>1, <2>2
<1> QED
  BY <1>3, <1>5, <1>6, <1>7, <1>8, WorkerKeepsAnswer

(* Finish and Detach: a task that bears nothing any more.                  *)
LEMMA PutAwayAnswer ==
  ASSUME MemoryInv, AnswerInv, NEW w \in Worker, Finish(w) \/ Detach(w) PROVE AnswerInv'
<1> DEFINE u == db_task[w]
<1> USE DEF WGoto
<1>a. TypeOK /\ HeldTasks /\ QueuedTasks /\ TasksTrue
  BY DEF MemoryInv, AnswerInv
<1>1. /\ u \in Task /\ StateOf(u) \in {"processing", "finished"} /\ u # NoOne
      /\ wpc[w] \in {"callback", "finish", "detach"}
      /\ StateOf(u) = "processing" => wpc[w] = "finish" \/ task[u].callback = Silent
  <2>1. wpc[w] \in {"callback", "finish", "detach"}
    BY DEF Finish, Detach
  <2>2. u \in Task /\ StateOf(u) \in {"processing", "finished"} /\ u # NoOne
    BY <1>a, <2>1, ServerAssumption DEF HeldTasks
  <2>3. task[u].callback \in Callback
    BY <1>a, <2>2 DEF TypeOK, TaskRecord
  <2>4. StateOf(u) = "processing" => wpc[w] = "finish" \/ task[u].callback = Silent
    BY <1>a, <2>3 DEF Finish, Detach, HeldTasks, CallbackOf, Callback, Silent
  <2> QED
    BY <2>1, <2>2, <2>4
<1>2. PICK s \in {"finished", "detached"} : task' = [task EXCEPT ![u].task_state = s]
  BY DEF Finish, Detach
<1> HIDE DEF u
<1>3. /\ \A x \in Task \ {u} : task'[x] = task[x]
      /\ task'[u].task_state = s /\ task'[u].callback = task[u].callback
      /\ task'[u].operation = task[u].operation /\ task'[u].key = task[u].key
      /\ task'[u].val = task[u].val
  BY <1>1, <1>2, <1>a DEF TypeOK, TaskRecord
<1>4. /\ db_task'[w] \in {u, NoOne} /\ wpc'[w] \in {"detach", "poll"}
      /\ \A v \in Worker \ {w} : db_task'[v] = db_task[v] /\ wpc'[v] = wpc[v] /\ db_task[v] # u
      /\ UNCHANGED <<wire, quit, frame, count, task_queue>>
  BY <1>1, <1>a DEF Finish, Detach, TypeOK, HeldTasks, u
<1>5. \A t \in Task : TaskKept(t)
  BY <1>3 DEF TaskKept, StateOf
<1>6. \A d \in Client : Bearers(d)' = Bearers(d)
  <2>1. \A t \in Task \ {u}, d \in Client : t \in Bearers(d)' <=> t \in Bearers(d)
    BY <1>3, <1>4, ServerAssumption DEF Bearers, StateOf, u
  <2>2. \A d \in Client : u \notin Bearers(d)'
    BY <1>3 DEF Bearers, StateOf
  <2>3. \A d \in Client : u \notin Bearers(d)
    BY <1>1, ServerAssumption DEF Bearers, Silent, u
  <2>4. \A d \in Client : Bearers(d) \subseteq Task /\ Bearers(d)' \subseteq Task
    BY DEF Bearers
  <2>5. ASSUME NEW d \in Client PROVE Bearers(d)' = Bearers(d)
    BY <2>1, <2>2, <2>3, <2>4
  <2> QED
    BY <2>5
<1>7. TasksTrue'
  <2>1. StatesTrue'
    <3>1. \A t \in Task \ {u} : Locked(t) => Locked(t)'
      BY <1>4 DEF Locked, u
    <3> QED
      BY <1>3, <1>4, <1>a, <3>1 DEF TasksTrue, StatesTrue, StateOf
  <2>2. ExecutedWhole'
    BY <1>1, <1>3, <1>a DEF TasksTrue, ExecutedWhole, StateOf
  <2>3. CancelledAreSilent'
    BY <1>3, <1>a DEF TasksTrue, CancelledAreSilent, StateOf
  <2> QED
    BY <2>1, <2>2, <2>3 DEF TasksTrue
<1>8. \A th \in Thread, d \in Client :
        Predicting(th, d)' => Predicting(th, d) /\ count'[th] = count[th]
  <2>1. \A x, d : GetBearer(d, x)' => x \in Task /\ (d \in Client => GetBearer(d, x))
    BY <1>5, <1>6 DEF GetBearer, TaskKept, Bearers
  <2> QED
    BY <1>4, <2>1 DEF Predicting, frame
<1> QED
  BY <1>4, <1>5, <1>6, <1>7, <1>8, WorkerKeepsAnswer

(* A callback that was called: its connection c has the response, or the   *)
(* response is lost with the connection, and no task bears it any more.    *)
LEMMA CalledAnswer ==
  ASSUME MemoryInv, AnswerInv, NEW w \in Worker, NEW c \in Client,
         wpc[w] = "callback", wpc' = [wpc EXCEPT ![w] = "finish"],
         task[db_task[w]].callback.frame = c,
         UNCHANGED <<peer, sent, req, task, task_queue, quit, db_task, key, cpc, lists, scan>>,
         \A th \in Thread \ {w} : count'[th] = count[th],
         \A d \in Client \ {c} : out'[d] = out[d] /\ response_count'[d] = response_count[d],
         out'[c] = IF peer[c] = "gone" \/ ~Alive(c) THEN out[c] ELSE out[c] + 1,
         response_count'[c] = IF GetBearer(c, db_task[w]) THEN response_count[c] + 1
                                                          ELSE response_count[c]
  PROVE  AnswerInv'
<1> DEFINE u == db_task[w]
<1> USE DEF lists, scan
<1>a. TypeOK /\ HeldTasks /\ TasksTrue /\ Answering(c) /\ InOrder(c) /\ Strayless
  BY DEF MemoryInv, AnswerInv
<1>1. /\ u \in Task /\ StateOf(u) = "processing" /\ u # NoOne /\ wpc'[w] = "finish"
      /\ \A v \in Worker \ {w} : wpc'[v] = wpc[v] /\ db_task[v] # u
  BY <1>a, ServerAssumption DEF HeldTasks, TypeOK
<1> HIDE DEF u
<1>2. \A t \in Task : TaskKept(t)
  BY DEF TaskKept, StateOf
<1>3. Bearers(c) = {u} /\ Bearers(c)' = {} /\ \A d \in Client \ {c} : Bearers(d)' = Bearers(d)
  <2>1. u \in Bearers(c)
    BY <1>1 DEF Bearers, u
  <2>2. Bearers(c) = {u}
    BY <1>a, <2>1 DEF Answering, OneBearer
  <2>3. \A d \in Client : u \notin Bearers(d)'
    BY <1>1 DEF Bearers, u
  <2>4. \A t \in Task \ {u}, d \in Client : t \in Bearers(d)' <=> t \in Bearers(d)
    BY <1>1 DEF Bearers, StateOf, u
  <2>5. \A d \in Client \ {c} : u \notin Bearers(d)
    BY DEF Bearers, u
  <2>6. \A d \in Client : Bearers(d) \subseteq Task /\ Bearers(d)' \subseteq Task
    BY DEF Bearers
  <2>7. Bearers(c)' = {}
    BY <2>2, <2>3, <2>4, <2>6
  <2>8. ASSUME NEW d \in Client \ {c} PROVE Bearers(d)' = Bearers(d)
    BY <2>3, <2>4, <2>5, <2>6
  <2> QED
    BY <2>2, <2>7, <2>8
<1>4. TasksTrue'
  <2>1. \A t \in Task : Locked(t) => Locked(t)'
    BY <1>1 DEF Locked
  <2>2. StatesTrue'
    BY <1>a, <2>1 DEF TasksTrue, StatesTrue, StateOf
  <2> QED
    BY <1>a, <2>2 DEF TasksTrue, ExecutedWhole, CancelledAreSilent, StateOf
<1>5. /\ \A d \in Client : Serving(d)' = Serving(d) /\ Unread(d)' = Unread(d) /\ Alive(d)' = Alive(d)
      /\ \A d \in Client : Scanning(d)' = Scanning(d) /\ InGet(d)' = InGet(d)
  BY DEF Serving, InGet, Scanning, Unread, Alive
<1>6. ~Unread(c) /\ ~Serving(c) /\ out[c] = 0 /\ peer[c] \in {"waiting", "gone"}
      /\ (GetBearer(c, u) => response_count[c] = 0)
  BY <1>a, <1>1, <1>3 DEF Answering, OneBearer, CurrentGet, TypeOK
<1>7. Answering(c)'
  <2>1. OneBearer(c)'
    BY <1>3, <1>5, <1>6 DEF OneBearer
  <2>2. WireInStep(c)'
    BY <1>a, <1>6 DEF Answering, WireInStep, Unread
  <2>3. CurrentGet(c)'
    BY <1>a, <1>3, <1>5, <1>6 DEF Answering, CurrentGet, GetBearer, u
  <2> QED
    BY <2>1, <2>2, <2>3 DEF Answering
<1>8. InOrder(c)'
  <2>1. Predictions(c)' /\ Deprecated(c)' /\ Flags(c)'
    BY <1>a DEF InOrder, Predictions, Deprecated, Flags, StateOf, InGet, Scanning
  <2>2. \A t : ~GetBearer(c, t)'
    BY <1>3 DEF GetBearer
  <2>3. cpc'[c] # "prefetch"
    BY <1>6 DEF Serving
  <2>4. \A th \in Thread : ~Predicting(th, c)'
    BY <2>2, <2>3 DEF Predicting
  <2>5. KeysApart(c)'
    BY <1>a, <1>5, <2>2, <2>4 DEF InOrder, KeysApart, OnlyPredicted, Prediction
  <2> QED
    BY <2>1, <2>5 DEF InOrder
<1>9. ASSUME NEW d \in Client \ {c} PROVE Answering(d)' /\ InOrder(d)'
  <2>1. FrameKept(d) /\ WireKept(d)
    BY DEF FrameKept, WireKept
  <2>2. ASSUME NEW th \in Thread, Predicting(th, d)'
        PROVE  Predicting(th, d) /\ count'[th] = count[th]
    <3>1. th # w
      BY <1>1, <2>2, ServerAssumption DEF Predicting
    <3> QED
      BY <1>1, <1>3, <2>2, <3>1 DEF Predicting, GetBearer
  <2>3. Bearers(d) \cup prefetch_tasks[d] \cup deprecated_tasks[d] \subseteq Task
    BY <1>a DEF Bearers, TypeOK
  <2> QED
    BY <1>2, <1>3, <2>1, <2>2, <2>3, OthersKept
<1>10. Strayless'
  BY <1>a, <1>3, <1>5 DEF Strayless
<1> QED
  BY <1>4, <1>7, <1>8, <1>9, <1>10 DEF AnswerInv

(* What a worker calls is the callback of a task that bears an answer.     *)
LEMMA CalledBears ==
  ASSUME MemoryInv, NEW w \in Worker, wpc[w] = "callback", CallbackOf(w).kind \in {"get", "ack"}
  PROVE  /\ db_task[w] \in Task /\ StateOf(db_task[w]) = "processing"
         /\ CallbackOf(w).frame \in Client
         /\ db_task[w] \in Bearers(CallbackOf(w).frame)
<1>1. db_task[w] \in Task /\ StateOf(db_task[w]) = "processing"
  BY DEF MemoryInv, HeldTasks
<1>2. CallbackOf(w) \in Callback
  BY <1>1 DEF CallbackOf, MemoryInv, TypeOK, TaskRecord
<1>3. CallbackOf(w).frame \in Client
  BY <1>2 DEF Callback
<1>4. \A v \in Worker : db_task[v] = db_task[w] => wpc[v] # "finish"
  BY <1>1, ServerAssumption DEF MemoryInv, HeldTasks
<1> QED
  BY <1>1, <1>3, <1>4 DEF Bearers, CallbackOf

LEMMA CallAnswerAnswer ==
  ASSUME MemoryInv, AnswerInv, NEW w \in Worker, CallAnswer(w) PROVE AnswerInv'
<1> DEFINE u == db_task[w]
           c == task[u].callback.frame
<1> USE DEF WGoto, lists, scan
<1>a. TypeOK /\ HeldTasks
  BY DEF MemoryInv
<1>1. /\ wpc[w] = "callback" /\ u \in Task /\ StateOf(u) = "processing"
      /\ task[u].callback.kind = "get"
  BY <1>a DEF CallAnswer, CallbackOf, HeldTasks
<1>2. c \in Client /\ GetBearer(c, u)
  BY <1>1, CalledBears DEF GetBearer, CallbackOf
<1>3. Alive(c)
  <2>1. u \in Awaited(c)
    BY <1>2 DEF MemoryInv, GetsAwaited, GetBearer
  <2> QED
    BY <2>1 DEF Awaited, Alive
<1>4. /\ out' = [out EXCEPT ![c] = IF peer[c] = "gone" THEN @ ELSE @ + 1]
      /\ response_count' = [response_count EXCEPT ![c] = @ + 1]
      /\ count' = [count EXCEPT ![w] = 0]
      /\ wpc' = [wpc EXCEPT ![w] = "finish"]
      /\ UNCHANGED <<peer, sent, req, task, task_queue, quit, db_task, key, cpc, lists, scan>>
  BY DEF CallAnswer, CallbackOf, Write
<1> HIDE DEF c
<1>5. /\ out'[c] = IF peer[c] = "gone" THEN out[c] ELSE out[c] + 1
      /\ response_count'[c] = response_count[c] + 1
      /\ \A d \in Client \ {c} : out'[d] = out[d] /\ response_count'[d] = response_count[d]
      /\ \A th \in Thread \ {w} : count'[th] = count[th]
  BY <1>a, <1>2, <1>4 DEF TypeOK
<1>6. task[u].callback.frame = c
  BY DEF c
<1>7. /\ out'[c] = IF peer[c] = "gone" \/ ~Alive(c) THEN out[c] ELSE out[c] + 1
      /\ response_count'[c] = IF GetBearer(c, u) THEN response_count[c] + 1 ELSE response_count[c]
  BY <1>2, <1>3, <1>5
<1> HIDE DEF u
<1> QED
  BY <1>1, <1>2, <1>4, <1>5, <1>6, <1>7, CalledAnswer DEF u

(* The acknowledgement of a put or del whose frame is gone reaches nobody  *)
(* else: that is what NoStrayBytes is for.                                 *)
LEMMA AckReachesNoOther ==
  ASSUME NoStrayBytes, MemoryInv, AnswerInv, NEW w \in Worker, CallAck(w)
  PROVE  \/ Alive(CallbackOf(w).frame) /\ Write(CallbackOf(w).frame)
         \/ ~Alive(CallbackOf(w).frame) /\ UNCHANGED out
<1> DEFINE c == CallbackOf(w).frame
<1>1. /\ c \in Client /\ db_task[w] \in Task /\ db_task[w] \in Bearers(c)
      /\ CallbackOf(w).kind = "ack"
  BY CalledBears DEF CallAck
<1>2. CASE \A d, e \in Client : d = e
  BY <1>1, <1>2 DEF CallAck
<1>3. CASE Commands \subseteq {"get"}
  BY <1>1, <1>3 DEF AnswerInv, Strayless, CallbackOf
<1>4. CASE ~MayDrop /\ ~MayInterrupt
  <2>1. Alive(c)
    BY <1>1, <1>4 DEF AnswerInv, Strayless, Alive
  <2> QED
    BY <2>1 DEF CallAck
<1> QED
  BY <1>2, <1>3, <1>4 DEF NoStrayBytes

LEMMA CallAckAnswer ==
  ASSUME NoStrayBytes, MemoryInv, AnswerInv, NEW w \in Worker, CallAck(w) PROVE AnswerInv'
<1> DEFINE u == db_task[w]
           c == task[u].callback.frame
<1> USE DEF WGoto, lists, scan, frame
<1>a. TypeOK /\ HeldTasks /\ Strayless
  BY DEF MemoryInv, AnswerInv
<1>1. /\ wpc[w] = "callback" /\ u \in Task /\ StateOf(u) = "processing"
      /\ task[u].callback.kind = "ack"
  BY <1>a DEF CallAck, CallbackOf, HeldTasks
<1>2. c \in Client /\ u \in Bearers(c) /\ ~GetBearer(c, u)
  BY <1>1, CalledBears DEF GetBearer, CallbackOf
<1>3. /\ UNCHANGED <<peer, sent, req, task, task_queue, quit, db_task, key, cpc, lists, scan,
                     response_count, count>>
      /\ wpc' = [wpc EXCEPT ![w] = "finish"]
  BY DEF CallAck
<1>4. \/ Alive(c) /\ Write(c)
      \/ ~Alive(c) /\ UNCHANGED out
  BY AckReachesNoOther DEF CallbackOf
<1> HIDE DEF c
<1>5. /\ out'[c] = IF peer[c] = "gone" \/ ~Alive(c) THEN out[c] ELSE out[c] + 1
      /\ \A d \in Client \ {c} : out'[d] = out[d]
  BY <1>a, <1>2, <1>4 DEF TypeOK, Write
<1>6. task[u].callback.frame = c
  BY DEF c
<1> HIDE DEF u
<1> QED
  BY <1>1, <1>2, <1>3, <1>5, <1>6, CalledAnswer DEF u

LEMMA CallPrefetchAnswer ==
  ASSUME FewPredictions, MemoryInv, AnswerInv, NEW w \in Worker, CallPrefetch(w)
  PROVE  AnswerInv'
<1> DEFINE u == db_task[w]
           c == task[u].callback.frame
<1>a. TypeOK /\ HeldTasks
  BY DEF MemoryInv
<1>1. /\ wpc[w] = "callback" /\ u \in Task /\ StateOf(u) = "processing"
      /\ task[u].callback.kind = "get"
  BY <1>a DEF CallPrefetch, CallbackOf, HeldTasks
<1>2. c \in Client /\ GetBearer(c, u)
  BY <1>1, CalledBears DEF GetBearer, CallbackOf
<1>3. task[u].key = key[c] /\ Predicting(w, c) /\ w \in Thread
  BY <1>1, <1>2 DEF AnswerInv, Answering, CurrentGet, Predicting, Thread
<1>4. PrefetchForKey(w, c, key[c])
  BY <1>3 DEF CallPrefetch, CallbackOf
<1>5. UNCHANGED <<wire, quit, wpc, db_task, cpc, key, iter, prefetch_success,
                  prediction_success, val, response_count>>
  BY DEF CallPrefetch, pool
<1> HIDE DEF c, u
<1> QED
  BY <1>2, <1>3, <1>4, <1>5, PrefetchForKeyAnswer

LEMMA QuietAnswer ==
  ASSUME MemoryInv, AnswerInv,
         UNCHANGED <<wire, task, task_queue, db_task, frame, count>>,
         \A w \in Worker : wpc'[w] = wpc[w] \/ (wpc[w] = "poll" /\ wpc'[w] = "exited"),
         quit' = quit \/ MayInterrupt
  PROVE  AnswerInv'
<1> USE DEF wire, frame, lists, scan
<1>a. TypeOK /\ HeldTasks /\ TasksTrue
  BY DEF MemoryInv, AnswerInv
<1>1. \A d \in Client : Bearers(d)' = Bearers(d)
  BY DEF Bearers, StateOf
<1>2. \A t \in Task : TaskKept(t) /\ (Locked(t) => Locked(t)')
  BY DEF TaskKept, StateOf, Locked
<1>3. TasksTrue'
  BY <1>a, <1>2 DEF TasksTrue, StatesTrue, ExecutedWhole, CancelledAreSilent, StateOf
<1>4. Strayless'
  BY <1>1 DEF AnswerInv, Strayless, Serving, InGet, Scanning, Unread
<1>5. ASSUME NEW d \in Client PROVE Answering(d)' /\ InOrder(d)'
  <2>1. FrameKept(d) /\ WireKept(d)
    BY DEF FrameKept, WireKept
  <2>2. Bearers(d) \cup prefetch_tasks[d] \cup deprecated_tasks[d] \subseteq Task
    BY <1>a DEF Bearers, TypeOK
  <2>3. \A th \in Thread : Predicting(th, d)' => Predicting(th, d) /\ count'[th] = count[th]
    BY <1>1 DEF Predicting, GetBearer
  <2> QED
    BY <1>1, <1>2, <2>1, <2>2, <2>3, OthersKept
<1> QED
  BY <1>3, <1>4, <1>5 DEF AnswerInv

LEMMA WorkerStepAnswer ==
  ASSUME FewPredictions, NoStrayBytes, MemoryInv, AnswerInv, NEW w \in Worker, WorkerStep(w)
  PROVE  AnswerInv'
<1>1. CASE Exit(w)
  BY <1>1, QuietAnswer DEF Exit, WGoto, MemoryInv, TypeOK
<1> QED
  BY <1>1, TakeAnswer, CallPrefetchAnswer, CallAnswerAnswer, CallAckAnswer, PutAwayAnswer
     DEF WorkerStep

LEMMA NextAnswer ==
  ASSUME FewPredictions, NoStrayBytes
  PROVE  MemoryInv /\ AnswerInv /\ [Next]_vars => AnswerInv'
<1> SUFFICES ASSUME MemoryInv, AnswerInv, [Next]_vars PROVE AnswerInv'
  OBVIOUS
<1>1. ASSUME NEW c \in Client, PeerStep(c) \/ ServeStep(c) PROVE AnswerInv'
  BY <1>1, PeerStepAnswer, ServeStepAnswer
<1>2. ASSUME NEW w \in Worker, WorkerStep(w) PROVE AnswerInv'
  BY <1>2, WorkerStepAnswer
<1>3. ASSUME NEW w \in Worker, SetStop(w) PROVE AnswerInv'
  BY <1>3, QuietAnswer DEF SetStop
<1>4. CASE Interrupt
  BY <1>4, QuietAnswer DEF Interrupt, pool
<1>5. CASE UNCHANGED vars
  BY <1>5, QuietAnswer DEF vars, pool
<1> QED
  BY <1>1, <1>2, <1>3, <1>4, <1>5 DEF Next, Rest

-----------------------------------------------------------------------------
(* The theorems.                                                           *)

(* AnswerInv is an invariant of every such installation.                   *)
THEOREM AnswerSound ==
  ASSUME FewPredictions, NoStrayBytes PROVE Spec => [](MemoryInv /\ AnswerInv)
<1>1. Init => MemoryInv /\ AnswerInv
  BY InitMemory, InitAnswer
<1>2. MemoryInv /\ AnswerInv /\ [Next]_vars => MemoryInv' /\ AnswerInv'
  BY NextMemory, NextAnswer
<1> QED
  BY <1>1, <1>2, PTL DEF Spec

(* Every get that was read is answered once and with a whole value, by     *)
(* whichever of the three parties, and no request is forgotten.            *)
THEOREM RequestsAreAnswered ==
  ASSUME FewPredictions, NoStrayBytes PROVE Spec => []AnsweringInv
<1>1. MemoryInv /\ AnswerInv => AnsweringInv
  <2> SUFFICES ASSUME MemoryInv, AnswerInv PROVE AnsweringInv
    OBVIOUS
  <2>a. TypeOK /\ HeldTasks /\ TasksTrue
    BY DEF MemoryInv, AnswerInv
  <2>1. CancelledAreSilent
    BY <2>a DEF TasksTrue
  <2>2. NoForgottenRequest
    <3> SUFFICES ASSUME NEW c \in Client, cpc[c] \in {"loop", "read"}, peer[c] = "waiting",
                        req[c] = NoRequest, out[c] = 0
                 PROVE  \E t \in Bearers(c) : t \in task_queue \/ \E w \in Worker : db_task[w] = t
      BY DEF NoForgottenRequest
    <3>1. ~Unread(c) /\ ~Serving(c) /\ Alive(c)
      BY DEF Unread, Serving, InGet, Scanning, Alive, NoRequest
    <3>2. PICK t \in Bearers(c) : TRUE
      BY <3>1 DEF AnswerInv, Answering, OneBearer
    <3>3. t \in task_queue \/ Locked(t)
      BY <2>a DEF TasksTrue, StatesTrue, Bearers
    <3> QED
      BY <3>3 DEF Locked
  <2>3. AnsweredOnce
    <3>1. ASSUME NEW c \in Client, NEW t \in Bearers(c)
          PROVE  task[t].callback.kind \in {"get", "ack"}
      <4>1. t \in Task /\ task[t].callback \in Callback /\ task[t].callback.frame = c
        BY <2>a DEF Bearers, TypeOK, TaskRecord
      <4> QED
        BY <4>1, ServerAssumption DEF Callback
    <3>2. \A c \in Client : response_count[c] <= 1
      BY DEF AnswerInv, Answering, CurrentGet
    <3>3. ASSUME NEW c \in Client, NEW t \in Bearers(c), response_count[c] = 1
          PROVE  task[t].callback.kind # "get"
      BY <3>3 DEF AnswerInv, Answering, CurrentGet, GetBearer, Bearers
    <3> QED
      BY <3>1, <3>2, <3>3 DEF AnsweredOnce, AssertResponseCount
  <2>4. AnswersWhole
    <3>1. ASSUME NEW w \in Worker, wpc[w] = "callback", CallbackOf(w).kind = "get"
          PROVE  task[db_task[w]].val = "whole"
      <4> DEFINE t == db_task[w]
      <4>1. /\ t \in Task /\ StateOf(t) = "processing"
            /\ task[t].operation \in {"get", "put", "del", "fetch", "noop"}
        BY <2>a, <3>1 DEF HeldTasks, TypeOK, TaskRecord
      <4>2. task[t].operation \in {"get", "fetch"}
        BY <2>a, <3>1, <4>1
           DEF TasksTrue, ExecutedWhole, CancelledAreSilent, CallbackOf, Silent
      <4> QED
        BY <2>a, <4>1, <4>2 DEF TasksTrue, ExecutedWhole
    <3>2. \A c \in Client : cpc[c] = "prefetch" => val[c] = "whole"
      BY DEF AnswerInv, InOrder, Flags
    <3> QED
      BY <3>1, <3>2 DEF AnswersWhole
  <2> QED
    BY <2>1, <2>2, <2>3, <2>4 DEF AnsweringInv
<1> QED
  BY <1>1, AnswerSound, PTL

(* A scan meets at most one prediction of the key it looks for, and after  *)
(* it no key is on the list twice, though a worker pushes all along.       *)
THEOREM PredictionsAreDistinct ==
  ASSUME FewPredictions, NoStrayBytes PROVE Spec => []DistinctPredictions
<1>1. AnswerInv => DistinctPredictions
  BY DEF AnswerInv, InOrder, KeysApart, Scanning, DistinctPredictions
<1> QED
  BY <1>1, AnswerSound, PTL

-----------------------------------------------------------------------------
(* The server implements RequestService.                                   *)

phases == [c \in Client |-> PhaseOf(c)]

(* A connection is always in one of the phases.                            *)
LEMMA PhaseType ==
  ASSUME MemoryInv, AnswerInv, NEW c \in Client PROVE PhaseOf(c) \in Service!Phase
<1>1. /\ peer[c] \in {"idle", "waiting", "gone"} /\ out[c] \in Nat /\ out[c] <= 1
      /\ peer[c] # "waiting" => out[c] = 0
  BY DEF MemoryInv, TypeOK, AnswerInv, Answering, WireInStep
<1>2. peer[c] = "waiting" /\ out[c] = 1 => req[c] = NoRequest
  BY DEF AnswerInv, Answering, OneBearer, WireInStep
<1>3. out[c] = 0 \/ out[c] = 1
  BY <1>1
<1> QED
  BY <1>1, <1>2, <1>3 DEF PhaseOf, Service!Phase

(* A step that changes the wire of one connection is a move of it.         *)
LEMMA PhaseMove ==
  ASSUME NEW c \in Client, \A d \in Client \ {c} : WireKept(d)
  PROVE  Service!Move(c, PhaseOf(c), PhaseOf(c)')
<1>1. \A d \in Client \ {c} : PhaseOf(d)' = PhaseOf(d)
  BY DEF WireKept, PhaseOf
<1> QED
  BY <1>1 DEF Service!Move

LEMMA PhaseStutter ==
  ASSUME \A d \in Client : PhaseOf(d)' = PhaseOf(d) PROVE UNCHANGED phases
  BY DEF phases

(* The client's own steps.                                                 *)
LEMMA PeerStepServes ==
  ASSUME MemoryInv, AnswerInv, NEW c \in Client, PeerStep(c) PROVE Service!Next
<1> USE DEF wire
<1>a. TypeOK /\ WireInStep(c) /\ OneBearer(c) /\ PhaseOf(c) \in Service!Phase
  BY PhaseType DEF MemoryInv, AnswerInv, Answering
<1>b. \A d \in Client \ {c} : WireKept(d)
  BY <1>a DEF PeerStep, SendRequest, ReadResponse, SendQuit, Drop, ReadEnd, WireKept, TypeOK
<1>c. Service!Move(c, PhaseOf(c), PhaseOf(c)')
  BY <1>b, PhaseMove
<1>1. CASE SendRequest(c)
  <2>1. PICK op \in Commands, k \in Asked : req' = [req EXCEPT ![c] = [op |-> op, key |-> k]]
    BY <1>1 DEF SendRequest
  <2>2. /\ peer[c] = "idle" /\ out[c] = 0 /\ peer'[c] = "waiting" /\ out'[c] = 0
        /\ req'[c] # NoRequest
    BY <1>1, <1>a, <2>1, ServerAssumption DEF SendRequest, TypeOK, WireInStep, NoRequest
  <2>3. PhaseOf(c) = "idle" /\ PhaseOf(c)' = "sent"
    BY <2>2 DEF PhaseOf
  <2> QED
    BY <1>c, <2>3 DEF Service!Ask, Service!Next
<1>2. CASE ReadResponse(c)
  <2>1. /\ peer[c] = "waiting" /\ out[c] = 1 /\ peer'[c] = "idle" /\ out'[c] = 0
        /\ req[c] = NoRequest
    BY <1>2, <1>a DEF ReadResponse, TypeOK, WireInStep, OneBearer
  <2>2. PhaseOf(c) = "answered" /\ PhaseOf(c)' = "idle"
    BY <2>1 DEF PhaseOf
  <2> QED
    BY <1>c, <2>2 DEF Service!Receive, Service!Next
<1>3. CASE SendQuit(c) \/ Drop(c) \/ ReadEnd(c)
  <2>1. peer'[c] = "gone"
    BY <1>3, <1>a DEF SendQuit, Drop, ReadEnd, TypeOK
  <2>2. PhaseOf(c)' = "gone"
    BY <2>1 DEF PhaseOf
  <2> QED
    BY <1>a, <1>c, <2>2 DEF Service!Leave, Service!Next
<1> QED
  BY <1>1, <1>2, <1>3 DEF PeerStep

(* A request is taken, or a response written, for a client that may have   *)
(* left meanwhile.                                                         *)
LEMMA TakingServes ==
  ASSUME MemoryInv, AnswerInv, NEW c \in Client, \A d \in Client \ {c} : WireKept(d),
         Unread(c), req'[c] = NoRequest, peer'[c] = peer[c], out'[c] = out[c]
  PROVE  Service!Next \/ UNCHANGED phases
<1>1. out[c] = 0 /\ peer[c] \in {"waiting", "gone"} /\ req[c] # NoRequest
  BY DEF AnswerInv, Answering, OneBearer, MemoryInv, TypeOK, Unread, NoRequest
<1>2. CASE peer[c] = "waiting"
  <2>1. PhaseOf(c) = "sent" /\ PhaseOf(c)' = "taken"
    BY <1>1, <1>2 DEF PhaseOf
  <2>2. Service!Move(c, "sent", "taken")
    BY <2>1, PhaseMove
  <2> QED
    BY <2>2 DEF Service!TakeRequest, Service!Next
<1>3. CASE peer[c] = "gone"
  <2>1. \A d \in Client : PhaseOf(d)' = PhaseOf(d)
    BY <1>3 DEF PhaseOf, WireKept
  <2> QED
    BY <2>1, PhaseStutter
<1> QED
  BY <1>1, <1>2, <1>3

LEMMA WritingServes ==
  ASSUME MemoryInv, AnswerInv, NEW c \in Client, Serving(c) \/ Bearers(c) # {},
         UNCHANGED <<peer, req>>, Write(c)
  PROVE  Service!Next \/ UNCHANGED phases
<1>1. out[c] = 0 /\ peer[c] \in {"waiting", "gone"} /\ ~Unread(c)
  BY DEF AnswerInv, Answering, OneBearer, MemoryInv, TypeOK
<1>2. /\ out'[c] = IF peer[c] = "gone" THEN 0 ELSE 1
      /\ \A d \in Client \ {c} : WireKept(d)
  BY <1>1 DEF Write, WireKept, MemoryInv, TypeOK
<1>3. CASE peer[c] = "waiting"
  <2>1. req[c] = NoRequest
    BY <1>1, <1>3 DEF AnswerInv, Answering, WireInStep
  <2>2. PhaseOf(c) = "taken" /\ PhaseOf(c)' = "answered"
    BY <1>1, <1>2, <1>3, <2>1 DEF PhaseOf
  <2>3. Service!Move(c, "taken", "answered")
    BY <1>2, <2>2, PhaseMove
  <2> QED
    BY <2>3 DEF Service!Respond, Service!Next
<1>4. CASE peer[c] = "gone"
  <2>1. \A d \in Client : PhaseOf(d)' = PhaseOf(d)
    BY <1>2, <1>4 DEF PhaseOf, WireKept
  <2> QED
    BY <2>1, PhaseStutter
<1> QED
  BY <1>1, <1>3, <1>4

LEMMA ServeStepServes ==
  ASSUME MemoryInv, AnswerInv, NEW c \in Client, ServeStep(c)
  PROVE  Service!Next \/ UNCHANGED phases
<1> USE DEF wire, pool, frame, lists, scan
<1>a. TypeOK /\ WireInStep(c)
  BY DEF MemoryInv, AnswerInv, Answering
<1>1. CASE ReadGet(c) \/ ReadPutOrDel(c)
  <2>1. /\ Unread(c) /\ req'[c] = NoRequest /\ peer'[c] = peer[c] /\ out'[c] = out[c]
        /\ \A d \in Client \ {c} : WireKept(d)
    BY <1>1, <1>a DEF ReadGet, ReadPutOrDel, Unread, TypeOK, WireKept
  <2> QED
    BY <2>1, TakingServes
<1>2. CASE Answer(c)
  <2>1. Serving(c)
    BY <1>2 DEF Answer, Serving
  <2> QED
    BY <1>2, <2>1, WritingServes DEF Answer
<1>3. CASE ReadQuit(c)
  <2>1. /\ UNCHANGED <<peer, out>> /\ req' = [req EXCEPT ![c] = NoRequest]
        /\ req[c] = NoRequest \/ peer[c] = "gone"
    BY <1>3, <1>a DEF ReadQuit, WireInStep, Unread, Quit
  <2>2. \A d \in Client : PhaseOf(d)' = PhaseOf(d)
    BY <1>a, <2>1 DEF PhaseOf, TypeOK
  <2> QED
    BY <2>2, PhaseStutter
<1>4. CASE UNCHANGED wire
  <2>1. \A d \in Client : PhaseOf(d)' = PhaseOf(d)
    BY <1>4 DEF PhaseOf
  <2> QED
    BY <2>1, PhaseStutter
<1> QED
  BY <1>1, <1>2, <1>3, <1>4
     DEF ServeStep, CheckQuit, SkipOther, MatchKey, Recheck, Erase, EndScan, Reap, Cancel,
         EndReap, Sweep, SubmitGet, ServePrefetch, DeleteTask, NextList, Return

LEMMA WorkerStepServes ==
  ASSUME NoStrayBytes, MemoryInv, AnswerInv, NEW w \in Worker, WorkerStep(w)
  PROVE  Service!Next \/ UNCHANGED phases
<1> USE DEF wire, frame, lists, scan
<1>1. CASE CallAnswer(w)
  <2>1. CallbackOf(w).frame \in Client /\ Bearers(CallbackOf(w).frame) # {}
    BY <1>1, CalledBears DEF CallAnswer
  <2> QED
    BY <1>1, <2>1, WritingServes DEF CallAnswer
<1>2. CASE CallAck(w) /\ out' # out
  <2>1. CallbackOf(w).frame \in Client /\ Bearers(CallbackOf(w).frame) # {}
    BY <1>2, CalledBears DEF CallAck
  <2>2. Write(CallbackOf(w).frame)
    BY <1>2, AckReachesNoOther
  <2> QED
    BY <1>2, <2>1, <2>2, WritingServes DEF CallAck
<1>3. CASE UNCHANGED wire
  <2>1. \A d \in Client : PhaseOf(d)' = PhaseOf(d)
    BY <1>3 DEF PhaseOf
  <2> QED
    BY <2>1, PhaseStutter
<1> QED
  BY <1>1, <1>2, <1>3 DEF WorkerStep, Take, CallPrefetch, CallAck, Finish, Detach, Exit

(* Every client gets one response for each request that was taken, neither *)
(* less nor more, whichever thread answers it.                             *)
THEOREM ServiceImplemented ==
  ASSUME FewPredictions, NoStrayBytes PROVE Spec => ImplementsService
<1>1. Init => Service!Init
  BY DEF Init, PhaseOf, Service!Init
<1>2. MemoryInv /\ AnswerInv /\ [Next]_vars => [Service!Next]_phases
  <2> SUFFICES ASSUME MemoryInv, AnswerInv, [Next]_vars
               PROVE  Service!Next \/ UNCHANGED phases
    OBVIOUS
  <2>1. ASSUME NEW c \in Client, PeerStep(c) \/ ServeStep(c)
        PROVE  Service!Next \/ UNCHANGED phases
    BY <2>1, PeerStepServes, ServeStepServes
  <2>2. ASSUME NEW w \in Worker, WorkerStep(w) PROVE Service!Next \/ UNCHANGED phases
    BY <2>2, WorkerStepServes
  <2>3. CASE UNCHANGED wire
    <3>1. \A d \in Client : PhaseOf(d)' = PhaseOf(d)
      BY <2>3 DEF PhaseOf, wire
    <3> QED
      BY <3>1, PhaseStutter
  <2> QED
    BY <2>1, <2>2, <2>3 DEF Next, Rest, SetStop, Interrupt, vars
<1> QED
  BY <1>1, <1>2, AnswerSound, PTL DEF Spec, ImplementsService, Service!Spec, phases

-----------------------------------------------------------------------------
(* main, which starts the threads that serve the connections and receives  *)
(* the same signal: the module Experiments, for any finite set of          *)
(* connections and any number of reports (count there is reports here).    *)
CONSTANT NumExp
VARIABLES mpc, conn, num_clients, reported, reports, joined, unreported
Main == INSTANCE Experiments WITH count <- reports

(* An instance has a copy of the operators of FiniteSets, with the same    *)
(* meaning.                                                                *)
LEMMA SameCardinality == \A S : Main!Cardinality(S) = Cardinality(S)
  BY DEF Main!Cardinality, Cardinality, Main!IsFiniteSet, IsFiniteSet

(* The connections accepted and those that left are finitely many.         *)
LEMMA FinitelyMany ==
  ASSUME IsFiniteSet(Client)
  PROVE  /\ IsFiniteSet(Main!Started) /\ IsFiniteSet(Main!Left)
         /\ Main!Left \subseteq Main!Started
         /\ Cardinality(Main!Started) \in Nat /\ Cardinality(Main!Left) \in Nat
<1>1. Main!Left \subseteq Main!Started /\ Main!Started \subseteq Client
  BY DEF Main!Left, Main!Started
<1>2. IsFiniteSet(Main!Started) /\ IsFiniteSet(Main!Left)
  BY <1>1, FS_Subset
<1> QED
  BY <1>1, <1>2, FS_CardinalityType

(* When main sees 0 clients, all that were started have left.              *)
LEMMA NoneLeft ==
  ASSUME IsFiniteSet(Client), Main!ClientsCounted, mpc # "created", num_clients = 0
  PROVE  Main!Started \subseteq Main!Left
<1>1. Cardinality(Main!Left) = Cardinality(Main!Started)
  BY FinitelyMany, SameCardinality DEF Main!ClientsCounted, Main!Counted
<1> QED
  BY <1>1, FinitelyMany, FS_Subset

(* Initially no connection is accepted.                                    *)
LEMMA ExperimentsInit ==
  ASSUME IsFiniteSet(Client), Main!Init
  PROVE  Main!ExperimentsInv
<1>1. Main!Started = {} /\ Main!Left = {}
  BY DEF Main!Init, Main!Started, Main!Left
<1>2. Main!TypeOK
  <2>1. conn \in [Client -> {"away", "backlog", "created", "serving", "left", "done"}]
    BY DEF Main!Init
  <2>2. quit \in BOOLEAN /\ reported \in BOOLEAN
    BY Zenon DEF Main!Init
  <2>3. mpc = "loop" /\ num_clients \in Int /\ reports \in Nat
    BY DEF Main!Init
  <2>4. joined \subseteq Main!Started /\ unreported \subseteq Main!Started
    BY DEF Main!Init
  <2> QED
    BY <2>1, <2>2, <2>3, <2>4, Zenon DEF Main!TypeOK
<1>4. Main!IdleMeansLeft /\ Main!JoinedDone /\ Main!MainOutlives
  BY <1>1 DEF Main!Init, Main!IdleMeansLeft, Main!JoinedDone, Main!MainOutlives
<1>5. Main!ReportDue
  BY <1>1 DEF Main!Init, Main!ReportDue, Main!Started
<1>3. Main!ClientsCounted
  BY <1>1, FS_EmptySet, SameCardinality DEF Main!Init, Main!ClientsCounted, Main!Counted
<1> QED
  BY <1>2, <1>3, <1>4, <1>5 DEF Main!ExperimentsInv

(* main accepts a connection: one more is started.                         *)
LEMMA AcceptStep ==
  ASSUME IsFiniteSet(Client), Main!ExperimentsInv, Main!Accept
  PROVE  Main!ExperimentsInv'
<1> USE DEF Main!ExperimentsInv
<1>1. PICK c \in Client :
        /\ conn[c] = "backlog" /\ conn' = [conn EXCEPT ![c] = "created"]
        /\ unreported' = unreported \cup {c}
  BY DEF Main!Accept
<1>2. /\ mpc = "accept" /\ mpc' = "created"
      /\ UNCHANGED <<quit, num_clients, reported, reports, joined>>
  BY DEF Main!Accept
<1>3. conn'[c] = "created" /\ \A d \in Client \ {c} : conn'[d] = conn[d]
  BY <1>1 DEF Main!TypeOK
<1>4. c \notin Main!Started /\ Main!Started' = Main!Started \cup {c} /\ Main!Left' = Main!Left
  BY <1>1, <1>3 DEF Main!Started, Main!Left
<1>5. Cardinality(Main!Started') = Cardinality(Main!Started) + 1
  BY <1>4, FinitelyMany, FS_AddElement
<1>6. Main!TypeOK'
  BY <1>1, <1>2, <1>4 DEF Main!TypeOK
<1>7. Main!ClientsCounted'
  BY <1>2, <1>4, <1>5, FinitelyMany, SameCardinality DEF Main!ClientsCounted, Main!Counted
<1>8. Main!ReportDue'
  <2>1. c \notin unreported
    BY <1>4 DEF Main!TypeOK
  <2> QED
    BY <1>1, <1>2, <1>3, <2>1 DEF Main!ReportDue, Main!TypeOK, Main!Started
<1>9. Main!JoinedDone'
  BY <1>1, <1>2, <1>3 DEF Main!JoinedDone, Main!TypeOK, Main!Started
<1>10. Main!IdleMeansLeft' /\ Main!MainOutlives'
  BY <1>2 DEF Main!IdleMeansLeft, Main!MainOutlives
<1> QED
  BY <1>6, <1>7, <1>8, <1>9, <1>10

(* The other steps of main: the connections stay where they are.           *)
LEMMA MainOnlyStep ==
  ASSUME IsFiniteSet(Client), Main!ExperimentsInv,
         Main!CheckQuit \/ Main!CountClient \/ Main!NothingToAccept \/ Main!NothingToReport \/ Main!Join \/ Main!End
  PROVE  Main!ExperimentsInv'
<1> USE DEF Main!ExperimentsInv
<1>1. conn' = conn /\ Main!Started' = Main!Started /\ Main!Left' = Main!Left
      /\ UNCHANGED <<quit, reported, reports, unreported>>
  BY DEF Main!CheckQuit, Main!CountClient, Main!NothingToAccept, Main!NothingToReport,
       Main!Join, Main!End, Main!Started, Main!Left
<1>2. joined' = joined \/ \E c \in Main!Joinable : joined' = joined \cup {c}
  BY DEF Main!CheckQuit, Main!CountClient, Main!NothingToAccept, Main!NothingToReport,
       Main!Join, Main!End
<1>3. Main!TypeOK'
  <2>1. joined' \subseteq Main!Started
    BY <1>2 DEF Main!TypeOK, Main!Joinable, Main!Started
  <2>2. num_clients' \in Int
    BY DEF Main!TypeOK, Main!CheckQuit, Main!CountClient, Main!NothingToAccept,
         Main!NothingToReport, Main!Join, Main!End
  <2>3. mpc' \in {"loop", "accept", "created", "idle", "join", "ended"}
    BY DEF Main!TypeOK, Main!CheckQuit, Main!CountClient, Main!NothingToAccept,
         Main!NothingToReport, Main!Join, Main!End
  <2> QED
    BY <1>1, <2>1, <2>2, <2>3 DEF Main!TypeOK
<1>4. Main!ClientsCounted'
  BY <1>1, FinitelyMany, SameCardinality DEF Main!ClientsCounted, Main!Counted,
       Main!TypeOK, Main!CheckQuit, Main!CountClient,
     Main!NothingToAccept, Main!NothingToReport, Main!Join, Main!End
<1>5. Main!IdleMeansLeft'
  BY <1>1, NoneLeft DEF Main!IdleMeansLeft, Main!CheckQuit, Main!CountClient,
     Main!NothingToAccept, Main!NothingToReport, Main!Join, Main!End
<1>6. Main!ReportDue'
  BY <1>1 DEF Main!ReportDue
<1>7. Main!JoinedDone'
  BY <1>1, <1>2 DEF Main!JoinedDone, Main!Joinable
<1>8. Main!MainOutlives'
  BY <1>1 DEF Main!MainOutlives, Main!JoinedDone, Main!CheckQuit, Main!CountClient,
     Main!NothingToAccept, Main!NothingToReport, Main!Join, Main!End
<1> QED
  BY <1>3, <1>4, <1>5, <1>6, <1>7, <1>8

LEMMA ReportStep ==
  ASSUME IsFiniteSet(Client), Main!ExperimentsInv, Main!Report
  PROVE  Main!ExperimentsInv'
<1> USE DEF Main!ExperimentsInv
<1>1. /\ mpc = "idle" /\ mpc' \in {"join", "loop"}
      /\ reported' = TRUE /\ unreported' = {}
      /\ UNCHANGED <<conn, quit, num_clients, joined>>
  BY DEF Main!Report
<1>2. Main!Started' = Main!Started /\ Main!Left' = Main!Left
  BY <1>1 DEF Main!Started, Main!Left
<1>3. reports' \in Nat
  BY DEF Main!Report, Main!TypeOK
<1>4. Main!TypeOK'
  BY <1>1, <1>2, <1>3 DEF Main!TypeOK
<1>5. Main!ClientsCounted'
  BY <1>1, <1>2 DEF Main!ClientsCounted, Main!Counted
<1>6. Main!ReportDue'
  BY <1>1 DEF Main!ReportDue, Main!IdleMeansLeft, Main!Started, Main!Left
<1>7. Main!IdleMeansLeft' /\ Main!JoinedDone' /\ Main!MainOutlives'
  BY <1>1 DEF Main!IdleMeansLeft, Main!JoinedDone, Main!MainOutlives
<1> QED
  BY <1>4, <1>5, <1>6, <1>7

(* A client connects.                                                      *)
LEMMA ConnectStep ==
  ASSUME IsFiniteSet(Client), Main!ExperimentsInv, NEW c \in Client, Main!Connect(c)
  PROVE  Main!ExperimentsInv'
<1> USE DEF Main!ExperimentsInv
<1>1. /\ conn[c] = "away" /\ conn' = [conn EXCEPT ![c] = "backlog"] /\ mpc # "ended"
      /\ UNCHANGED <<mpc, quit, num_clients, reported, reports, joined, unreported>>
  BY DEF Main!Connect
<1>2. conn'[c] = "backlog" /\ \A d \in Client \ {c} : conn'[d] = conn[d]
  BY <1>1 DEF Main!TypeOK
<1>3. Main!Started' = Main!Started /\ Main!Left' = Main!Left
  BY <1>1, <1>2 DEF Main!Started, Main!Left
<1>4. Main!TypeOK'
  BY <1>1, <1>3 DEF Main!TypeOK
<1>5. Main!ClientsCounted' /\ Main!IdleMeansLeft' /\ Main!MainOutlives'
  BY <1>1, <1>3 DEF Main!ClientsCounted, Main!Counted, Main!IdleMeansLeft, Main!MainOutlives
<1>6. Main!ReportDue' /\ Main!JoinedDone'
  BY <1>1, <1>2 DEF Main!ReportDue, Main!JoinedDone, Main!TypeOK, Main!Started
<1> QED
  BY <1>4, <1>5, <1>6

(* A serving thread begins, and returns.                                   *)
LEMMA ServeStepInv ==
  ASSUME IsFiniteSet(Client), Main!ExperimentsInv, NEW c \in Client, Main!Serve(c) \/ Main!CleanUp(c)
  PROVE  Main!ExperimentsInv'
<1> USE DEF Main!ExperimentsInv
<1>1. /\ \/ conn[c] = "created" /\ conn' = [conn EXCEPT ![c] = "serving"] /\ reported' = FALSE
         \/ conn[c] = "left" /\ conn' = [conn EXCEPT ![c] = "done"] /\ reported' = reported
      /\ UNCHANGED <<mpc, quit, num_clients, reports, joined, unreported>>
  BY DEF Main!Serve, Main!CleanUp
<1>2. /\ \/ conn[c] = "created" /\ conn'[c] = "serving" /\ reported' = FALSE
         \/ conn[c] = "left" /\ conn'[c] = "done" /\ reported' = reported
      /\ \A d \in Client \ {c} : conn'[d] = conn[d]
  BY <1>1 DEF Main!TypeOK
<1>3. Main!Started' = Main!Started /\ Main!Left' = Main!Left
  BY <1>2 DEF Main!Started, Main!Left
<1>4. Main!TypeOK'
  BY <1>1, <1>3 DEF Main!TypeOK
<1>5. Main!ClientsCounted' /\ Main!IdleMeansLeft'
  BY <1>1, <1>3 DEF Main!ClientsCounted, Main!Counted, Main!IdleMeansLeft
<1>6. Main!ReportDue'
  BY <1>1, <1>2 DEF Main!ReportDue, Main!TypeOK, Main!Started
<1>7. Main!JoinedDone'
  BY <1>1, <1>2 DEF Main!JoinedDone, Main!TypeOK, Main!Started
<1>8. Main!MainOutlives'
  BY <1>1, <1>2, <1>3 DEF Main!MainOutlives, Main!Started
<1> QED
  BY <1>4, <1>5, <1>6, <1>7, <1>8

LEMMA LeaveStep ==
  ASSUME IsFiniteSet(Client), Main!ExperimentsInv, NEW c \in Client, Main!Leave(c)
  PROVE  Main!ExperimentsInv'
<1> USE DEF Main!ExperimentsInv
<1>1. /\ conn[c] = "serving" /\ conn' = [conn EXCEPT ![c] = "left"]
      /\ num_clients' = num_clients - 1
      /\ UNCHANGED <<mpc, quit, reported, reports, joined, unreported>>
  BY DEF Main!Leave
<1>2. conn'[c] = "left" /\ \A d \in Client \ {c} : conn'[d] = conn[d]
  BY <1>1 DEF Main!TypeOK
<1>3. Main!Started' = Main!Started /\ Main!Left' = Main!Left \cup {c} /\ c \notin Main!Left
  BY <1>1, <1>2 DEF Main!Started, Main!Left
<1>4. Cardinality(Main!Left') = Cardinality(Main!Left) + 1
  BY <1>3, FinitelyMany, FS_AddElement
<1>5. Main!TypeOK'
  BY <1>1, <1>3 DEF Main!TypeOK
<1>6. Main!ClientsCounted'
  BY <1>1, <1>3, <1>4, FinitelyMany, SameCardinality DEF Main!ClientsCounted, Main!Counted,
       Main!TypeOK
<1>7. Main!IdleMeansLeft'
  BY <1>1, <1>3 DEF Main!IdleMeansLeft
<1>8. Main!ReportDue' /\ Main!JoinedDone'
  BY <1>1, <1>2 DEF Main!ReportDue, Main!JoinedDone, Main!TypeOK, Main!Started
<1>9. Main!MainOutlives'
  BY <1>1, <1>3 DEF Main!MainOutlives, Main!Started
<1> QED
  BY <1>5, <1>6, <1>7, <1>8, <1>9

LEMMA RestStep ==
  ASSUME IsFiniteSet(Client), Main!ExperimentsInv, Main!Interrupt \/ UNCHANGED Main!vars
  PROVE  Main!ExperimentsInv'
<1>1. UNCHANGED <<mpc, conn, num_clients, reported, reports, joined, unreported>>
      /\ quit' \in BOOLEAN
  BY DEF Main!Interrupt, Main!vars, Main!ExperimentsInv, Main!TypeOK
<1>2. Main!Started' = Main!Started /\ Main!Left' = Main!Left
  BY <1>1 DEF Main!Started, Main!Left
<1> QED
  BY <1>1, <1>2 DEF Main!ExperimentsInv, Main!TypeOK, Main!ClientsCounted, Main!Counted,
       Main!IdleMeansLeft,
     Main!ReportDue, Main!JoinedDone, Main!MainOutlives

-----------------------------------------------------------------------------
(* num_clients counts the connections, and main knows when a report is due *)
(* and when its objects may go, in every interleaving with the threads     *)
(* that it starts.                                                         *)
THEOREM ExperimentsSound == IsFiniteSet(Client) => (Main!Spec => []Main!ExperimentsInv)
<1> SUFFICES ASSUME IsFiniteSet(Client) PROVE Main!Spec => []Main!ExperimentsInv
  OBVIOUS
<1>2. Main!Init => Main!ExperimentsInv
  BY ExperimentsInit
<1>1. Main!ExperimentsInv /\ [Main!Next]_(Main!vars) => Main!ExperimentsInv'
  BY AcceptStep, MainOnlyStep, ReportStep, ConnectStep, ServeStepInv, LeaveStep, RestStep
  DEF Main!Next, Main!MainStep, Main!ServeStep, Main!Ended
<1> QED
  BY <1>1, <1>2, PTL DEF Main!Spec

(* main sees no client only when every connection it accepted has left.    *)
THEOREM IdleIsIdle == IsFiniteSet(Client) => (Main!Spec => []Main!IdleMeansLeft)
<1> SUFFICES ASSUME IsFiniteSet(Client) PROVE Main!Spec => []Main!IdleMeansLeft
  OBVIOUS
<1>2. Main!Spec => []Main!ExperimentsInv
  BY ExperimentsSound
<1>1. Main!ExperimentsInv => Main!IdleMeansLeft
  BY DEF Main!ExperimentsInv
<1> QED
  BY <1>1, <1>2, PTL

(* main ends after the last of its serving threads.                        *)
THEOREM MainEndsLast == IsFiniteSet(Client) => (Main!Spec => []Main!MainOutlives)
<1> SUFFICES ASSUME IsFiniteSet(Client) PROVE Main!Spec => []Main!MainOutlives
  OBVIOUS
<1>2. Main!Spec => []Main!ExperimentsInv
  BY ExperimentsSound
<1>1. Main!ExperimentsInv => Main!MainOutlives
  BY DEF Main!ExperimentsInv
<1> QED
  BY <1>1, <1>2, PTL

(* No experiment is reported before it is over, or twice.                  *)
THEOREM ReportsOnce == IsFiniteSet(Client) => (Main!Spec => Main!OneReportEach)
<1> SUFFICES ASSUME IsFiniteSet(Client) PROVE Main!Spec => Main!OneReportEach
  OBVIOUS
<1> DEFINE A == reports' # reports \/ (reported' /\ ~reported) =>
                  unreported # {} /\ unreported \subseteq Main!Left
<1>2. Main!Spec => []Main!ExperimentsInv
  BY ExperimentsSound
<1>1. Main!ExperimentsInv /\ [Main!Next]_(Main!vars) => [A]_(Main!vars)
  <2> SUFFICES ASSUME Main!ExperimentsInv, Main!Next,
                      reports' # reports \/ (reported' /\ ~reported)
               PROVE  unreported # {} /\ unreported \subseteq Main!Left
    BY DEF Main!vars
  <2>1. Main!Report
    BY DEF Main!Next, Main!MainStep, Main!ServeStep, Main!CheckQuit, Main!Accept,
         Main!CountClient, Main!NothingToAccept,
       Main!NothingToReport, Main!Join, Main!End, Main!Connect, Main!Serve, Main!Leave, Main!CleanUp, Main!Interrupt, Main!Ended, Main!vars
  <2> QED
    BY <2>1 DEF Main!Report, Main!Unreported, Main!ExperimentsInv, Main!ReportDue,
         Main!IdleMeansLeft, Main!TypeOK
<1> QED
  BY <1>1, <1>2, PTL DEF Main!Spec, Main!OneReportEach

=============================================================================
