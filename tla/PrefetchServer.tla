--------------------------- MODULE PrefetchServer ---------------------------
(***************************************************************************)
(* The request path of glakv_server: one serve_client thread per           *)
(* connection, the pool of worker_threads, the tasks they share, and the   *)
(* speculative prefetching of prefetch_or_submit.                          *)
(*                                                                         *)
(* A task is a heap object that the serving thread allocates and deletes   *)
(* and a worker executes.  Its task_mutex is held by a worker from Take to *)
(* Finish; the serving thread takes it only for the few statements of one  *)
(* step, so the mutex needs no variable (see Locked).                      *)
(*                                                                         *)
(* The lists of tasks are sets, which a loop visits in some fixed order.   *)
(* The order makes a difference only between two predictions of one key,   *)
(* which no scan meets together (DistinctPredictions) when DBSize >= 3     *)
(* and NumPrefetch <= DBSize - DBSize \div 3; beyond that the fixed order  *)
(* stands for one of the orders of push_back.  The task queue is a set as  *)
(* well, from which a worker takes any task: the concurrent queue promises *)
(* no order between its producers, and every thread is one.                *)
(***************************************************************************)
EXTENDS Integers, FiniteSets

CONSTANTS
  Client,        \* the connections, each with its serve_client thread
  Worker,        \* the threads of the pool
  Task,          \* the addresses a task can be allocated at (a bound)
  NoOne,         \* no client, no task: a null pointer, an empty capture list
  DBSize,        \* db.size()
  NumPrefetch,   \* num_prefetch, or 0 when the flag prefetch is off
  Commands,      \* the requests clients send: a subset of get, put, del
  Asked,         \* the keys they send them for (a bound)
  MaxRequests,   \* how many of them each client sends (a bound)
  MayDrop,       \* can a connection break before Quit is sent?
  MayInterrupt   \* can the server receive SIGINT?

ASSUME ServerAssumption ==
  /\ NoOne \notin Client \cup Worker \cup Task
  /\ Client \cap Worker = {}
  /\ DBSize \in Nat \ {0}
  /\ NumPrefetch \in Nat
  /\ Commands \subseteq {"get", "put", "del"}
  /\ Asked \subseteq 0 .. DBSize - 1
  /\ MaxRequests \in Nat
  /\ MayDrop \in BOOLEAN
  /\ MayInterrupt \in BOOLEAN

Thread == Client \cup Worker
Key == 0 .. DBSize - 1

(***************************************************************************)
(* struct task.  A value is empty or the VAL_LEN bytes that fakeDB::get    *)
(* writes; a callback is known by what it does and by the serve_client     *)
(* frame its closure points into.                                          *)
(***************************************************************************)
Callback == [kind : {"get", "ack"}, frame : Client]
            \cup [kind : {"silent"}, frame : {NoOne}]
Silent == [kind |-> "silent", frame |-> NoOne]
TaskRecord ==
  [operation  : {"get", "put", "del", "fetch", "noop"},
   key        : Key,
   val        : {"empty", "whole"},
   task_state : {"free", "in_queue", "processing", "finished", "detached"},
   callback   : Callback]
Unallocated ==
  [operation |-> "noop", key |-> 0, val |-> "empty",
   task_state |-> "free", callback |-> Silent]
NewTask(op, k, v, cb) ==
  [operation |-> op, key |-> k, val |-> v,
   task_state |-> "in_queue", callback |-> cb]

(* The commands on the wire; glakv_client sends the next one only when the *)
(* last was answered.                                                      *)
Request == [op : {"none", "get", "put", "del", "quit"}, key : Key]
NoRequest == [op |-> "none", key |-> 0]
Quit == [op |-> "quit", key |-> 0]

VARIABLES
  \* the remote end of each connection and the bytes in flight
  peer,              \* what the remote client does
  sent,              \* how many requests it sent
  req,               \* the request the server has not read yet
  out,               \* how many responses the client has not read yet
  \* shared by the threads of the server
  task,              \* the heap of tasks
  task_queue,        \* ConcurrentQueue<task *>
  quit,              \* set by the signal handler
  stop,              \* the workers that set_stop has reached
  \* each worker
  wpc,               \* where it is in worker_thread::start
  db_task,           \* the task it dequeued
  \* each serve_client frame
  cpc,               \* where it is
  key,               \* key
  prefetch_tasks, deprecated_tasks, tasks,     \* its three lists
  tail_lost,         \* was the end of prefetch_tasks corrupted by a race?
  todo,              \* the elements the current loop has still to visit
  iter,              \* the element it visits
  prefetch_success, prediction_success, val,   \* locals of prefetch_or_submit
  response_count,    \* response_count
  \* every thread
  count              \* count, in prefetch_for_key

wire == <<peer, sent, req, out>>
pool == <<wpc, db_task, stop>>
scan == <<todo, iter, prefetch_success, prediction_success, val>>
lists == <<prefetch_tasks, deprecated_tasks, tasks, tail_lost>>
frame == <<cpc, key, lists, scan, response_count>>
vars == <<wire, task, task_queue, quit, pool, frame, count>>

TypeOK ==
  /\ peer \in [Client -> {"idle", "waiting", "gone"}]
  /\ sent \in [Client -> Nat]
  /\ req \in [Client -> Request]
  /\ out \in [Client -> Nat]
  /\ task \in [Task -> TaskRecord]
  /\ task_queue \subseteq Task
  /\ quit \in BOOLEAN
  /\ stop \subseteq Worker
  /\ wpc \in [Worker -> {"poll", "callback", "finish", "detach", "exited"}]
  /\ db_task \in [Worker -> Task \cup {NoOne}]
  /\ cpc \in [Client -> {"loop", "read", "scan", "recheck", "erase", "reap",
                         "cancel", "sweep", "prefetch", "free_prefetch",
                         "free_deprecated", "free_tasks", "done"}]
  /\ key \in [Client -> Key]
  /\ prefetch_tasks \in [Client -> SUBSET Task]
  /\ deprecated_tasks \in [Client -> SUBSET Task]
  /\ tasks \in [Client -> SUBSET Task]
  /\ tail_lost \in [Client -> BOOLEAN]
  /\ todo \in [Client -> SUBSET Task]
  /\ iter \in [Client -> Task \cup {NoOne}]
  /\ prefetch_success \in [Client -> BOOLEAN]
  /\ prediction_success \in [Client -> BOOLEAN]
  /\ val \in [Client -> {"empty", "whole"}]
  /\ response_count \in [Client -> Nat]
  /\ count \in [Thread -> 0 .. NumPrefetch]

Init ==
  /\ peer = [c \in Client |-> "idle"]
  /\ sent = [c \in Client |-> 0]
  /\ req = [c \in Client |-> NoRequest]
  /\ out = [c \in Client |-> 0]
  /\ task = [t \in Task |-> Unallocated]
  /\ task_queue = {}
  /\ quit = FALSE
  /\ stop = {}
  /\ wpc = [w \in Worker |-> "poll"]
  /\ db_task = [w \in Worker |-> NoOne]
  /\ cpc = [c \in Client |-> "loop"]
  /\ key = [c \in Client |-> 0]
  /\ prefetch_tasks = [c \in Client |-> {}]
  /\ deprecated_tasks = [c \in Client |-> {}]
  /\ tasks = [c \in Client |-> {}]
  /\ tail_lost = [c \in Client |-> FALSE]
  /\ todo = [c \in Client |-> {}]
  /\ iter = [c \in Client |-> NoOne]
  /\ prefetch_success = [c \in Client |-> FALSE]
  /\ prediction_success = [c \in Client |-> FALSE]
  /\ val = [c \in Client |-> "empty"]
  /\ response_count = [c \in Client |-> 0]
  /\ count = [t \in Thread |-> 0]

-----------------------------------------------------------------------------
(* Memory, mutexes and the steps that several handlers share.              *)

StateOf(t) == task[t].task_state
Free == {t \in Task : StateOf(t) = "free"}
Alive(c) == cpc[c] # "done"
Completed_Mutant(t) == StateOf(t) = "detached"
Completed(t) == StateOf(t) \in {"finished", "detached"}
(* The serving thread may delete the task.                                 *)
Deletable_Mutant(t) == StateOf(t) \in {"finished", "detached"}
Deletable(t) == StateOf(t) = "detached"

(* A worker holds the task_mutex of its task from Take to Finish.          *)
Locked(t) == \E w \in Worker : db_task[w] = t /\ wpc[w] \in {"callback", "finish"}

(* The element of a list that a loop visits next.                          *)
First(S) == CHOOSE t \in S : TRUE

(* Allocating takes some free address, always the same one for the same    *)
(* heap: which one makes no difference to the program.                     *)
Fresh == CHOOSE t \in Task : StateOf(t) = "free"
Submit(t, record) ==
  /\ Free # {}
  /\ task' = [task EXCEPT ![t] = record]
  /\ task_queue' = task_queue \cup {t}

Goto(c, label) == cpc' = [cpc EXCEPT ![c] = label]
WGoto(w, label) == wpc' = [wpc EXCEPT ![w] = label]

(* A response is bytes in the socket buffer of a client that is there.     *)
Write(c) == out' = [out EXCEPT ![c] = IF peer[c] = "gone" THEN @ ELSE @ + 1]

(* prefetch_tasks.push_back(t).  Nothing protects the list: when the       *)
(* serving thread unlinks the last element at the same moment, the new     *)
(* node can end up off the chain, and the tail pointer with it: elements   *)
(* pushed later hang on the lost node until the last element is unlinked.  *)
PushBack(c, t) ==
  \/ /\ ~tail_lost[c]
     /\ prefetch_tasks' = [prefetch_tasks EXCEPT ![c] = @ \cup {t}]
     /\ todo' = [todo EXCEPT ![c] =
                   IF cpc[c] \in {"scan", "recheck", "erase"} THEN @ \cup {t} ELSE @]
     /\ UNCHANGED tail_lost
  \/ /\ tail_lost[c] \/ cpc[c] = "erase"
     /\ \E b \in {TRUE, tail_lost[c]} : tail_lost' = [tail_lost EXCEPT ![c] = b]
     /\ UNCHANGED <<prefetch_tasks, todo>>

Prediction(k, i) == (k + i + DBSize \div 3) % DBSize

(* One round of the loop of prefetch_for_key, run by thread th.            *)
PrefetchForKey(th, c, k) ==
  /\ count[th] < NumPrefetch
  /\ Submit(Fresh, NewTask("fetch", Prediction(k, count[th]), "empty", Silent))
  /\ PushBack(c, Fresh)
  /\ count' = [count EXCEPT ![th] = @ + 1]
  /\ UNCHANGED <<deprecated_tasks, tasks>>

-----------------------------------------------------------------------------
(* The remote clients (glakv_client): one request at a time, then Quit.    *)

SendRequest(c) ==
  /\ peer[c] = "idle" /\ req[c] = NoRequest
  /\ sent[c] < MaxRequests
  /\ \E op \in Commands, k \in Asked : req' = [req EXCEPT ![c] = [op |-> op, key |-> k]]
  /\ sent' = [sent EXCEPT ![c] = @ + 1]
  /\ peer' = [peer EXCEPT ![c] = "waiting"]
  /\ UNCHANGED <<out, task, task_queue, quit, pool, frame, count>>

ReadResponse(c) ==
  /\ peer[c] = "waiting" /\ out[c] > 0
  /\ out' = [out EXCEPT ![c] = @ - 1]
  /\ peer' = [peer EXCEPT ![c] = "idle"]
  /\ UNCHANGED <<sent, req, task, task_queue, quit, pool, frame, count>>

(* send_quit: Quit, then close.                                            *)
SendQuit(c) ==
  /\ peer[c] = "idle" /\ req[c] = NoRequest
  /\ req' = [req EXCEPT ![c] = Quit]
  /\ peer' = [peer EXCEPT ![c] = "gone"]
  /\ out' = [out EXCEPT ![c] = 0]
  /\ UNCHANGED <<sent, task, task_queue, quit, pool, frame, count>>

(* The client dies, or the network does.                                   *)
Drop(c) ==
  /\ MayDrop /\ peer[c] # "gone"
  /\ peer' = [peer EXCEPT ![c] = "gone"]
  /\ out' = [out EXCEPT ![c] = 0]
  /\ UNCHANGED <<sent, req, task, task_queue, quit, pool, frame, count>>

-----------------------------------------------------------------------------
(* serve_client: the command loop.                                         *)

(* while (!quit), then read blocks until there is something to read.       *)
CheckQuit(c) ==
  /\ cpc[c] = "loop"
  /\ Goto(c, IF quit THEN "free_prefetch" ELSE "read")
  /\ UNCHANGED <<wire, task, task_queue, quit, pool, key, lists, scan,
                 response_count, count>>

ReadGet(c) ==
  /\ cpc[c] = "read" /\ req[c].op = "get"
  /\ req' = [req EXCEPT ![c] = NoRequest]
  /\ key' = [key EXCEPT ![c] = req[c].key]
  /\ response_count' = [response_count EXCEPT ![c] = 0]
  /\ todo' = [todo EXCEPT ![c] = prefetch_tasks[c]]
  /\ Goto(c, "scan")
  /\ UNCHANGED <<peer, sent, out, task, task_queue, quit, pool, lists, iter,
                 prefetch_success, prediction_success, val, count>>

(* Put and Del are submitted and forgotten: no list keeps the task.        *)
ReadPutOrDel(c) ==
  /\ cpc[c] = "read" /\ req[c].op \in {"put", "del"}
  /\ req' = [req EXCEPT ![c] = NoRequest]
  /\ key' = [key EXCEPT ![c] = req[c].key]
  /\ Submit(Fresh, NewTask(req[c].op, req[c].key,
                           IF req[c].op = "put" THEN "whole" ELSE "empty",
                           [kind |-> "ack", frame |-> c]))
  /\ Goto(c, "loop")
  /\ UNCHANGED <<peer, sent, out, quit, pool, lists, scan, response_count, count>>

(* Quit, or the end of the stream, ends the loop.                          *)
ReadQuit(c) ==
  /\ cpc[c] = "read"
  /\ req[c] = Quit \/ (req[c] = NoRequest /\ peer[c] = "gone")
  /\ req' = [req EXCEPT ![c] = NoRequest]
  /\ Goto(c, "free_prefetch")
  /\ UNCHANGED <<peer, sent, out, task, task_queue, quit, pool, key, lists, scan,
                 response_count, count>>

-----------------------------------------------------------------------------
(* prefetch_or_submit, first loop: is the key among the predictions?       *)

SkipOther_Mutant(c) ==
  /\ cpc[c] = "scan" /\ todo[c] # {}
  /\ task[First(todo[c])].key # key[c]
  /\ todo' = [todo EXCEPT ![c] = @ \ {First(@)}]
  /\ UNCHANGED <<wire, task, task_queue, quit, pool, cpc, key, lists, iter,
                 prefetch_success, prediction_success, val, response_count, count>>

(* A prediction of another key is deprecated without looking at it.        *)
SkipOther(c) ==
  /\ cpc[c] = "scan" /\ todo[c] # {}
  /\ LET t == First(todo[c]) IN
       /\ task[t].key # key[c]
       /\ todo' = [todo EXCEPT ![c] = @ \ {t}]
       /\ iter' = [iter EXCEPT ![c] = t]
  /\ Goto(c, "erase")
  /\ UNCHANGED <<wire, task, task_queue, quit, pool, key, lists,
                 prefetch_success, prediction_success, val, response_count, count>>

(* A prediction of this key: under its mutex, take its value when it is    *)
(* there, or leave it the callback that will answer.                       *)
MatchKey(c) ==
  /\ cpc[c] = "scan" /\ todo[c] # {}
  /\ LET t == First(todo[c]) IN
       /\ task[t].key = key[c] /\ ~Locked(t)
       /\ todo' = [todo EXCEPT ![c] = @ \ {t}]
       /\ iter' = [iter EXCEPT ![c] = t]
       /\ \/ /\ Completed(t)
             /\ prefetch_success' = [prefetch_success EXCEPT ![c] = TRUE]
             /\ val' = [val EXCEPT ![c] = task[t].val]
             /\ UNCHANGED <<prediction_success, task>>
          \/ /\ ~Completed(t) /\ ~prefetch_success[c] /\ ~prediction_success[c]
             /\ prediction_success' = [prediction_success EXCEPT ![c] = TRUE]
             /\ task' = [task EXCEPT ![t].callback = [kind |-> "get", frame |-> c]]
             /\ UNCHANGED <<prefetch_success, val>>
          \/ /\ ~Completed(t) /\ (prefetch_success[c] \/ prediction_success[c])
             /\ UNCHANGED <<prefetch_success, prediction_success, val, task>>
  /\ Goto(c, "recheck")
  /\ UNCHANGED <<wire, task_queue, quit, pool, key, lists, response_count, count>>

Recheck_Mutant(c) ==
  /\ cpc[c] = "recheck"
  /\ Goto(c, "erase")
  /\ UNCHANGED <<wire, task, task_queue, quit, pool, key, lists, scan,
                 response_count, count>>

(* Line 222 reads task_state again, without the mutex.                     *)
Recheck(c) ==
  /\ cpc[c] = "recheck"
  /\ Goto(c, IF Completed(iter[c]) THEN "erase" ELSE "scan")
  /\ UNCHANGED <<wire, task, task_queue, quit, pool, key, lists, scan,
                 response_count, count>>

Unlink_Mutant(list, t) == list
Unlink(list, t) == list \ {t}

(* Unlinking the last visible element repairs the tail pointer.            *)
Erase(c) ==
  /\ cpc[c] = "erase"
  /\ prefetch_tasks' = [prefetch_tasks EXCEPT ![c] = Unlink(@, iter[c])]
  /\ deprecated_tasks' = [deprecated_tasks EXCEPT ![c] = @ \cup {iter[c]}]
  /\ \E b \in {FALSE, tail_lost[c] /\ prefetch_tasks[c] # {iter[c]}} :
       tail_lost' = [tail_lost EXCEPT ![c] = b]
  /\ Goto(c, "scan")
  /\ UNCHANGED <<wire, task, task_queue, quit, pool, key, tasks, scan,
                 response_count, count>>

(* The end of a loop, and the start of the next one.                       *)
EndScan(c) ==
  /\ cpc[c] = "scan" /\ todo[c] = {}
  /\ todo' = [todo EXCEPT ![c] = deprecated_tasks[c]]
  /\ Goto(c, "reap")
  /\ UNCHANGED <<wire, task, task_queue, quit, pool, key, lists, iter,
                 prefetch_success, prediction_success, val, response_count, count>>

(* Second loop: delete the deprecated tasks that are over, ...             *)
Reap(c) ==
  /\ cpc[c] = "reap" /\ todo[c] # {}
  /\ LET t == First(todo[c]) IN
       /\ todo' = [todo EXCEPT ![c] = @ \ {t}]
       /\ \/ /\ Deletable(t)
             /\ task' = [task EXCEPT ![t] = Unallocated]
             /\ deprecated_tasks' = [deprecated_tasks EXCEPT ![c] = @ \ {t}]
             /\ UNCHANGED <<cpc, iter>>
          \/ /\ StateOf(t) = "in_queue" /\ task[t].operation # "noop"
             /\ iter' = [iter EXCEPT ![c] = t]
             /\ Goto(c, "cancel")
             /\ UNCHANGED <<task, deprecated_tasks>>
          \/ /\ ~Deletable(t)
             /\ StateOf(t) # "in_queue" \/ task[t].operation = "noop"
             /\ UNCHANGED <<cpc, iter, task, deprecated_tasks>>
  /\ UNCHANGED <<wire, task_queue, quit, pool, key, prefetch_tasks, tasks, tail_lost,
                 prefetch_success, prediction_success, val, response_count, count>>

(* ... and turn the queued ones into no-ops.  The mutex is taken after the *)
(* state was read, so the task may have been executed by now.              *)
Cancel(c) ==
  /\ cpc[c] = "cancel" /\ ~Locked(iter[c])
  /\ task' = [task EXCEPT ![iter[c]].operation = "noop"]
  /\ Goto(c, "reap")
  /\ UNCHANGED <<wire, task_queue, quit, pool, key, lists, scan, response_count, count>>

EndReap(c) ==
  /\ cpc[c] = "reap" /\ todo[c] = {}
  /\ todo' = [todo EXCEPT ![c] = tasks[c]]
  /\ Goto(c, "sweep")
  /\ UNCHANGED <<wire, task, task_queue, quit, pool, key, lists, iter,
                 prefetch_success, prediction_success, val, response_count, count>>

(* Third loop: delete the get tasks that are over.                         *)
Sweep(c) ==
  /\ cpc[c] = "sweep" /\ todo[c] # {}
  /\ LET t == First(todo[c]) IN
       /\ todo' = [todo EXCEPT ![c] = @ \ {t}]
       /\ \/ /\ Deletable(t)
             /\ task' = [task EXCEPT ![t] = Unallocated]
             /\ tasks' = [tasks EXCEPT ![c] = @ \ {t}]
          \/ /\ ~Deletable(t)
             /\ UNCHANGED <<task, tasks>>
  /\ UNCHANGED <<wire, task_queue, quit, pool, cpc, key, prefetch_tasks,
                 deprecated_tasks, tail_lost, iter, prefetch_success,
                 prediction_success, val, response_count, count>>

(* No prediction to use: a get task of its own.  Otherwise a hijacked      *)
(* prediction answers, or this thread does when the value is there.        *)
NeedsTask_Mutant(c) == ~prefetch_success[c]
NeedsTask(c) == ~prediction_success[c] /\ ~prefetch_success[c]
SubmitGet(c) ==
  /\ cpc[c] = "sweep" /\ todo[c] = {}
  /\ \/ /\ NeedsTask(c)
        /\ Submit(Fresh, NewTask("get", key[c], "empty", [kind |-> "get", frame |-> c]))
        /\ tasks' = [tasks EXCEPT ![c] = @ \cup {Fresh}]
     \/ /\ ~NeedsTask(c)
        /\ UNCHANGED <<task, task_queue, tasks>>
  /\ Goto(c, IF prefetch_success[c] THEN "prefetch" ELSE "loop")
  /\ prefetch_success' = [prefetch_success EXCEPT ![c] = FALSE]
  /\ prediction_success' = [prediction_success EXCEPT ![c] = FALSE]
  /\ iter' = [iter EXCEPT ![c] = NoOne]
  /\ count' = [count EXCEPT ![c] = 0]
  /\ UNCHANGED <<wire, quit, pool, key, prefetch_tasks, deprecated_tasks,
                 tail_lost, todo, val, response_count>>

ServePrefetch(c) ==
  /\ cpc[c] = "prefetch"
  /\ PrefetchForKey(c, c, key[c])
  /\ UNCHANGED <<wire, quit, pool, cpc, key, iter, prefetch_success,
                 prediction_success, val, response_count>>

Answer(c) ==
  /\ cpc[c] = "prefetch" /\ count[c] = NumPrefetch
  /\ response_count' = [response_count EXCEPT ![c] = @ + 1]
  /\ Write(c)
  /\ val' = [val EXCEPT ![c] = "empty"]
  /\ count' = [count EXCEPT ![c] = 0]
  /\ Goto(c, "loop")
  /\ UNCHANGED <<peer, sent, req, task, task_queue, quit, pool, key, lists, todo, iter,
                 prefetch_success, prediction_success>>

-----------------------------------------------------------------------------
(* After the loop: delete_tasks on each list in turn, waiting for a task   *)
(* to be detached before deleting it; then close and return, which ends    *)
(* the life of the frame that the callbacks point into.                    *)

DeleteFirst(list) ==
  /\ list # {} /\ Deletable(First(list))
  /\ task' = [task EXCEPT ![First(list)] = Unallocated]

DeleteTask(c) ==
  /\ \/ /\ cpc[c] = "free_prefetch" /\ DeleteFirst(prefetch_tasks[c])
        /\ prefetch_tasks' = [prefetch_tasks EXCEPT ![c] = @ \ {First(@)}]
        /\ UNCHANGED <<deprecated_tasks, tasks>>
     \/ /\ cpc[c] = "free_deprecated" /\ DeleteFirst(deprecated_tasks[c])
        /\ deprecated_tasks' = [deprecated_tasks EXCEPT ![c] = @ \ {First(@)}]
        /\ UNCHANGED <<prefetch_tasks, tasks>>
     \/ /\ cpc[c] = "free_tasks" /\ DeleteFirst(tasks[c])
        /\ tasks' = [tasks EXCEPT ![c] = @ \ {First(@)}]
        /\ UNCHANGED <<prefetch_tasks, deprecated_tasks>>
  /\ UNCHANGED <<wire, task_queue, quit, pool, cpc, key, tail_lost, scan,
                 response_count, count>>

Drained_Mutant(list) == \A t \in list : StateOf(t) # "processing"
Drained(list) == list = {}

NextList(c) ==
  /\ \/ /\ cpc[c] = "free_prefetch" /\ Drained(prefetch_tasks[c])
        /\ Goto(c, "free_deprecated")
     \/ /\ cpc[c] = "free_deprecated" /\ Drained(deprecated_tasks[c])
        /\ Goto(c, "free_tasks")
  /\ UNCHANGED <<wire, task, task_queue, quit, pool, key, lists, scan,
                 response_count, count>>

Return(c) ==
  /\ cpc[c] = "free_tasks" /\ Drained(tasks[c])
  /\ prefetch_tasks' = [prefetch_tasks EXCEPT ![c] = {}]
  /\ deprecated_tasks' = [deprecated_tasks EXCEPT ![c] = {}]
  /\ tasks' = [tasks EXCEPT ![c] = {}]
  /\ tail_lost' = [tail_lost EXCEPT ![c] = FALSE]
  /\ Goto(c, "done")
  /\ UNCHANGED <<wire, task, task_queue, quit, pool, key, scan, response_count,
                 count>>

(* A client waiting on a connection the server closed reads the end of it. *)
ReadEnd(c) ==
  /\ peer[c] = "waiting" /\ out[c] = 0 /\ ~Alive(c)
  /\ peer' = [peer EXCEPT ![c] = "gone"]
  /\ UNCHANGED <<sent, req, out, task, task_queue, quit, pool, frame, count>>

-----------------------------------------------------------------------------
(* worker_thread::start                                                    *)

CallbackOf(w) == task[db_task[w]].callback

(* try_dequeue, lock the task, execute it.  Between dequeuing and locking  *)
(* nobody can tell whether the task is still queued; a failed try_dequeue  *)
(* changes nothing, the worker sleeps and tries again.  fakeDB::get always *)
(* succeeds and fills the value; the other operations leave the task as it *)
(* is.                                                                     *)
Take(w) ==
  /\ wpc[w] = "poll" /\ w \notin stop
  /\ \E t \in task_queue :
       /\ task_queue' = task_queue \ {t}
       /\ db_task' = [db_task EXCEPT ![w] = t]
       /\ task' = [task EXCEPT
            ![t].task_state = "processing",
            ![t].val = IF task[t].operation \in {"get", "fetch"} THEN "whole" ELSE @]
  /\ WGoto(w, "callback")
  /\ count' = [count EXCEPT ![w] = 0]
  /\ UNCHANGED <<wire, quit, stop, frame>>

(* The callback of a get predicts the next keys, and then answers.         *)
CallPrefetch(w) ==
  /\ wpc[w] = "callback" /\ CallbackOf(w).kind = "get"
  /\ PrefetchForKey(w, CallbackOf(w).frame, task[db_task[w]].key)
  /\ UNCHANGED <<wire, quit, pool, cpc, key, iter, prefetch_success,
                 prediction_success, val, response_count>>

CallAnswer(w) ==
  LET c == CallbackOf(w).frame IN
  /\ wpc[w] = "callback" /\ CallbackOf(w).kind = "get"
  /\ count[w] = NumPrefetch
  /\ response_count' = [response_count EXCEPT ![c] = @ + 1]
  /\ Write(c)
  /\ count' = [count EXCEPT ![w] = 0]
  /\ WGoto(w, "finish")
  /\ UNCHANGED <<peer, sent, req, task, task_queue, quit, db_task, stop, cpc, key,
                 lists, scan>>

(* The callback of put and del reads sockfd from the frame.  Nobody waits  *)
(* for these tasks: when the frame is gone the number read is arbitrary,   *)
(* and the byte reaches any open connection, or none.                      *)
CallAck(w) ==
  /\ wpc[w] = "callback" /\ CallbackOf(w).kind = "ack"
  /\ \/ Alive(CallbackOf(w).frame) /\ Write(CallbackOf(w).frame)
     \/ /\ ~Alive(CallbackOf(w).frame)
        /\ (\E c \in Client : Alive(c) /\ Write(c)) \/ UNCHANGED out
  /\ WGoto(w, "finish")
  /\ UNCHANGED <<peer, sent, req, task, task_queue, quit, db_task, stop, frame, count>>

(* After the callback, which of a prefetch is an empty lambda: task_state  *)
(* is finished, and the mutex is released.                                 *)
Finish(w) ==
  /\ wpc[w] = "finish" \/ (wpc[w] = "callback" /\ CallbackOf(w).kind = "silent")
  /\ task' = [task EXCEPT ![db_task[w]].task_state = "finished"]
  /\ WGoto(w, "detach")
  /\ UNCHANGED <<wire, task_queue, quit, db_task, stop, frame, count>>

(* task_state = detached, without the mutex: the last touch of the task.   *)
Detach_Mutant(w) ==
  /\ wpc[w] = "detach"
  /\ db_task' = [db_task EXCEPT ![w] = NoOne]
  /\ WGoto(w, "poll")
  /\ UNCHANGED <<wire, task, task_queue, quit, stop, frame, count>>

Detach(w) ==
  /\ wpc[w] = "detach"
  /\ task' = [task EXCEPT ![db_task[w]].task_state = "detached"]
  /\ db_task' = [db_task EXCEPT ![w] = NoOne]
  /\ WGoto(w, "poll")
  /\ UNCHANGED <<wire, task_queue, quit, stop, frame, count>>

-----------------------------------------------------------------------------
(* SIGINT, and the end of main: join the serving threads, then destroy the *)
(* pool, which stops the workers whatever is left in the queue.            *)

Interrupt ==
  /\ MayInterrupt /\ ~quit
  /\ quit' = TRUE
  /\ UNCHANGED <<wire, task, task_queue, pool, frame, count>>

SetStop(w) ==
  /\ quit /\ \A c \in Client : ~Alive(c)
  /\ w \notin stop
  /\ stop' = stop \cup {w}
  /\ UNCHANGED <<wire, task, task_queue, quit, wpc, db_task, frame, count>>

Exit_Mutant(w) ==
  /\ wpc[w] = "poll" /\ w \in stop /\ task_queue = {}
  /\ WGoto(w, "exited")
  /\ UNCHANGED <<wire, task, task_queue, quit, db_task, stop, frame, count>>

Exit(w) ==
  /\ wpc[w] = "poll" /\ w \in stop
  /\ WGoto(w, "exited")
  /\ UNCHANGED <<wire, task, task_queue, quit, db_task, stop, frame, count>>

(* Everything has come to rest: the server waits for connections, or ends. *)
Rest ==
  /\ \A c \in Client : ~Alive(c) /\ peer[c] = "gone"
  /\ \A w \in Worker : wpc[w] = "exited" \/ (wpc[w] = "poll" /\ task_queue = {})
  /\ UNCHANGED vars

-----------------------------------------------------------------------------

PeerStep(c) == SendRequest(c) \/ ReadResponse(c) \/ SendQuit(c) \/ Drop(c) \/ ReadEnd(c)

ServeStep(c) ==
  \/ CheckQuit(c) \/ ReadGet(c) \/ ReadPutOrDel(c) \/ ReadQuit(c)
  \/ SkipOther(c) \/ MatchKey(c) \/ Recheck(c) \/ Erase(c) \/ EndScan(c)
  \/ Reap(c) \/ Cancel(c) \/ EndReap(c) \/ Sweep(c)
  \/ SubmitGet(c) \/ ServePrefetch(c) \/ Answer(c)
  \/ DeleteTask(c) \/ NextList(c) \/ Return(c)

WorkerStep(w) ==
  \/ Take(w) \/ CallPrefetch(w) \/ CallAnswer(w) \/ CallAck(w)
  \/ Finish(w) \/ Detach(w) \/ Exit(w)

Next ==
  \/ \E c \in Client : PeerStep(c) \/ ServeStep(c)
  \/ \E w \in Worker : WorkerStep(w) \/ SetStop(w)
  \/ Interrupt
  \/ Rest

Spec == Init /\ [][Next]_vars

(* The scheduler runs every thread of the server that can run; nothing is  *)
(* assumed of the clients or of the signal.                                *)
Fairness ==
  /\ \A c \in Client : WF_vars(ServeStep(c))
  /\ \A w \in Worker : WF_vars(WorkerStep(w)) /\ WF_vars(SetStop(w))

FairSpec == Spec /\ Fairness

-----------------------------------------------------------------------------
(* Safety.                                                                 *)

(* The tasks that a frame has to delete.                                   *)
Listed(c) == prefetch_tasks[c] \cup deprecated_tasks[c] \cup tasks[c]

(* A freed task is reachable from nowhere: not from the queue, not from a  *)
(* worker, which touches its task once more after unlocking it, and not    *)
(* from a list of a live frame.                                            *)
NoDanglingTask ==
  \A t \in Task : StateOf(t) = "free" =>
    /\ t \notin task_queue
    /\ \A w \in Worker : db_task[w] # t
    /\ \A c \in Client : t \notin Listed(c)

(* Every task has one owner: no two lists hold it, so no task is deleted   *)
(* twice, by one connection or by two.                                     *)
OneOwner ==
  \A c, d \in Client :
    /\ prefetch_tasks[c] \cap deprecated_tasks[c] = {}
    /\ prefetch_tasks[c] \cap tasks[c] = {}
    /\ deprecated_tasks[c] \cap tasks[c] = {}
    /\ c # d => Listed(c) \cap Listed(d) = {}

(* Whoever still has to answer connection c: a task with its callback, not *)
(* called yet, or the serving thread itself after a prefetch hit.          *)
Bearers(c) ==
  {t \in Task : /\ task[t].callback.frame = c
                /\ StateOf(t) \in {"in_queue", "processing"}
                /\ \A w \in Worker : db_task[w] = t => wpc[w] # "finish"}

(* Deprecating the other predictions never cancels the one that owes an    *)
(* answer: a task turned into a no-op answers nobody.                      *)
CancelledAreSilent ==
  \A t \in Task :
    StateOf(t) \in {"in_queue", "processing"} /\ task[t].operation = "noop"
      => task[t].callback = Silent

(* A request the server has read is never forgotten: until a response is   *)
(* on the wire, somebody bears it.                                         *)
NoForgottenRequest ==
  \A c \in Client :
    cpc[c] \in {"loop", "read"} /\ peer[c] = "waiting" /\ req[c] = NoRequest /\ out[c] = 0
      => \E t \in Bearers(c) : t \in task_queue \/ \E w \in Worker : db_task[w] = t

(* A scan finds at most one prediction of the key it looks for, though a   *)
(* worker may add predictions to the list all along; and once the scan has *)
(* deprecated the old predictions no key is listed twice.                  *)
DistinctPredictions ==
  \A c \in Client : \A s, t \in prefetch_tasks[c] :
    /\ task[s].key = task[t].key
    /\ cpc[c] \in {"scan", "recheck", "erase"} => task[s].key = key[c]
    => s = t

(* assert(response_count == 1), on both answering paths.                   *)
AssertResponseCount == \A c \in Client : response_count[c] <= 1

(* More: once a get was answered no other answer to it can be coming.      *)
AnsweredOnce ==
  /\ AssertResponseCount
  /\ \A c \in Client :
     response_count[c] = 1 /\ req[c] = NoRequest /\ cpc[c] # "prefetch"
         => \A t \in Bearers(c) : task[t].callback.kind = "ack"

(* assert(res[0] == 1) and assert(value.size() == VAL_LEN): what answers a *)
(* get is a whole value, from a worker or from a prefetched task.          *)
AnswersWhole ==
  /\ \A w \in Worker :
       wpc[w] = "callback" /\ CallbackOf(w).kind = "get" => task[db_task[w]].val = "whole"
  /\ \A c \in Client : cpc[c] = "prefetch" => val[c] = "whole"

(* A get that was read is answered once and with a whole value, whichever  *)
(* of the three parties answers, and no other task answers it: what the    *)
(* scan, the hijack and the cancelling of 203-254 have to keep together.   *)
AnsweringInv ==
  /\ CancelledAreSilent
  /\ NoForgottenRequest
  /\ AnsweredOnce
  /\ AnswersWhole

(* The callback of a get points into the frame of serve_client, and is     *)
(* never called, nor still waiting to be, after the frame has returned.    *)
NoStaleFrame ==
  \A c \in Client : ~Alive(c) => \A t \in Bearers(c) : task[t].callback.kind # "get"

-----------------------------------------------------------------------------
(* The invariant that the proofs of PrefetchServerProofs go by.            *)

QueuedTasks == \A t \in task_queue : StateOf(t) = "in_queue"

(* A worker holds one task from Take to Detach, and nobody else's.         *)
HeldTasks ==
  /\ \A w \in Worker :
       /\ wpc[w] \in {"poll", "exited"} => db_task[w] = NoOne
       /\ wpc[w] \in {"callback", "finish"} =>
            db_task[w] \in Task /\ StateOf(db_task[w]) = "processing"
       /\ wpc[w] = "detach" =>
            db_task[w] \in Task /\ StateOf(db_task[w]) = "finished"
  /\ \A v, w \in Worker : db_task[v] = db_task[w] => v = w \/ db_task[v] = NoOne

ListedTasks == \A c \in Client : \A t \in Listed(c) : StateOf(t) # "free"

(* What a loop has still to visit is on the list it goes through.          *)
Loops ==
  \A c \in Client :
    /\ cpc[c] \in {"scan", "recheck", "erase"} => todo[c] \subseteq prefetch_tasks[c]
    /\ cpc[c] \in {"recheck", "erase"} => iter[c] \in prefetch_tasks[c] \ todo[c]
    /\ cpc[c] \in {"reap", "cancel"} => todo[c] \subseteq deprecated_tasks[c]
    /\ cpc[c] = "sweep" => todo[c] \subseteq tasks[c]

(* The tasks that the clean-up of a frame has still to wait for.           *)
Awaited(c) ==
  CASE cpc[c] = "free_deprecated" -> deprecated_tasks[c] \cup tasks[c]
    [] cpc[c] = "free_tasks" -> tasks[c]
    [] cpc[c] = "done" -> {}
    [] OTHER -> Listed(c)

(* A task that has a get to answer is on a list that is still awaited.     *)
GetsAwaited ==
  \A c \in Client : \A t \in Bearers(c) : task[t].callback.kind = "get" => t \in Awaited(c)

(* The memory of the tasks is sound: MemoryInv is inductive.               *)
MemoryInv ==
  /\ TypeOK
  /\ QueuedTasks
  /\ HeldTasks
  /\ ListedTasks
  /\ OneOwner
  /\ Loops
  /\ GetsAwaited

-----------------------------------------------------------------------------
(***************************************************************************)
(* Refinement: the phase a client sees.  More responses than requests is   *)
(* no phase at all.                                                        *)
(***************************************************************************)
PhaseOf(c) ==
  CASE peer[c] = "gone" -> "gone"
    [] peer[c] = "idle" /\ out[c] = 0 -> "idle"
    [] peer[c] = "waiting" /\ out[c] = 0 /\ req[c] # NoRequest -> "sent"
    [] peer[c] = "waiting" /\ out[c] = 0 /\ req[c] = NoRequest -> "taken"
    [] peer[c] = "waiting" /\ out[c] = 1 /\ req[c] = NoRequest -> "answered"
    [] OTHER -> "out of step"

Service == INSTANCE RequestService WITH phase <- [c \in Client |-> PhaseOf(c)]

(* Every client gets one response for each request the server took: the    *)
(* server implements RequestService, whichever thread answers.             *)
ImplementsService == Service!Spec

-----------------------------------------------------------------------------
(* Liveness.                                                               *)

(* Every get that was read is answered, even when the client leaves or the *)
(* server is interrupted meanwhile.                                        *)
GetAnswered == \A c \in Client : cpc[c] = "scan" ~> response_count[c] = 1

(* delete_tasks does not wait forever: a connection that ends is closed.   *)
ConnectionCloses == \A c \in Client : cpc[c] = "free_prefetch" ~> ~Alive(c)

(* Once the last connection of an interrupted server is closed the pool    *)
(* can be joined.                                                          *)
PoolStops ==
  (quit /\ \A c \in Client : ~Alive(c)) ~> \A w \in Worker : wpc[w] = "exited"

=============================================================================
