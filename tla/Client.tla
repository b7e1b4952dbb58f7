------------------------------- MODULE Client -------------------------------
(***************************************************************************)
(* glakv_client: main reads its options, loads the database over one       *)
(* connection, one put at a time in batches, and then runs a number of     *)
(* threads that get keys, one at a time, each over a connection of its     *)
(* own.  The server is its environment: it answers what it reads, in       *)
(* order, and it may be shut down at any moment (what happens inside it is *)
(* PrefetchServer).                                                        *)
(***************************************************************************)
EXTENDS Integers, Sequences, FiniteSets

CONSTANTS
  Args,          \* the command lines (sequences of options)
  MaxThreads,    \* a bound on the threads of -c
  MaxRank,       \* the largest rank that exp_dist.next() returns
  ServerSize,    \* how many keys, from 0, are in the database at first
  NumPrefetch,   \* num_prefetch of the server
  Word,          \* 2^32: how many values a uint32_t has
  MayClose,      \* can the server be shut down?
  MaySplit       \* may one read return only a part of an answer?

(* An option is a letter and what its argument stands for: its whole part, *)
(* which atoi and strtoul read, and whether it is positive, which is all   *)
(* that matters of what atof reads.                                        *)
Options == [opt : {"l", "e", "h", "s", "c", "m", "n"},
            whole : 0 .. Word - 1, positive : BOOLEAN]

ASSUME ClientAssumption ==
  /\ {MaxThreads, MaxRank, ServerSize} \subseteq Nat
  /\ {NumPrefetch, Word} \subseteq Nat \ {0} /\ ServerSize <= Word
  /\ Args \subseteq Seq(Options)
  /\ \A a \in Args : \A j \in 1 .. Len(a) : a[j].opt = "c" => a[j].whole <= MaxThreads
  /\ {MayClose, MaySplit} \subseteq BOOLEAN

VARIABLES
  mpc,           \* where main is
  args,          \* the options main has not read yet
  opts,          \* the variables it reads them into
  key, writes,   \* load_data: the next key, what is left of the batch
  tpc,           \* where each thread is
  tkey, count,   \* execute: key and count of each thread
  prev,          \* the key before it and the rank between them (history)
  request,       \* the connections with a request for the server to read
  stream,        \* what each connection has for the client to read
  got,           \* what the latest read of each connection returned
  stored,        \* the keys that were put or that were there at first
  closed         \* has the server closed the connections?

loading == <<key, writes>>
threads == <<tpc, tkey, count, prev>>
network == <<request, stream, got, stored, closed>>
vars == <<mpc, args, opts, loading, threads, network>>

Thread == 1 .. MaxThreads
Conn == {0} \cup Thread              \* 0 is the connection of load_data
Ack == <<"success">>
Answer == <<"success", "value">>     \* the first byte of a get's, the rest
NoAnswer == <<"unread">>             \* got, before the first read
NoKey == [key |-> 0, rank |-> NumPrefetch]   \* prev, before the first answer

size == opts.size
DBSize == Cardinality(stored)         \* as DBImpl counts; fakeDB's is fixed
Running == mpc = "join"

TypeOK ==
  /\ mpc \in {"parse", "load", "put", "wait", "run", "join", "ended", "died"}
  /\ \E a \in Args : \E j \in 1 .. Len(a) + 1 : args = SubSeq(a, j, Len(a))
  /\ opts \in [load : BOOLEAN, execute : BOOLEAN, help : BOOLEAN, size : Nat,
               clients : Thread \cup {0}, exps : Nat, lambda : BOOLEAN]
  /\ key \in 0 .. size /\ writes \in 0 .. size
  /\ tpc \in [Thread -> {"away", "send", "wait", "over"}]
  /\ tkey \in [Thread -> 0 .. Word - 1] /\ count \in [Thread -> Nat]
  /\ prev \in [Thread -> [key : 0 .. Word - 1, rank : Nat]]
  /\ request \subseteq Conn
  /\ stream \in [Conn -> Seq({"success", "value"})]
  /\ got \in [Conn -> Seq({"success", "value", "unread"})]
  /\ stored \subseteq 0 .. Word - 1
  /\ closed \in BOOLEAN

(* DB_SIZE, NUM_CLIENTS, NUM_EXP and lambda, for what the options leave.   *)
Init ==
  /\ mpc = "parse"
  /\ args \in Args
  /\ opts = [load |-> FALSE, execute |-> FALSE, help |-> FALSE,
             size |-> ServerSize, clients |-> MaxThreads, exps |-> 1,
             lambda |-> TRUE]
  /\ key = 0 /\ writes = 0
  /\ tpc = [t \in Thread |-> "away"]
  /\ tkey = [t \in Thread |-> 0] /\ count = [t \in Thread |-> 0]
  /\ prev = [t \in Thread |-> NoKey]
  /\ request = {}
  /\ stream = [c \in Conn |-> <<>>] /\ got = [c \in Conn |-> NoAnswer]
  /\ stored = 0 .. ServerSize - 1
  /\ closed = FALSE

-----------------------------------------------------------------------------
(* main: the options.  After "m" the code goes on into the case of "n".    *)
Read(o) ==
  CASE o.opt = "l" -> [opts EXCEPT !.load = TRUE]
    [] o.opt = "e" -> [opts EXCEPT !.execute = TRUE]
    [] o.opt = "h" -> [opts EXCEPT !.help = TRUE]
    [] o.opt = "s" -> [opts EXCEPT !.size = o.whole]
    [] o.opt = "c" -> [opts EXCEPT !.clients = o.whole]
    [] o.opt = "m" -> [opts EXCEPT !.lambda = o.positive, !.exps = o.whole]
    [] o.opt = "n" -> [opts EXCEPT !.exps = o.whole]

ParseOption ==
  /\ mpc = "parse" /\ args # <<>>
  /\ opts' = Read(Head(args))
  /\ args' = Tail(args)
  /\ UNCHANGED <<mpc, loading, threads, network>>

AfterLoad == IF opts.execute THEN "run" ELSE "ended"

Usage == opts.help \/ ~(opts.load \/ opts.execute)
ParseEnd ==
  /\ mpc = "parse" /\ args = <<>>
  /\ mpc' = IF Usage THEN "ended" ELSE IF opts.load THEN "load" ELSE AfterLoad
  /\ UNCHANGED <<args, opts, loading, threads, network>>

-----------------------------------------------------------------------------
(* A connection that the server closed takes one more request, which is    *)
(* lost, or ends the process: an error, or a signal.                       *)
Die ==
  /\ mpc' = "died"
  /\ UNCHANGED <<args, opts, loading, threads, network>>

Send(c) ==
  /\ request' = IF closed THEN request ELSE request \cup {c}
  /\ UNCHANGED <<stream, got, stored, closed>>

(* read: what is there, or, with MaySplit, a part of it; nothing at the    *)
(* end of a closed connection.                                             *)
Receive(c, n) ==
  /\ n = 0 => closed /\ stream[c] = <<>>
  /\ n > 0 => stream[c] # <<>> /\ (MaySplit \/ n = Len(stream[c]))
  /\ got' = [got EXCEPT ![c] = SubSeq(stream[c], 1, n)]
  /\ stream' = [stream EXCEPT ![c] = SubSeq(@, n + 1, Len(@))]
  /\ UNCHANGED <<request, stored, closed>>

-----------------------------------------------------------------------------
(* load_data                                                               *)
BatchSize_Mutant == size \div 10
BatchSize == size \div 5
NumWrites == IF BatchSize < size - key THEN BatchSize ELSE size - key
MoreToLoad_Mutant == key + BatchSize <= size
MoreToLoad == key < size

NextBatch ==
  /\ mpc = "load" /\ MoreToLoad
  /\ writes' = NumWrites
  /\ mpc' = "put"
  /\ UNCHANGED <<args, opts, key, threads, network>>

Loaded ==
  /\ mpc = "load" /\ ~MoreToLoad
  /\ mpc' = AfterLoad
  /\ UNCHANGED <<args, opts, loading, threads, network>>

EndBatch ==
  /\ mpc = "put" /\ writes = 0
  /\ mpc' = "load"
  /\ UNCHANGED <<args, opts, loading, threads, network>>

SendPut ==
  /\ mpc = "put" /\ writes > 0
  /\ \/ Send(0) /\ mpc' = "wait" /\ UNCHANGED <<args, opts, loading, threads>>
     \/ closed /\ Die

ReceivePut ==
  /\ mpc = "wait"
  /\ \/ /\ Receive(0, 1)
        /\ mpc' = "put"
        /\ key' = key + 1 /\ writes' = writes - 1
        /\ UNCHANGED <<args, opts, threads>>
     \/ closed /\ stream[0] = <<>> /\ Die

-----------------------------------------------------------------------------
(* run and execute                                                         *)
InKeys == IF size = 0 THEN 0 .. Word - 1 ELSE 0 .. size - 1

Spawn ==
  /\ mpc = "run"
  /\ mpc' = "join"
  /\ tkey' \in {f \in [Thread -> InKeys \cup {0}] : \A t \in Thread : t > opts.clients => f[t] = 0}
  /\ tpc' = [t \in Thread |-> IF t <= opts.clients THEN "send" ELSE "over"]
  /\ UNCHANGED <<args, opts, loading, count, prev, network>>

SendGet(t) ==
  /\ Running /\ tpc[t] = "send" /\ count[t] < opts.exps
  /\ \/ /\ Send(t)
        /\ tpc' = [tpc EXCEPT ![t] = "wait"]
        /\ UNCHANGED <<mpc, args, opts, loading, tkey, count, prev>>
     \/ closed /\ Die

Ranks == IF opts.lambda THEN 0 .. MaxRank ELSE {0}
NextKey_Mutant(k, rank) == ((rank + k) % Word) % size
OffByOne_Mutant(k, rank) == ((rank + k + size \div 3) % Word) % (size + 1)
NextKey(k, rank) == ((rank + k + size \div 3) % Word) % size

(* A read of nothing is no error here.  When a read begins with the rest   *)
(* of an earlier answer, the bytes it has for vlen may be too long a       *)
(* length for the string, which throws; modulo 0 ends the process as well. *)
ReceiveGet(t) ==
  /\ Running /\ tpc[t] = "wait"
  /\ \/ /\ \E n \in 0 .. Len(stream[t]), rank \in Ranks :
             /\ Receive(t, n) /\ size > 0
             /\ tkey' = [tkey EXCEPT ![t] = NextKey(@, rank)]
             /\ prev' = [prev EXCEPT ![t] = [key |-> tkey[t], rank |-> rank]]
        /\ tpc' = [tpc EXCEPT ![t] = "send"]
        /\ count' = [count EXCEPT ![t] = @ + 1]
        /\ UNCHANGED <<mpc, args, opts, loading>>
     \/ closed /\ stream[t] = <<>> /\ Die
     \/ stream[t] # <<>> /\ Head(stream[t]) = "value" /\ Die
     \/ size = 0 /\ stream[t] # <<>> /\ Die

Finish(t) ==
  /\ Running /\ tpc[t] = "send" /\ count[t] >= opts.exps
  /\ tpc' = [tpc EXCEPT ![t] = "over"]
  /\ UNCHANGED <<mpc, args, opts, loading, tkey, count, prev, network>>

JoinAll ==
  /\ Running /\ \A t \in Thread : tpc[t] = "over"
  /\ mpc' = "ended"
  /\ UNCHANGED <<args, opts, loading, threads, network>>

-----------------------------------------------------------------------------
(* The server: it reads a request, which it answers, and it may be shut    *)
(* down, before or after that.                                             *)
Serve(c) ==
  /\ c \in request /\ ~closed
  /\ request' = request \ {c}
  /\ stored' = IF c = 0 THEN stored \cup {key} ELSE stored
  /\ stream' = [stream EXCEPT ![c] = @ \o (IF c = 0 THEN Ack ELSE Answer)]
  /\ UNCHANGED <<mpc, args, opts, loading, threads, got, closed>>

Close ==
  /\ MayClose /\ ~closed
  /\ closed' = TRUE
  /\ UNCHANGED <<mpc, args, opts, loading, threads, request, stream, got, stored>>

Over == mpc \in {"ended", "died"} /\ UNCHANGED vars

MainStep ==
  \/ ParseOption \/ ParseEnd
  \/ NextBatch \/ Loaded \/ EndBatch \/ SendPut \/ ReceivePut
  \/ Spawn \/ JoinAll
ThreadStep(t) == SendGet(t) \/ ReceiveGet(t) \/ Finish(t)

Next ==
  \/ MainStep
  \/ \E t \in Thread : ThreadStep(t)
  \/ \E c \in Conn : Serve(c)
  \/ Close
  \/ Over

Spec == Init /\ [][Next]_vars

(* The threads of the client run, and the server answers what it reads     *)
(* (GetAnswered of PrefetchServer).                                        *)
FairSpec ==
  /\ Spec
  /\ WF_vars(MainStep)
  /\ \A t \in Thread : WF_vars(ThreadStep(t))
  /\ \A c \in Conn : WF_vars(Serve(c))

-----------------------------------------------------------------------------
(* The batches cover the database: the client goes on after load_data only *)
(* when each of the keys 0 to size - 1, and no other, has been put.        *)
LoadExact ==
  mpc \in {"run", "join", "ended"} /\ opts.load /\ ~opts.help =>
    stored = 0 .. ServerSize - 1 \cup 0 .. size - 1

(* The types, and exact batches of load_data.                              *)
ClientInv == TypeOK /\ LoadExact

(* A database that was loaded by this client, or that is at least as big   *)
(* as its -s says, has every key that the threads ask for, though their    *)
(* sums wrap around twice.                                                 *)
KeysInRange ==
  \A t \in request \ {0} :
    size > 0 /\ (opts.load \/ size <= ServerSize) => tkey[t] < DBSize

(* What prefetch_for_key predicts after a get of key k.                    *)
Predictions(k) ==
  {((k + n + DBSize \div 3) % Word) % DBSize : n \in 0 .. NumPrefetch - 1}

(* The client and the server agree on the distribution: a next key whose   *)
(* rank is below num_prefetch is one of the server's predictions.          *)
Predicted ==
  \A t \in Thread :
    prev[t].rank < NumPrefetch /\ DBSize = size => tkey[t] \in Predictions(prev[t].key)

(* With at least 5 keys load_data comes to its end, and the client to its  *)
(* own, with or without the server.                                        *)
Finishes == <>(mpc \in {"ended", "died"})

(* What the usage says of -n: it is the number of operations.              *)
OnlyNumSetsOperations == [][opts'.exps # opts.exps => Head(args).opt = "n"]_vars

(* What the assertion of send_get and send_put says of every answer.       *)
AssertSuccess ==
  \A c \in Conn : got[c] = NoAnswer \/ (got[c] # <<>> /\ Head(got[c]) = "success")
=============================================================================
