---------------------------- MODULE ClientProofs ----------------------------
(* Theorems about Client, for any command lines, any number of threads and *)
(* any sizes: load_data loads what it should, and the keys that the        *)
(* threads ask for exist and are the ones that the server predicts.        *)
EXTENDS Client, FiniteSetTheorems, SequenceTheorems, TLAPS

(* The database after the keys below k were put.                           *)
Upto(k) == 0 .. ServerSize - 1 \cup 0 .. k - 1
AsLoaded == stored = Upto(IF opts.load THEN size ELSE 0)

(* Where the connection of load_data is: at rest between two puts, with a  *)
(* request that the server has not read, with its answer, or lost.         *)
AtRest == 0 \notin request /\ stream[0] = <<>> /\ stored = Upto(key)
Asked == 0 \in request /\ stream[0] = <<>> /\ stored = Upto(key)
Answered == 0 \notin request /\ stream[0] = Ack /\ stored = Upto(key + 1)
Lost == 0 \notin request /\ stream[0] = <<>> /\ closed

LoadInv ==
  /\ size <= Word
  /\ mpc = "parse" => key = 0 /\ writes = 0
  /\ mpc \in {"parse", "load", "put"} => AtRest
  /\ mpc = "wait" => writes > 0 /\ (Asked \/ Answered \/ Lost)
  /\ mpc \in {"load", "put", "wait"} => opts.load /\ ~opts.help
  /\ mpc \in {"put", "wait"} => key + writes <= size
  /\ 0 \in request => mpc = "wait" \/ closed
  /\ mpc \in {"run", "join"} \/ (mpc = "ended" /\ ~Usage) => AsLoaded

(* Before Spawn the threads have done nothing; then each has a key that is *)
(* below the size it was told, and, after an answer, the next one.         *)
Unborn(t) == tkey[t] = 0 /\ prev[t] = NoKey /\ t \notin request
Follows(t) ==
  prev[t] # NoKey => size > 0 /\ tkey[t] = NextKey(prev[t].key, prev[t].rank)

ThreadInv ==
  /\ mpc \notin {"join", "ended", "died"} => \A t \in Thread : Unborn(t)
  /\ \A t \in Thread : size > 0 => tkey[t] < size
  /\ \A t \in Thread : Follows(t)
  /\ \A t \in Thread : t \in request => AsLoaded

IInv == TypeOK /\ LoadInv /\ ThreadInv

-----------------------------------------------------------------------------
(* The operators.                                                          *)
LEMMA ModRange ==
  ASSUME NEW a \in Nat, NEW b \in Nat, b > 0
  PROVE  a % b \in Nat /\ a % b < b
  OBVIOUS

LEMMA DivRange ==
  ASSUME NEW a \in Nat, NEW b \in Nat, b > 0
  PROVE  a \div b \in Nat /\ a \div b <= a
<1>1. a \div b \in Int /\ a \div b >= 0 /\ b * (a \div b) <= a
  OBVIOUS
<1> QED
  BY <1>1

LEMMA NextKeyRange ==
  ASSUME opts.size \in Nat, size > 0, NEW k \in Nat, NEW rank \in Nat
  PROVE  NextKey(k, rank) \in Nat /\ NextKey(k, rank) < size
<1>1. Word \in Nat /\ Word > 0 /\ size \in Nat
  BY ClientAssumption DEF size
<1>2. size \div 3 \in Nat
  BY <1>1, DivRange
<1>3. rank + k + size \div 3 \in Nat
  BY <1>2
<1>4. (rank + k + size \div 3) % Word \in Nat
  BY <1>1, <1>3, ModRange
<1> QED
  BY <1>1, <1>4, ModRange DEF NextKey

LEMMA BatchRange ==
  ASSUME size \in Nat, key \in Nat, key < size
  PROVE  NumWrites \in Nat /\ key + NumWrites <= size
<1>1. BatchSize \in Nat
  BY DivRange DEF BatchSize
<1> QED
  BY <1>1 DEF NumWrites

LEMMA ReadTypes ==
  ASSUME TypeOK, NEW o \in Options, o.opt = "c" => o.whole <= MaxThreads
  PROVE  /\ Read(o) \in [load : BOOLEAN, execute : BOOLEAN, help : BOOLEAN,
                         size : Nat, clients : Thread \cup {0}, exps : Nat,
                         lambda : BOOLEAN]
         /\ Read(o).size = opts.size \/ Read(o).size < Word
<1>1. /\ o.opt \in {"l", "e", "h", "s", "c", "m", "n"}
      /\ o.whole \in Nat /\ o.whole < Word /\ o.positive \in BOOLEAN
  BY ClientAssumption DEF Options
<1>2. o.opt = "c" => o.whole \in Thread \cup {0}
  BY <1>1, ClientAssumption DEF Thread
<1>3. /\ opts.size \in Nat
      /\ opts \in [load : BOOLEAN, execute : BOOLEAN, help : BOOLEAN,
                   size : Nat, clients : Thread \cup {0}, exps : Nat,
                   lambda : BOOLEAN]
  BY DEF TypeOK
<1>4. CASE o.opt \in {"l", "e", "h"}
  BY <1>3, <1>4 DEF Read
<1>5. CASE o.opt = "s"
  BY <1>1, <1>3, <1>5 DEF Read
<1>6. CASE o.opt = "c"
  BY <1>2, <1>3, <1>6 DEF Read
<1>7. CASE o.opt = "m"
  BY <1>1, <1>3, <1>7 DEF Read
<1>8. CASE o.opt = "n"
  BY <1>1, <1>3, <1>8 DEF Read
<1> QED
  BY <1>1, <1>4, <1>5, <1>6, <1>7, <1>8

(* What a read leaves in the stream.                                       *)
LEMMA ReceiveTypes ==
  ASSUME TypeOK, NEW c \in Conn, NEW n \in 0 .. Len(stream[c]), Receive(c, n)
  PROVE  /\ stream' \in [Conn -> Seq({"success", "value"})]
         /\ got' \in [Conn -> Seq({"success", "value", "unread"})]
         /\ \A d \in Conn \ {c} : stream'[d] = stream[d]
<1>1. stream[c] \in Seq({"success", "value"})
  BY DEF TypeOK
<1>2. /\ SubSeq(stream[c], 1, n) \in Seq({"success", "value"})
      /\ SubSeq(stream[c], n + 1, Len(stream[c])) \in Seq({"success", "value"})
  BY <1>1, SubSeqProperties
<1>3. SubSeq(stream[c], 1, n) \in Seq({"success", "value", "unread"})
  BY <1>2
<1> QED
  BY <1>2, <1>3 DEF Receive, TypeOK

-----------------------------------------------------------------------------
LEMMA ClientInit == Init => IInv
<1> SUFFICES ASSUME Init PROVE IInv
  OBVIOUS
<1>1. PICK a \in Args : args = a
  BY DEF Init
<1>2. a \in Seq(Options)
  BY ClientAssumption
<1>3. args = SubSeq(a, 1, Len(a)) /\ 1 \in 1 .. Len(a) + 1
  BY <1>1, <1>2, SubSeqFull
<1>4. MaxThreads \in Thread \cup {0} /\ MaxRank \in Nat
  BY ClientAssumption DEF Thread
<1>5. opts \in [load : BOOLEAN, execute : BOOLEAN, help : BOOLEAN, size : Nat,
                clients : Thread \cup {0}, exps : Nat, lambda : BOOLEAN]
  BY <1>4, ClientAssumption DEF Init
<1>6. /\ tkey \in [Thread -> 0 .. Word - 1] /\ count \in [Thread -> Nat]
      /\ prev \in [Thread -> [key : 0 .. Word - 1, rank : Nat]]
      /\ stored \subseteq 0 .. Word - 1
  BY ClientAssumption DEF Init, NoKey
<1>7. /\ <<>> \in Seq({"success", "value"})
      /\ NoAnswer \in Seq({"success", "value", "unread"})
  BY DEF NoAnswer
<1>8. TypeOK
  <2>1. \E b \in Args : \E j \in 1 .. Len(b) + 1 : args = SubSeq(b, j, Len(b))
    BY <1>3
  <2>2. size \in Nat /\ key \in 0 .. size /\ writes \in 0 .. size
    BY <1>5 DEF Init, size
  <2>3. stream \in [Conn -> Seq({"success", "value"})]
    BY <1>7 DEF Init
  <2>4. got \in [Conn -> Seq({"success", "value", "unread"})]
    BY <1>7 DEF Init
  <2> QED
    BY <1>5, <1>6, <2>1, <2>2, <2>3, <2>4 DEF Init, TypeOK
<1>9. LoadInv
  BY ClientAssumption DEF Init, LoadInv, AtRest, Upto, size, Conn
<1>10. ThreadInv
  BY DEF Init, ThreadInv, Unborn, Follows, size
<1> QED
  BY <1>8, <1>9, <1>10 DEF IInv


-----------------------------------------------------------------------------
(* The steps, from a state in which the invariant holds.                   *)
LEMMA ParseOptionKeeps ==
  ASSUME IInv, ParseOption
  PROVE  IInv'
<1>1. /\ mpc = "parse" /\ args # <<>>
      /\ opts' = Read(Head(args)) /\ args' = Tail(args)
      /\ UNCHANGED <<mpc, key, writes, tpc, tkey, count, prev,
                     request, stream, got, stored, closed>>
  BY DEF ParseOption, loading, threads, network
<1>2. TypeOK /\ LoadInv /\ ThreadInv
  BY DEF IInv
<1>3. PICK a \in Args : \E j \in 1 .. Len(a) + 1 : args = SubSeq(a, j, Len(a))
  BY <1>2 DEF TypeOK
<1>4. PICK j \in 1 .. Len(a) + 1 : args = SubSeq(a, j, Len(a))
  BY <1>3
<1>5. a \in Seq(Options)
  BY ClientAssumption
<1>6. j \in 1 .. Len(a)
  <2>1. ASSUME j = Len(a) + 1 PROVE FALSE
    BY <1>1, <1>4, <1>5, <2>1, SubSeqEmpty
  <2> QED
    BY <1>5, <2>1
<1>7. Head(args) = a[j] /\ args' = SubSeq(a, j + 1, Len(a))
  BY <1>1, <1>4, <1>5, <1>6, HeadTailOfSubSeq
<1>8. a[j] \in Options /\ (a[j].opt = "c" => a[j].whole <= MaxThreads)
  BY <1>5, <1>6, ClientAssumption
<1>9. /\ opts' \in [load : BOOLEAN, execute : BOOLEAN, help : BOOLEAN,
                    size : Nat, clients : Thread \cup {0}, exps : Nat,
                    lambda : BOOLEAN]
      /\ opts'.size = opts.size \/ opts'.size < Word
  BY <1>1, <1>2, <1>7, <1>8, ReadTypes
<1>10. size' \in Nat /\ size' <= Word
  <2>1. opts'.size \in Nat
    BY <1>9
  <2>2. Word \in Nat /\ opts.size <= Word
    BY <1>2, ClientAssumption DEF LoadInv, size
  <2>3. opts'.size <= Word
    BY <1>9, <2>1, <2>2
  <2> QED
    BY <2>1, <2>3 DEF size
<1>11. key = 0 /\ writes = 0 /\ AtRest /\ \A t \in Thread : Unborn(t)
  BY <1>1, <1>2 DEF LoadInv, ThreadInv
<1>12. TypeOK'
  <2>1. \E b \in Args : \E i \in 1 .. Len(b) + 1 : args' = SubSeq(b, i, Len(b))
    <3>1. j + 1 \in 1 .. Len(a) + 1
      BY <1>5, <1>6
    <3> QED
      BY <1>7, <3>1
  <2>2. /\ mpc' = mpc /\ key' \in 0 .. size' /\ writes' \in 0 .. size'
    BY <1>1, <1>10, <1>11
  <2> QED
    BY <1>1, <1>2, <1>9, <2>1, <2>2 DEF TypeOK
<1>13. LoadInv'
  BY <1>1, <1>2, <1>10, <1>11 DEF LoadInv, AtRest, Upto
<1>14. ThreadInv'
  BY <1>1, <1>10, <1>11 DEF ThreadInv, Unborn, Follows
<1> QED
  BY <1>12, <1>13, <1>14 DEF IInv

(* A step that leaves options, threads and network as they are keeps what  *)
(* says nothing of main.                                                   *)
LEMMA MainOnly ==
  ASSUME TypeOK, ThreadInv, UNCHANGED <<args, opts, threads, network>>,
         mpc' \in {"load", "put", "run", "ended", "died"},
         key' \in 0 .. size, writes' \in 0 .. size,
         mpc \notin {"join", "ended", "died"} \/ mpc' \in {"ended", "died"}
  PROVE  TypeOK' /\ ThreadInv' /\ size' = size
<1>1. size' = size
  BY DEF size
<1>2. TypeOK'
  BY <1>1 DEF TypeOK, threads, network
<1>3. ThreadInv'
  BY <1>1 DEF ThreadInv, Unborn, Follows, AsLoaded, Upto, NextKey, threads, network
<1> QED
  BY <1>1, <1>2, <1>3

LEMMA SizeTypes ==
  ASSUME TypeOK
  PROVE  size \in Nat /\ key \in Nat /\ writes \in Nat /\ key <= size /\ writes <= size
  BY DEF TypeOK, size

LEMMA UptoNone == Upto(0) = 0 .. ServerSize - 1
  BY ClientAssumption DEF Upto

LEMMA LoadingKeeps ==
  ASSUME IInv, ParseEnd \/ NextBatch \/ Loaded \/ EndBatch
  PROVE  IInv'
<1>1. TypeOK /\ LoadInv /\ ThreadInv
  BY DEF IInv
<1>2. size \in Nat /\ key \in Nat /\ writes \in Nat /\ key <= size /\ writes <= size
  BY <1>1, SizeTypes
<1>3. CASE ParseEnd
  <2>1. /\ mpc = "parse" /\ UNCHANGED <<args, opts, key, writes, threads, network>>
        /\ mpc' = IF Usage THEN "ended" ELSE IF opts.load THEN "load" ELSE AfterLoad
    BY <1>3 DEF ParseEnd, loading
  <2>2. mpc' \in {"load", "run", "ended"}
    BY <2>1 DEF AfterLoad
  <2>3. TypeOK' /\ ThreadInv' /\ size' = size
    BY <1>1, <1>2, <2>1, <2>2, MainOnly
  <2>4. key = 0 /\ AtRest
    BY <1>1, <2>1 DEF LoadInv
  <2>5. Usage' = Usage
    BY <2>1 DEF Usage
  <2>6. mpc' # "load" /\ ~Usage => AsLoaded'
    BY <2>1, <2>4 DEF AsLoaded, AtRest, network
  <2>7. mpc' = "load" => AtRest' /\ opts'.load /\ ~opts'.help
    BY <2>1, <2>4 DEF AtRest, Upto, network, Usage, AfterLoad
  <2>8. mpc' = "run" => ~Usage
    BY <2>1
  <2>9. 0 \notin request'
    BY <2>1, <2>4 DEF AtRest, network
  <2>10. LoadInv'
    BY <1>1, <2>2, <2>3, <2>5, <2>6, <2>7, <2>8, <2>9 DEF LoadInv
  <2> QED
    BY <2>3, <2>10 DEF IInv
<1>4. CASE NextBatch
  <2>1. /\ mpc = "load" /\ mpc' = "put" /\ key < size /\ writes' = NumWrites
        /\ UNCHANGED <<args, opts, key, threads, network>>
    BY <1>4 DEF NextBatch, MoreToLoad
  <2>2. NumWrites \in Nat /\ key + NumWrites <= size
    BY <1>2, <2>1, BatchRange
  <2>3. TypeOK' /\ ThreadInv' /\ size' = size
    BY <1>1, <1>2, <2>1, <2>2, MainOnly
  <2>4. AtRest'
    BY <1>1, <2>1 DEF LoadInv, AtRest, Upto, network
  <2>5. LoadInv'
    BY <1>1, <2>1, <2>2, <2>3, <2>4 DEF LoadInv, AtRest
  <2> QED
    BY <2>3, <2>5 DEF IInv
<1>5. CASE Loaded
  <2>1. /\ mpc = "load" /\ mpc' \in {"run", "ended"} /\ ~(key < size)
        /\ UNCHANGED <<args, opts, key, writes, threads, network>>
    BY <1>5 DEF Loaded, MoreToLoad, AfterLoad, loading
  <2>2. TypeOK' /\ ThreadInv' /\ size' = size
    BY <1>1, <1>2, <2>1, MainOnly
  <2>3. key = size
    BY <1>2, <2>1
  <2>4. AtRest /\ opts.load
    BY <1>1, <2>1 DEF LoadInv
  <2>5. AsLoaded' /\ 0 \notin request'
    BY <2>1, <2>2, <2>3, <2>4 DEF AsLoaded, AtRest, Upto, network
  <2>6. LoadInv'
    BY <1>1, <2>1, <2>2, <2>5 DEF LoadInv
  <2> QED
    BY <2>2, <2>6 DEF IInv
<1>6. CASE EndBatch
  <2>1. /\ mpc = "put" /\ mpc' = "load"
        /\ UNCHANGED <<args, opts, key, writes, threads, network>>
    BY <1>6 DEF EndBatch, loading
  <2>2. TypeOK' /\ ThreadInv' /\ size' = size
    BY <1>1, <1>2, <2>1, MainOnly
  <2>3. AtRest'
    BY <1>1, <2>1 DEF LoadInv, AtRest, Upto, network
  <2>4. LoadInv'
    BY <1>1, <2>1, <2>2, <2>3 DEF LoadInv, AtRest
  <2> QED
    BY <2>2, <2>4 DEF IInv
<1> QED
  BY <1>3, <1>4, <1>5, <1>6

(* The end of the process, which the code reaches when a request has       *)
(* failed, or in a thread whose size is 0.                                 *)
LEMMA DieKeeps ==
  ASSUME IInv, Die, closed \/ mpc # "wait", mpc # "parse"
  PROVE  IInv'
<1>1. TypeOK /\ LoadInv /\ ThreadInv
  BY DEF IInv
<1>2. /\ mpc' = "died"
      /\ UNCHANGED <<args, opts, key, writes, threads, network>>
  BY DEF Die, loading
<1>3. TypeOK' /\ ThreadInv' /\ size' = size
  BY <1>1, <1>2, SizeTypes, MainOnly
<1>4. LoadInv'
  BY <1>1, <1>2, <1>3 DEF LoadInv, network
<1> QED
  BY <1>3, <1>4 DEF IInv

LEMMA PuttingKeeps ==
  ASSUME IInv, SendPut \/ ReceivePut
  PROVE  IInv'
<1>1. TypeOK /\ LoadInv /\ ThreadInv
  BY DEF IInv
<1>2. size \in Nat /\ key \in Nat /\ writes \in Nat /\ key <= size /\ writes <= size
  BY <1>1, SizeTypes
<1>3. CASE mpc = "put" /\ writes > 0 /\ Send(0) /\ mpc' = "wait"
           /\ UNCHANGED <<args, opts, loading, threads>>
  <2>1. /\ request' = IF closed THEN request ELSE request \cup {0}
        /\ UNCHANGED <<args, opts, key, writes, tpc, tkey, count, prev,
                       stream, got, stored, closed>>
    BY <1>3 DEF Send, loading, threads
  <2>2. AtRest /\ opts.load /\ ~opts.help /\ key + writes <= size
    BY <1>1, <1>3 DEF LoadInv
  <2>3. size' = size
    BY <2>1 DEF size
  <2>4. TypeOK'
    BY <1>1, <1>3, <2>1, <2>3 DEF TypeOK, Conn
  <2>5. Asked' \/ Lost'
    BY <2>1, <2>2 DEF AtRest, Asked, Lost, Upto
  <2>6. LoadInv'
    BY <1>1, <1>3, <2>1, <2>2, <2>3, <2>5 DEF LoadInv
  <2>7. \A t \in Thread : t \in request' => t \in request
    BY <2>1 DEF Thread
  <2>8. ThreadInv'
    BY <1>1, <1>3, <2>1, <2>3, <2>7
       DEF ThreadInv, Unborn, Follows, AsLoaded, Upto, NextKey
  <2> QED
    BY <2>4, <2>6, <2>8 DEF IInv
<1>4. CASE mpc = "wait" /\ Receive(0, 1) /\ mpc' = "put"
           /\ key' = key + 1 /\ writes' = writes - 1
           /\ UNCHANGED <<args, opts, threads>>
  <2>1. UNCHANGED <<args, opts, tpc, tkey, count, prev, request, stored, closed>>
    BY <1>4 DEF Receive, threads
  <2>2. /\ writes > 0 /\ opts.load /\ ~opts.help /\ key + writes <= size
        /\ Asked \/ Answered \/ Lost
    BY <1>1, <1>4 DEF LoadInv
  <2>3. stream[0] # <<>>
    BY <1>4 DEF Receive
  <2>4. Answered
    BY <2>2, <2>3 DEF Asked, Lost
  <2>5. stream[0] = Ack /\ stream' = [stream EXCEPT ![0] = SubSeq(@, 2, Len(@))]
    BY <1>4, <2>4 DEF Answered, Receive
  <2>6. 0 \in Conn /\ 1 \in 0 .. Len(stream[0])
    BY <2>5 DEF Conn, Ack
  <2>7. /\ stream' \in [Conn -> Seq({"success", "value"})]
        /\ got' \in [Conn -> Seq({"success", "value", "unread"})]
    BY <1>1, <1>4, <2>6, ReceiveTypes
  <2>8. stream'[0] = <<>>
    <3>1. Ack \in Seq({"success"}) /\ Len(Ack) = 1
      BY DEF Ack
    <3>2. SubSeq(Ack, 2, Len(Ack)) = <<>>
      BY <3>1, SubSeqEmpty
    <3> QED
      BY <1>1, <2>5, <2>6, <3>2 DEF TypeOK
  <2>9. size' = size
    BY <2>1 DEF size
  <2>10. TypeOK'
    <3>1. key' \in 0 .. size' /\ writes' \in 0 .. size'
      BY <1>2, <1>4, <2>2, <2>9
    <3> QED
      BY <1>1, <1>4, <2>1, <2>7, <2>9, <3>1 DEF TypeOK
  <2>11. AtRest'
    BY <1>4, <2>1, <2>4, <2>8 DEF AtRest, Answered, Upto
  <2>12. key' + writes' <= size'
    BY <1>2, <1>4, <2>2, <2>9
  <2>13. LoadInv'
    BY <1>1, <1>4, <2>1, <2>2, <2>9, <2>11, <2>12 DEF LoadInv, AtRest
  <2>14. ThreadInv'
    BY <1>1, <1>4, <2>1, <2>9 DEF ThreadInv, Unborn, Follows, AsLoaded, Upto, NextKey
  <2> QED
    BY <2>10, <2>13, <2>14 DEF IInv
<1>5. CASE closed /\ Die /\ mpc # "parse"
  BY <1>5, DieKeeps
<1>6. SendPut => mpc = "put"
  BY DEF SendPut
<1>7. ReceivePut => mpc = "wait"
  BY DEF ReceivePut
<1> QED
  BY <1>3, <1>4, <1>5, <1>6, <1>7 DEF SendPut, ReceivePut


LEMMA SpawnKeeps ==
  ASSUME IInv, Spawn
  PROVE  IInv'
<1>1. TypeOK /\ LoadInv /\ ThreadInv
  BY DEF IInv
<1>2. /\ mpc = "run" /\ mpc' = "join"
      /\ tkey' \in [Thread -> InKeys \cup {0}]
      /\ tpc' = [t \in Thread |-> IF t <= opts.clients THEN "send" ELSE "over"]
      /\ UNCHANGED <<args, opts, key, writes, count, prev,
                     request, stream, got, stored, closed>>
  BY DEF Spawn, loading, network
<1>3. size \in Nat /\ size <= Word /\ Word \in Nat \ {0}
  BY <1>1, ClientAssumption, SizeTypes DEF LoadInv
<1>4. InKeys \cup {0} \subseteq 0 .. Word - 1
  BY <1>3 DEF InKeys
<1>5. size > 0 => \A k \in InKeys \cup {0} : k < size
  BY <1>3 DEF InKeys
<1>6. size' = size
  BY <1>2 DEF size
<1>7. TypeOK'
  BY <1>1, <1>2, <1>4, <1>6 DEF TypeOK
<1>8. LoadInv'
  BY <1>1, <1>2, <1>6 DEF LoadInv, AsLoaded, Upto
<1>9. \A t \in Thread : size > 0 => tkey'[t] < size
  BY <1>2, <1>5
<1>10. \A t \in Thread : prev[t] = NoKey /\ t \notin request
  BY <1>1, <1>2 DEF ThreadInv, Unborn
<1>11. ThreadInv'
  BY <1>2, <1>6, <1>9, <1>10 DEF ThreadInv, Follows
<1> QED
  BY <1>7, <1>8, <1>11 DEF IInv

(* What a step of a thread must leave as it is.                            *)
LEMMA LoadingOver ==
  ASSUME LoadInv, mpc = "join", mpc' = "join",
         UNCHANGED <<opts, key, writes, stored, closed>>,
         0 \in request' => 0 \in request
  PROVE  LoadInv' /\ AsLoaded'
  BY DEF LoadInv, AsLoaded, Upto, size

LEMMA SendGetKeeps ==
  ASSUME IInv, NEW t \in Thread, SendGet(t)
  PROVE  IInv'
<1>1. TypeOK /\ LoadInv /\ ThreadInv
  BY DEF IInv
<1>2. mpc = "join"
  BY DEF SendGet, Running
<1>3. CASE /\ Send(t) /\ tpc' = [tpc EXCEPT ![t] = "wait"]
           /\ UNCHANGED <<mpc, args, opts, loading, tkey, count, prev>>
  <2>1. /\ request' = IF closed THEN request ELSE request \cup {t}
        /\ UNCHANGED <<mpc, args, opts, key, writes, tkey, count, prev,
                       stream, got, stored, closed>>
    BY <1>3 DEF Send, loading
  <2>2. size' = size
    BY <2>1 DEF size
  <2>3. TypeOK'
    BY <1>1, <1>3, <2>1, <2>2 DEF TypeOK, Conn
  <2>4. LoadInv' /\ AsLoaded'
    BY <1>1, <1>2, <2>1, LoadingOver DEF Thread
  <2>5. ThreadInv'
    BY <1>1, <1>2, <2>1, <2>2, <2>4 DEF ThreadInv, Follows, NextKey
  <2> QED
    BY <2>3, <2>4, <2>5 DEF IInv
<1>4. CASE Die
  BY <1>2, <1>4, DieKeeps
<1> QED
  BY <1>3, <1>4 DEF SendGet

LEMMA RankTypes ==
  ASSUME NEW rank \in Ranks
  PROVE  rank \in Nat
  BY ClientAssumption DEF Ranks

LEMMA ReceiveGetKeeps ==
  ASSUME IInv, NEW t \in Thread, ReceiveGet(t)
  PROVE  IInv'
<1>1. TypeOK /\ LoadInv /\ ThreadInv
  BY DEF IInv
<1>2. mpc = "join"
  BY DEF ReceiveGet, Running
<1>3. ASSUME NEW n \in 0 .. Len(stream[t]), NEW rank \in Ranks,
             Receive(t, n), size > 0,
             tkey' = [tkey EXCEPT ![t] = NextKey(@, rank)],
             prev' = [prev EXCEPT ![t] = [key |-> tkey[t], rank |-> rank]],
             tpc' = [tpc EXCEPT ![t] = "send"],
             count' = [count EXCEPT ![t] = @ + 1],
             UNCHANGED <<mpc, args, opts, loading>>
      PROVE  IInv'
  <2>1. UNCHANGED <<mpc, args, opts, key, writes, request, stored, closed>>
    BY <1>3 DEF Receive, loading
  <2>2. size' = size /\ size \in Nat /\ opts.size \in Nat
    BY <1>1, <2>1, SizeTypes DEF size
  <2>3. rank \in Nat /\ tkey[t] \in 0 .. Word - 1 /\ tkey[t] \in Nat
    BY <1>1, RankTypes, ClientAssumption DEF TypeOK
  <2>4. NextKey(tkey[t], rank) \in Nat /\ NextKey(tkey[t], rank) < size
    BY <1>3, <2>2, <2>3, NextKeyRange
  <2>5. NextKey(tkey[t], rank) \in 0 .. Word - 1
    BY <1>1, <2>2, <2>4, ClientAssumption DEF LoadInv
  <2>6. /\ tkey'[t] = NextKey(tkey[t], rank)
        /\ prev'[t] = [key |-> tkey[t], rank |-> rank]
        /\ \A u \in Thread \ {t} : tkey'[u] = tkey[u] /\ prev'[u] = prev[u]
    BY <1>1, <1>3 DEF TypeOK
  <2>7. TypeOK'
    <3>1. /\ stream' \in [Conn -> Seq({"success", "value"})]
          /\ got' \in [Conn -> Seq({"success", "value", "unread"})]
      BY <1>1, <1>3, ReceiveTypes DEF Conn
    <3>2. tkey' \in [Thread -> 0 .. Word - 1]
      BY <1>1, <1>3, <2>5 DEF TypeOK
    <3>3. prev' \in [Thread -> [key : 0 .. Word - 1, rank : Nat]]
      <4> DEFINE R == [key : 0 .. Word - 1, rank : Nat]
      <4>1. [key |-> tkey[t], rank |-> rank] \in R
        BY <2>3
      <4>2. prev \in [Thread -> R]
        BY <1>1 DEF TypeOK
      <4> HIDE DEF R
      <4>3. prev' \in [Thread -> R]
        BY <1>3, <4>1, <4>2
      <4> QED
        BY <4>3 DEF R
    <3>4. tpc' \in [Thread -> {"away", "send", "wait", "over"}]
      BY <1>1, <1>3 DEF TypeOK
    <3>5. count' \in [Thread -> Nat]
      <4>1. count \in [Thread -> Nat]
        BY <1>1 DEF TypeOK
      <4>2. count' = [count EXCEPT ![t] = count[t] + 1]
        BY <1>3
      <4> QED
        BY <4>1, <4>2
    <3> QED
      BY <1>1, <2>1, <2>2, <3>1, <3>2, <3>3, <3>4, <3>5 DEF TypeOK
  <2>8. LoadInv' /\ AsLoaded'
    BY <1>1, <1>2, <2>1, LoadingOver
  <2>9. ThreadInv'
    <3>1. \A u \in Thread : size' > 0 => tkey'[u] < size'
      BY <1>1, <2>2, <2>4, <2>6 DEF ThreadInv
    <3>2. Follows(t)'
      BY <1>3, <2>2, <2>6 DEF Follows, NextKey
    <3>3. \A u \in Thread \ {t} : Follows(u)'
      BY <1>1, <2>2, <2>6 DEF ThreadInv, Follows, NextKey
    <3> QED
      BY <1>2, <2>1, <2>8, <3>1, <3>2, <3>3 DEF ThreadInv
  <2> QED
    BY <2>7, <2>8, <2>9 DEF IInv
<1>4. CASE Die
  BY <1>2, <1>4, DieKeeps
<1> QED
  BY <1>3, <1>4 DEF ReceiveGet

LEMMA ThreadEndKeeps ==
  ASSUME IInv, (\E t \in Thread : Finish(t)) \/ JoinAll
  PROVE  IInv'
<1>1. TypeOK /\ LoadInv /\ ThreadInv
  BY DEF IInv
<1>2. /\ mpc = "join" /\ mpc' \in {"join", "ended"}
      /\ tpc' \in [Thread -> {"away", "send", "wait", "over"}]
      /\ UNCHANGED <<args, opts, key, writes, tkey, count, prev,
                     request, stream, got, stored, closed>>
  BY <1>1 DEF Finish, JoinAll, Running, loading, threads, network, TypeOK
<1>3. size' = size
  BY <1>2 DEF size
<1>4. TypeOK'
  BY <1>1, <1>2, <1>3 DEF TypeOK
<1>5. LoadInv'
  BY <1>1, <1>2, <1>3 DEF LoadInv, AsLoaded, Upto
<1>6. ThreadInv'
  BY <1>1, <1>2, <1>3 DEF ThreadInv, Follows, NextKey, AsLoaded, Upto
<1> QED
  BY <1>4, <1>5, <1>6 DEF IInv

-----------------------------------------------------------------------------
(* The server.                                                             *)
LEMMA ServeKeeps ==
  ASSUME IInv, NEW c \in Conn, Serve(c)
  PROVE  IInv'
<1>1. TypeOK /\ LoadInv /\ ThreadInv
  BY DEF IInv
<1>2. /\ c \in request /\ ~closed /\ request' = request \ {c}
      /\ UNCHANGED <<mpc, args, opts, key, writes, tpc, tkey, count, prev,
                     got, closed>>
      /\ stream' = [stream EXCEPT ![c] = @ \o (IF c = 0 THEN Ack ELSE Answer)]
      /\ stored' = IF c = 0 THEN stored \cup {key} ELSE stored
  BY DEF Serve, loading, threads
<1>3. size' = size
  BY <1>2 DEF size
<1>4. size \in Nat /\ key \in Nat /\ writes \in Nat /\ size <= Word
  BY <1>1, SizeTypes DEF LoadInv
<1>5. c = 0 => mpc = "wait" /\ writes > 0 /\ key + writes <= size /\ Asked
  BY <1>1, <1>2 DEF LoadInv, Answered, Lost
<1>6. stream' \in [Conn -> Seq({"success", "value"})]
  <2>1. stream[c] \in Seq({"success", "value"})
    BY <1>1 DEF TypeOK
  <2>2. Ack \in Seq({"success", "value"}) /\ Answer \in Seq({"success", "value"})
    BY DEF Ack, Answer
  <2>3. stream[c] \o (IF c = 0 THEN Ack ELSE Answer) \in Seq({"success", "value"})
    BY <2>1, <2>2
  <2> QED
    BY <1>1, <1>2, <2>3 DEF TypeOK
<1>7. stored' \subseteq 0 .. Word - 1
  <2>1. c = 0 => key \in 0 .. Word - 1
    BY <1>4, <1>5, ClientAssumption
  <2> QED
    BY <1>1, <1>2, <2>1 DEF TypeOK
<1>8. TypeOK'
  BY <1>1, <1>2, <1>3, <1>6, <1>7 DEF TypeOK
<1>9. CASE c = 0
  <2>1. Upto(key) \cup {key} = Upto(key + 1)
    BY <1>4, ClientAssumption DEF Upto
  <2>2. Answered'
    <3>1. <<>> \o Ack = Ack
      BY DEF Ack
    <3>2. stream'[0] = Ack
      BY <1>1, <1>2, <1>5, <1>9, <3>1 DEF TypeOK, Asked
    <3> QED
      BY <1>2, <1>5, <1>9, <2>1, <3>2 DEF Answered, Asked, Upto
  <2>3. LoadInv'
    BY <1>1, <1>2, <1>3, <1>5, <1>9, <2>2 DEF LoadInv
  <2>4. ThreadInv'
    BY <1>1, <1>2, <1>3, <1>5, <1>9 DEF ThreadInv, Unborn, Follows, NextKey
  <2> QED
    BY <1>8, <2>3, <2>4 DEF IInv
<1>10. CASE c # 0
  <2>1. c \in Thread
    BY <1>10 DEF Conn
  <2>2. mpc \in {"join", "ended", "died"}
    BY <1>1, <1>2, <2>1 DEF ThreadInv, Unborn
  <2>3. LoadInv'
    BY <1>1, <1>2, <1>3, <1>10, <2>2 DEF LoadInv, AsLoaded, Upto, Usage
  <2>4. ThreadInv'
    BY <1>1, <1>2, <1>3, <1>10, <2>2 DEF ThreadInv, Follows, NextKey, AsLoaded, Upto
  <2> QED
    BY <1>8, <2>3, <2>4 DEF IInv
<1> QED
  BY <1>9, <1>10

LEMMA CloseKeeps ==
  ASSUME IInv, Close
  PROVE  IInv'
<1>1. TypeOK /\ LoadInv /\ ThreadInv
  BY DEF IInv
<1>2. /\ closed' = TRUE
      /\ UNCHANGED <<mpc, args, opts, key, writes, tpc, tkey, count, prev,
                     request, stream, got, stored>>
  BY DEF Close, loading, threads
<1>3. size' = size
  BY <1>2 DEF size
<1>4. TypeOK'
  BY <1>1, <1>2, <1>3 DEF TypeOK
<1>5. LoadInv'
  BY <1>1, <1>2, <1>3
     DEF LoadInv, AtRest, Asked, Answered, Lost, AsLoaded, Upto, Usage
<1>6. ThreadInv'
  BY <1>1, <1>2, <1>3 DEF ThreadInv, Unborn, Follows, NextKey, AsLoaded, Upto
<1> QED
  BY <1>4, <1>5, <1>6 DEF IInv

LEMMA ClientNext == IInv /\ [Next]_vars => IInv'
<1> SUFFICES ASSUME IInv, [Next]_vars PROVE IInv'
  OBVIOUS
<1>1. ASSUME UNCHANGED vars PROVE IInv'
  BY <1>1 DEF vars, loading, threads, network, IInv, TypeOK, LoadInv, ThreadInv,
     AtRest, Asked, Answered, Lost, AsLoaded, Upto, Usage, Unborn, Follows,
     NextKey, size
<1>2. MainStep => IInv'
  BY ParseOptionKeeps, LoadingKeeps, PuttingKeeps, SpawnKeeps, ThreadEndKeeps
     DEF MainStep
<1>3. ASSUME NEW t \in Thread, ThreadStep(t) PROVE IInv'
  BY <1>3, SendGetKeeps, ReceiveGetKeeps, ThreadEndKeeps DEF ThreadStep
<1>4. ASSUME NEW c \in Conn, Serve(c) PROVE IInv'
  BY <1>4, ServeKeeps
<1>5. Close => IInv'
  BY CloseKeeps
<1>6. Over => UNCHANGED vars
  BY DEF Over
<1> QED
  BY <1>1, <1>2, <1>3, <1>4, <1>5, <1>6 DEF Next

(* The inductive invariant of the client, in every step of main, of a      *)
(* thread and of the server, and when the server is shut down: where       *)
(* load_data is with its connection, and what the threads have asked.      *)
THEOREM ClientSound == Spec => []IInv
<1>1. Init => IInv
  BY ClientInit
<1>2. IInv /\ [Next]_vars => IInv'
  BY ClientNext
<1> QED
  BY <1>1, <1>2, PTL DEF Spec

(* The batches of load_data (150-163 of glakv_client.cc) cover the         *)
(* database exactly, whatever its size, and every variable has its type:   *)
(* the client goes on only when the keys 0 to size - 1 have been put.      *)
THEOREM LoadsExactly == Spec => []ClientInv
<1>1. IInv => ClientInv
  <2> SUFFICES ASSUME IInv, mpc \in {"run", "join", "ended"}, opts.load, ~opts.help
               PROVE  stored = 0 .. ServerSize - 1 \cup 0 .. size - 1
    BY DEF IInv, ClientInv, LoadExact
  <2>1. ~Usage
    <3>1. opts.load \in BOOLEAN /\ opts.help \in BOOLEAN /\ opts.execute \in BOOLEAN
      BY DEF IInv, TypeOK
    <3> QED
      BY <3>1 DEF Usage
  <2>2. AsLoaded
    BY <2>1 DEF IInv, LoadInv
  <2> QED
    BY <2>2 DEF AsLoaded, Upto
<1> QED
  BY <1>1, ClientSound, PTL

(* The database that the server has when a thread has asked for a key has  *)
(* at least size keys, if it was loaded or was as big from the beginning.  *)
LEMMA EnoughKeys ==
  ASSUME TypeOK, AsLoaded, opts.load \/ size <= ServerSize
  PROVE  DBSize \in Nat /\ size <= DBSize
<1> DEFINE m == IF opts.load THEN size ELSE 0
           n == IF ServerSize > m THEN ServerSize ELSE m
<1>1. m \in Nat /\ n \in Nat /\ ServerSize \in Nat /\ size \in Nat /\ size <= n
  BY SizeTypes, ClientAssumption
<1>2. stored = 0 .. ServerSize - 1 \cup 0 .. m - 1
  BY DEF AsLoaded, Upto
<1> HIDE DEF m
<1>3. stored = 0 .. n - 1
  BY <1>1, <1>2
<1> HIDE DEF n
<1>4. Cardinality(0 .. n - 1) = n
  BY <1>1, FS_Interval
<1> QED
  BY <1>1, <1>3, <1>4 DEF DBSize

(* A get never asks for a key beyond the database (191 of glakv_client.cc),*)
(* for any number of threads, any sizes and any ranks, wrapped or not.     *)
THEOREM KeysExist == Spec => []KeysInRange
<1>1. IInv => KeysInRange
  <2> SUFFICES ASSUME IInv, NEW t \in request \ {0}, size > 0,
                      opts.load \/ size <= ServerSize
               PROVE  tkey[t] < DBSize
    BY DEF KeysInRange
  <2>1. t \in Thread
    BY DEF IInv, TypeOK, Conn
  <2>2. AsLoaded /\ tkey[t] < size
    BY <2>1 DEF IInv, ThreadInv
  <2>3. DBSize \in Nat /\ size <= DBSize
    BY <2>2, EnoughKeys DEF IInv
  <2>4. tkey[t] \in Nat /\ size \in Nat
    <3>1. TypeOK
      BY DEF IInv
    <3>2. tkey[t] \in 0 .. Word - 1
      BY <2>1, <3>1 DEF TypeOK
    <3> QED
      BY <3>1, <3>2, SizeTypes
  <2> QED
    BY <2>2, <2>3, <2>4
<1> QED
  BY <1>1, ClientSound, PTL

(* Client and server use the same arithmetic (191 of glakv_client.cc, 160  *)
(* to 164 of glakv_server.cc): a next key of a small rank is predicted.    *)
THEOREM NextKeysArePredicted == Spec => []Predicted
<1>1. IInv => Predicted
  <2> SUFFICES ASSUME IInv, NEW t \in Thread,
                      prev[t].rank < NumPrefetch, DBSize = size
               PROVE  tkey[t] \in Predictions(prev[t].key)
    BY DEF Predicted
  <2>1. NumPrefetch \in Nat /\ prev[t].rank \in Nat /\ prev[t].key \in Nat
    <3>1. NumPrefetch \in Nat /\ Word \in Nat
      BY ClientAssumption
    <3>2. prev \in [Thread -> [key : 0 .. Word - 1, rank : Nat]]
      BY DEF IInv, TypeOK
    <3>3. prev[t] \in [key : 0 .. Word - 1, rank : Nat]
      BY <3>2
    <3> QED
      BY <3>1, <3>3
  <2>2. prev[t] # NoKey
    BY <2>1 DEF NoKey
  <2>3. size > 0 /\ tkey[t] = NextKey(prev[t].key, prev[t].rank)
    BY <2>2 DEF IInv, ThreadInv, Follows
  <2>4. size \in Nat /\ size \div 3 \in Nat
    BY SizeTypes, DivRange DEF IInv
  <2>5. prev[t].rank + prev[t].key + size \div 3
          = prev[t].key + prev[t].rank + size \div 3
    BY <2>1, <2>4
  <2>6. prev[t].rank \in 0 .. NumPrefetch - 1
    BY <2>1
  <2>7. tkey[t] = ((prev[t].key + prev[t].rank + DBSize \div 3) % Word) % DBSize
    BY <2>3, <2>5 DEF NextKey
  <2> QED
    BY <2>6, <2>7 DEF Predictions
<1> QED
  BY <1>1, ClientSound, PTL

=============================================================================
