------------------------------ MODULE KVStore -------------------------------
(***************************************************************************)
(* What a database promises its callers.  A call takes effect at one       *)
(* moment between its start and its end.  A put or del that has returned   *)
(* is durable, and so is all that took effect before: no crash loses it.   *)
(* One that the death of the process cut short may have taken effect and   *)
(* be found by gets, and still be lost when the machine fails before any   *)
(* other put or del has returned.                                          *)
(***************************************************************************)
CONSTANTS Thread, Key, Val, NoVal

VARIABLES
  store,    \* the value of every key, or NoVal
  durable,  \* the value that a failure of the machine leaves to it
  call      \* what each thread has called, and what it got

vars == <<store, durable, call>>

Op == [kind : {"get"}, key : Key, val : {NoVal}]
      \cup [kind : {"put"}, key : Key, val : Val]
      \cup [kind : {"del"}, key : Key, val : {NoVal}]

Idle == [phase |-> "idle"]
Pending(op) == [phase |-> "pending", op |-> op]
Applied(op) == [phase |-> "applied", op |-> op]
Done(op, result) == [phase |-> "done", op |-> op, result |-> result]

Invoke(t) ==
  /\ call[t] = Idle
  /\ \E op \in Op : call' = [call EXCEPT ![t] = Pending(op)]
  /\ UNCHANGED <<store, durable>>

(* A get finds the value of its key; put and del set it: del to NoVal.     *)
Find(t) ==
  \E op \in Op :
    /\ op.kind = "get"
    /\ call[t] = Pending(op)
    /\ call' = [call EXCEPT ![t] = Done(op, store[op.key])]
    /\ UNCHANGED <<store, durable>>

Apply(t) ==
  \E op \in Op :
    /\ op.kind # "get"
    /\ call[t] = Pending(op)
    /\ call' = [call EXCEPT ![t] = Applied(op)]
    /\ store' = [store EXCEPT ![op.key] = op.val]
    /\ UNCHANGED durable

(* What a put or del has done, and all before it, is made durable.         *)
Settle(t) ==
  \E op \in Op :
    /\ call[t] = Applied(op)
    /\ call' = [call EXCEPT ![t] = Done(op, NoVal)]
    /\ durable' = store
    /\ UNCHANGED store

Return(t) ==
  /\ call[t].phase = "done"
  /\ call' = [call EXCEPT ![t] = Idle]
  /\ UNCHANGED <<store, durable>>

(* A value may become durable by itself.                                   *)
WriteBack(k) ==
  /\ durable' = [durable EXCEPT ![k] = store[k]]
  /\ UNCHANGED <<store, call>>

(* The process dies, or the machine does: the calls in progress end.       *)
Kill ==
  /\ call' = [t \in Thread |-> Idle]
  /\ UNCHANGED <<store, durable>>

PowerFailure ==
  /\ call' = [t \in Thread |-> Idle]
  /\ store' = durable
  /\ UNCHANGED durable

Init ==
  /\ store = [k \in Key |-> NoVal]
  /\ durable = store
  /\ call = [t \in Thread |-> Idle]

Next ==
  \/ \E t \in Thread : Invoke(t) \/ Find(t) \/ Apply(t) \/ Settle(t) \/ Return(t)
  \/ \E k \in Key : WriteBack(k)
  \/ Kill
  \/ PowerFailure

Spec == Init /\ [][Next]_vars
=============================================================================
