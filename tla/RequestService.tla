--------------------------- MODULE RequestService ---------------------------
(***************************************************************************)
(* What glakv_server promises the client of a connection: the requests it  *)
(* sends are taken one at a time, and a request that was taken gets one    *)
(* response, neither less nor more.  phase says where each connection is:  *)
(* idle, a request sent, taken by the server, answered, or gone.           *)
(***************************************************************************)
CONSTANT Client
VARIABLE phase

Phase == {"idle", "sent", "taken", "answered", "gone"}

Move(c, from, to) == phase[c] = from /\ phase' = [phase EXCEPT ![c] = to]

Ask(c) == Move(c, "idle", "sent")
TakeRequest(c) == Move(c, "sent", "taken")
Respond(c) == Move(c, "taken", "answered")
Receive(c) == Move(c, "answered", "idle")
Leave(c) == \E p \in Phase : Move(c, p, "gone")

Init == phase = [c \in Client |-> "idle"]
Next == \E c \in Client :
          Ask(c) \/ TakeRequest(c) \/ Respond(c) \/ Receive(c) \/ Leave(c)

Spec == Init /\ [][Next]_phase
=============================================================================
