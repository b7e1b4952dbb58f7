---------------------------- MODULE Experiments -----------------------------
(***************************************************************************)
(* main of glakv_server: the accept loop, which starts a serving thread    *)
(* for each connection, and which prints a report whenever it has nothing  *)
(* to accept, no client is connected and no report was printed since one   *)
(* was.  What a connection does is PrefetchServer; here it is the part of  *)
(* serve_client that main can see.                                         *)
(***************************************************************************)
EXTENDS Integers, FiniteSets

CONSTANTS
  Client,        \* the connections that are made (a bound)
  NumExp,        \* num_exp: how many reports end the program, 0 for no limit
  MayInterrupt   \* can the server receive SIGINT?

ASSUME ExperimentsAssumption ==
  /\ IsFiniteSet(Client)
  /\ NumExp \in Nat
  /\ MayInterrupt \in BOOLEAN

VARIABLES
  mpc,           \* where main is
  conn,          \* where each connection is
  quit,          \* set by the signal handler
  num_clients,   \* num_clients
  reported,      \* reported
  count,         \* count: the reports printed under a limit
  joined,        \* the serving threads that main has joined
  unreported     \* the connections accepted since the last report (history)

vars == <<mpc, conn, quit, num_clients, reported, count, joined, unreported>>

(* Started: the thread exists.  Left: the command loop is over.            *)
Started == {c \in Client : conn[c] \in {"created", "serving", "left", "done"}}
Left == {c \in Client : conn[c] \in {"left", "done"}}

TypeOK ==
  /\ mpc \in {"loop", "accept", "created", "idle", "join", "ended"}
  /\ conn \in [Client -> {"away", "backlog", "created", "serving", "left", "done"}]
  /\ quit \in BOOLEAN
  /\ num_clients \in Int
  /\ reported \in BOOLEAN
  /\ count \in Nat
  /\ joined \subseteq Started
  /\ unreported \subseteq Started

Init ==
  /\ mpc = "loop"
  /\ conn = [c \in Client |-> "away"]
  /\ quit = FALSE
  /\ num_clients = 0
  /\ reported = TRUE
  /\ count = 0
  /\ joined = {}
  /\ unreported = {}

-----------------------------------------------------------------------------
(* main                                                                    *)

CheckQuit_Mutant ==
  /\ mpc = "loop"
  /\ mpc' = "accept"
  /\ UNCHANGED <<conn, quit, num_clients, reported, count, joined, unreported>>

CheckQuit ==
  /\ mpc = "loop"
  /\ mpc' = IF quit THEN "join" ELSE "accept"
  /\ UNCHANGED <<conn, quit, num_clients, reported, count, joined, unreported>>

(* A connection is there: start its thread, ...                            *)
Accept ==
  /\ mpc = "accept"
  /\ \E c \in Client :
       /\ conn[c] = "backlog"
       /\ conn' = [conn EXCEPT ![c] = "created"]
       /\ unreported' = unreported \cup {c}
  /\ mpc' = "created"
  /\ UNCHANGED <<quit, num_clients, reported, count, joined>>

(* ... which may be at work, or over, before it is counted.                *)
CountClient ==
  /\ mpc = "created"
  /\ num_clients' = num_clients + 1
  /\ mpc' = "loop"
  /\ UNCHANGED <<conn, quit, reported, count, joined, unreported>>

(* EAGAIN: nothing to accept.                                              *)
NothingToAccept ==
  /\ mpc = "accept"
  /\ \A c \in Client : conn[c] # "backlog"
  /\ mpc' = IF num_clients = 0 THEN "idle" ELSE "loop"
  /\ UNCHANGED <<conn, quit, num_clients, reported, count, joined, unreported>>

(* No client is connected: report, once, and end after the last one.       *)
Unreported_Mutant == TRUE
Unreported == ~reported
Report ==
  /\ mpc = "idle" /\ Unreported
  /\ reported' = TRUE
  /\ unreported' = {}
  /\ count' = IF NumExp > 0 THEN count + 1 ELSE count
  /\ mpc' = IF NumExp > 0 /\ count' = NumExp THEN "join" ELSE "loop"
  /\ UNCHANGED <<conn, quit, num_clients, joined>>

NothingToReport ==
  /\ mpc = "idle" /\ ~Unreported
  /\ mpc' = "loop"
  /\ UNCHANGED <<conn, quit, num_clients, reported, count, joined, unreported>>

(* After the loop: join every thread that was started, which waits for the *)
(* slowest whatever the order.                                             *)
Joinable == {c \in Client : conn[c] = "done"}
Join ==
  /\ mpc = "join"
  /\ \E c \in Joinable \ joined : joined' = joined \cup {c}
  /\ UNCHANGED <<mpc, conn, quit, num_clients, reported, count, unreported>>

End ==
  /\ mpc = "join" /\ joined = Started
  /\ mpc' = "ended"
  /\ UNCHANGED <<conn, quit, num_clients, reported, count, joined, unreported>>

-----------------------------------------------------------------------------
(* The clients and their serving threads.                                  *)

Connect(c) ==
  /\ conn[c] = "away" /\ mpc # "ended"
  /\ conn' = [conn EXCEPT ![c] = "backlog"]
  /\ UNCHANGED <<mpc, quit, num_clients, reported, count, joined, unreported>>

(* serve_client begins: reported = false.                                  *)
Serve(c) ==
  /\ conn[c] = "created"
  /\ reported' = FALSE
  /\ conn' = [conn EXCEPT ![c] = "serving"]
  /\ UNCHANGED <<mpc, quit, num_clients, count, joined, unreported>>

(* The command loop ends, for any of its reasons.                          *)
Leave_Mutant(c) ==
  /\ conn[c] = "serving"
  /\ conn' = [conn EXCEPT ![c] = "left"]
  /\ UNCHANGED <<mpc, quit, num_clients, reported, count, joined, unreported>>

Leave(c) ==
  /\ conn[c] = "serving"
  /\ num_clients' = num_clients - 1
  /\ conn' = [conn EXCEPT ![c] = "left"]
  /\ UNCHANGED <<mpc, quit, reported, count, joined, unreported>>

(* Its tasks are deleted and the socket is closed: the thread returns.     *)
CleanUp(c) ==
  /\ conn[c] = "left"
  /\ conn' = [conn EXCEPT ![c] = "done"]
  /\ UNCHANGED <<mpc, quit, num_clients, reported, count, joined, unreported>>

Interrupt ==
  /\ MayInterrupt /\ ~quit /\ mpc # "ended"
  /\ quit' = TRUE
  /\ UNCHANGED <<mpc, conn, num_clients, reported, count, joined, unreported>>

Ended == mpc = "ended" /\ UNCHANGED vars

MainStep ==
  \/ CheckQuit \/ Accept \/ CountClient \/ NothingToAccept
  \/ Report \/ NothingToReport \/ Join \/ End
ServeStep(c) == Serve(c) \/ Leave(c) \/ CleanUp(c)

Next ==
  \/ MainStep
  \/ \E c \in Client : Connect(c) \/ ServeStep(c)
  \/ Interrupt
  \/ Ended

Spec == Init /\ [][Next]_vars

(* The threads of the server run; whether a client ever leaves, and its    *)
(* command loop with it, is not up to them.                                *)
Fairness ==
  WF_vars(MainStep) /\ \A c \in Client : WF_vars(Serve(c)) /\ WF_vars(CleanUp(c))
FairSpec == Spec /\ Fairness

-----------------------------------------------------------------------------
(* The serving threads change num_clients and reported while main reads    *)
(* them.  Main sees 0 clients only when every connection it accepted has   *)
(* left: no report is printed in the middle of an experiment.              *)
IdleMeansLeft == mpc = "idle" => Started \subseteq Left

(* Every report is about some connection that no earlier one was about,    *)
(* and about all of them: each experiment is reported once.                *)
OneReportEach ==
  [][count' # count \/ (reported' /\ ~reported) =>
       unreported # {} /\ unreported \subseteq Left]_vars

(* The objects of main outlive the threads that have references to them.   *)
MainOutlives == mpc = "ended" => \A c \in Started : conn[c] = "done"

(* An experiment whose clients have all left is reported in the end,       *)
(* unless the server is told to quit or the next one begins.               *)
ExperimentReported ==
  (unreported # {} /\ Started \subseteq Left /\ mpc # "join")
    ~> (unreported = {} \/ quit \/ ~(Started \subseteq Left))

(* An interrupted server ends as soon as no client stays connected.        *)
ServerEnds == quit ~> (mpc = "ended" \/ \E c \in Client : conn[c] = "serving")

-----------------------------------------------------------------------------
(* The inductive invariant behind the safety properties: num_clients is    *)
(* what main has counted less what has left; a report is due exactly when  *)
(* a connection that was not reported has begun to be served.              *)
Counted == Cardinality(Started) - (IF mpc = "created" THEN 1 ELSE 0)
ClientsCounted == num_clients = Counted - Cardinality(Left)

ReportDue ==
  /\ reported => \A c \in unreported : conn[c] = "created"
  /\ ~reported => unreported # {}
  /\ \A c \in Client : conn[c] = "created" => c \in unreported

JoinedDone == \A c \in joined : conn[c] = "done"

ExperimentsInv ==
  /\ TypeOK
  /\ ClientsCounted
  /\ IdleMeansLeft
  /\ ReportDue
  /\ JoinedDone
  /\ MainOutlives
=============================================================================
