------------------------------ MODULE Answering ------------------------------
(***************************************************************************)
(* What dictation_websocket_server.py promises its clients and its         *)
(* application, without sockets, tasks and futures: each request that was  *)
(* read is decided at most once, by the application or by cancellation,    *)
(* and a client is told at most once, of its requests in the order it made *)
(* them, what the application decided.                                     *)
(***************************************************************************)
EXTENDS Naturals, Sequences

CONSTANTS
  Clients,
  Requests,     \* requests are numbered on each connection
  Decisions,    \* what the application may decide
  Reply(_)      \* how a decision is told

VARIABLES
  asked,        \* requests put to the application, per client
  decided,      \* decisions, "none" until there is one
  told          \* what each client was told: request and reply

answeringVars == <<asked, decided, told>>

Init ==
  /\ asked = [c \in Clients |-> {}]
  /\ decided = [c \in Clients |-> [n \in Requests |-> "none"]]
  /\ told = [c \in Clients |-> <<>>]

Ask(c, n) ==
  /\ \A m \in asked[c] : m < n
  /\ asked' = [asked EXCEPT ![c] = @ \cup {n}]
  /\ UNCHANGED <<decided, told>>

Decide(c, n) ==
  /\ n \in asked[c] /\ decided[c][n] = "none"
  /\ \E a \in Decisions : decided' = [decided EXCEPT ![c][n] = a]
  /\ UNCHANGED <<asked, told>>

\* Every exchange without a decision is cancelled at once.
CancelAll ==
  /\ decided' = [c \in Clients |-> [n \in Requests |->
       IF n \in asked[c] /\ decided[c][n] = "none" THEN "cancelled"
                                                   ELSE decided[c][n]]]
  /\ UNCHANGED <<asked, told>>

\* Clients are told in order; a cancelled request is never told.
Tell(c, n) ==
  /\ decided[c][n] \in Decisions
  /\ \A i \in DOMAIN told[c] : told[c][i].n < n
  /\ told' = [told EXCEPT ![c] = Append(@, [n |-> n, reply |-> Reply(decided[c][n])])]
  /\ UNCHANGED <<asked, decided>>

\* A request with a usable identifier that is no dictation is refused.
Refuse(c, n) ==
  /\ n \notin asked[c]
  /\ \A i \in DOMAIN told[c] : told[c][i].n < n
  /\ told' = [told EXCEPT ![c] = Append(@, [n |-> n, reply |-> "refused"])]
  /\ UNCHANGED <<asked, decided>>

Next ==
  \/ \E c \in Clients, n \in Requests : Ask(c, n) \/ Decide(c, n) \/ Tell(c, n) \/ Refuse(c, n)
  \/ CancelAll

Spec == Init /\ [][Next]_answeringVars

=============================================================================
