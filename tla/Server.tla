------------------------------- MODULE Server -------------------------------
(***************************************************************************)
(* The Python server, src/dictation_websocket_server.py.  asyncio runs one *)
(* task at a time and switches only at an await, so each action is what a  *)
(* task does from one await to the next.  Every connection has a task that *)
(* reads a frame, hands it to the application and writes the reply; the    *)
(* application answers in its own time and may close the iterator.         *)
(*                                                                         *)
(* External, from how the code uses the `websockets` library: frames that  *)
(* arrived are still read after the connection began to close; sending     *)
(* then raises ConnectionClosed; when a handler returns, the library       *)
(* closes its connection; wait_closed returns when every connection is     *)
(* closed and every handler has returned.                                  *)
(*                                                                         *)
(* The application is the caller of dictation_messages or a callback given *)
(* to start_server: see `mode`.                                            *)
(* BridgeSession.state and the `error` fields are left out: they are       *)
(* written and never read.                                                 *)
(***************************************************************************)
EXTENDS Naturals, Sequences, SequencesExt

CONSTANTS
  Clients,
  MaxFrames,    \* bound on the frames of one client (not in the code)
  MaxTotal,     \* bound on the frames of all clients (not in the code)
  Modes,        \* ways to use the server: "iterator", "callback"
  Answers       \* what the application may answer

ASSUME MaxFramesAssumption == MaxFrames \in Nat /\ MaxTotal \in Nat
ASSUME ModesAssumption == Modes \subseteq {"iterator", "callback"}
ASSUME AnswersAssumption ==
  Answers \subseteq {"accept", "reject", "raise", "invalid"}

\* A frame is a dictation, or not one but with a usable requestId, or neither.
FrameKinds == {"dictation", "correlated", "uncorrelated"}

VARIABLES
  inbox,     \* frames that arrived on each connection and were not read
  sent,      \* number of frames each client sent
  link,      \* state of each connection
  task,      \* where each connection's handler awaits
  current,   \* number of the frame it is handling
  future,    \* DictationExchange._response of each dictation
  queue,     \* exchanges: those the application has not taken
  held,      \* those it has taken
  pending,   \* the set `pending` of dictation_messages
  mode,      \* how the application uses the server
  server,    \* "running", "closing" from the finally block on, "closed"
  late,      \* history: exchanges created while closing
  replies    \* history: what each client was sent

connectionVars == <<inbox, sent, link, task, current, replies>>
exchangeVars   == <<future, queue, held, pending, late>>
controlVars    == <<mode, server>>
serverVars     == <<connectionVars, exchangeVars, controlVars>>

Numbers == 1 .. MaxFrames
Exchanges == [c : Clients, n : Numbers]

Init ==
  /\ inbox = [c \in Clients |-> <<>>]
  /\ sent = [c \in Clients |-> 0]
  /\ link = [c \in Clients |-> "none"]
  /\ task = [c \in Clients |-> "none"]
  /\ current = [c \in Clients |-> 0]
  /\ future = [x \in Exchanges |-> "none"]
  /\ queue = <<>>
  /\ held = {}
  /\ pending = {}
  /\ mode \in Modes
  /\ server = "running"
  /\ late = {}
  /\ replies = [c \in Clients |-> <<>>]

-----------------------------------------------------------------------------
(* The clients.                                                            *)

Connect(c) ==
  /\ link[c] = "none" /\ server = "running"
  /\ link' = [link EXCEPT ![c] = "open"]
  /\ task' = [task EXCEPT ![c] = "reading"]
  /\ UNCHANGED <<inbox, sent, current, replies, exchangeVars, controlVars>>

\* A frame arrives, perhaps before the client sees that the server closes.
FrameArrives(c, kind) ==
  /\ link[c] \in {"open", "closing"}
  /\ sent[c] < MaxFrames /\ FoldFunction(+, 0, sent) < MaxTotal
  /\ sent' = [sent EXCEPT ![c] = @ + 1]
  /\ inbox' = [inbox EXCEPT ![c] = Append(@, [n |-> sent[c] + 1, kind |-> kind])]
  /\ UNCHANGED <<link, task, current, replies, exchangeVars, controlVars>>

\* The client closes, or is lost.
ClientCloses(c) ==
  /\ link[c] = "open"
  /\ link' = [link EXCEPT ![c] = "closed"]
  /\ UNCHANGED <<inbox, sent, task, current, replies, exchangeVars, controlVars>>

\* The closing handshake ends, or its time is up.
HandshakeEnds(c) ==
  /\ link[c] = "closing"
  /\ link' = [link EXCEPT ![c] = "closed"]
  /\ UNCHANGED <<inbox, sent, task, current, replies, exchangeVars, controlVars>>

-----------------------------------------------------------------------------
(* The task of a connection.                                               *)

\* What the handler's result is told as: dispatch and _validate_server_result.
Reply(a) ==
  CASE a \in {"accept", "reject"} -> a
    [] a = "raise" -> "handler_error"
    [] OTHER -> "invalid_handler_result"

\* MUTANT: an exception of the callback is not reported to the client.
Send_SilentErrors(c, n, reply) ==
  /\ replies' = IF reply = "handler_error" THEN replies
                ELSE [replies EXCEPT ![c] = Append(@, [n |-> n, reply |-> reply])]
  /\ task' = [task EXCEPT ![c] = "reading"]

\* _send_payload, and how _handle_connection goes on after it.
Send(c, n, reply) ==
  IF link[c] = "open"
    THEN /\ replies' = [replies EXCEPT ![c] = Append(@, [n |-> n, reply |-> reply])]
         /\ task' = [task EXCEPT ![c] = "reading"]
    ELSE /\ task' = [task EXCEPT ![c] = "leaving"]
         /\ UNCHANGED replies

\* enqueue, or the call of the callback: an exchange waits for its answer.
Exchange(x) ==
  /\ future' = [future EXCEPT ![x] = "pending"]
  /\ IF mode = "iterator"
       THEN queue' = Append(queue, x) /\ pending' = pending \cup {x} /\ UNCHANGED held
       ELSE held' = held \cup {x} /\ UNCHANGED <<queue, pending>>
  /\ late' = IF mode = "iterator" /\ server # "running" THEN late \cup {x} ELSE late

\* handle_frame.
ReadFrame(c) ==
  LET f == Head(inbox[c])
  IN  /\ task[c] = "reading" /\ inbox[c] # <<>>
      /\ inbox' = [inbox EXCEPT ![c] = Tail(@)]
      /\ current' = [current EXCEPT ![c] = f.n]
      /\ \/ /\ f.kind = "dictation"
            /\ Exchange([c |-> c, n |-> f.n])
            /\ task' = [task EXCEPT ![c] = "awaiting"]
            /\ UNCHANGED <<link, replies>>
         \/ /\ f.kind = "correlated"
            /\ Send(c, f.n, "refused")
            /\ UNCHANGED <<link, exchangeVars>>
         \/ /\ f.kind = "uncorrelated"
            /\ task' = [task EXCEPT ![c] = "leaving"]
            /\ UNCHANGED <<link, replies, exchangeVars>>
      /\ UNCHANGED <<sent, controlVars>>

\* MUTANT: no `finally`: an answered exchange stays in the set.
Discarded_Never(x) == {}

\* The finally block of enqueue.
Discarded(x) == {x}

\* MUTANT: dispatch catches CancelledError like an exception of the handler.
Resume_CatchesCancelled(c) ==
  LET x == [c |-> c, n |-> current[c]]
  IN  /\ task[c] = "awaiting" /\ future[x] # "pending"
      /\ pending' = pending \ Discarded(x)
      /\ Send(c, x.n, Reply(IF future[x] = "cancelled" THEN "raise" ELSE future[x]))
      /\ UNCHANGED <<inbox, sent, link, current, future, queue, held, late, controlVars>>

\* The await of the exchange returns the answer, or raises CancelledError,
\* which dispatch does not catch.
Resume(c) ==
  LET x == [c |-> c, n |-> current[c]]
  IN  /\ task[c] = "awaiting" /\ future[x] # "pending"
      /\ pending' = pending \ Discarded(x)
      /\ IF future[x] = "cancelled"
           THEN task' = [task EXCEPT ![c] = "done"] /\ UNCHANGED replies
           ELSE Send(c, x.n, Reply(future[x]))
      /\ UNCHANGED <<inbox, sent, link, current, future, queue, held, late, controlVars>>

\* The iteration over the frames ends with the connection.
EndOfFrames(c) ==
  /\ task[c] = "reading" /\ inbox[c] = <<>> /\ link[c] = "closed"
  /\ task' = [task EXCEPT ![c] = "leaving"]
  /\ UNCHANGED <<inbox, sent, link, current, replies, exchangeVars, controlVars>>

\* The handler has returned, or closes the connection itself (1008): the
\* connection is closed, then the handler is done.
Leave(c) ==
  /\ task[c] = "leaving"
  /\ \/ /\ link[c] = "open"
        /\ link' = [link EXCEPT ![c] = "closing"]
        /\ UNCHANGED task
     \/ /\ link[c] = "closed"
        /\ task' = [task EXCEPT ![c] = "done"]
        /\ UNCHANGED link
  /\ UNCHANGED <<inbox, sent, current, replies, exchangeVars, controlVars>>

-----------------------------------------------------------------------------
(* The application.                                                        *)

\* `yield await exchanges.get()`.
Take ==
  /\ server = "running" /\ queue # <<>>
  /\ held' = held \cup {Head(queue)}
  /\ queue' = Tail(queue)
  /\ UNCHANGED <<connectionVars, future, pending, late, controlVars>>

\* respond() raises RuntimeError when the future is done.
Unresolved(x) == future[x] = "pending"

\* respond(), or the callback's return or exception.
Respond(x, a) ==
  /\ x \in held /\ Unresolved(x)
  /\ a = "raise" => mode = "callback"
  /\ future' = [future EXCEPT ![x] = a]
  /\ UNCHANGED <<connectionVars, queue, held, pending, late, controlVars>>

\* MUTANT: the iterator cancels only what the application has taken.
Cancelled_OnlyHeld == {x \in pending \cap held : future[x] = "pending"}

\* The exchanges the finally block cancels.
Cancelled == {x \in pending : future[x] = "pending"}

\* The finally block of dictation_messages, or server.close() by the owner.
Close ==
  /\ server = "running"
  /\ server' = "closing"
  /\ future' = [x \in Exchanges |-> IF x \in Cancelled THEN "cancelled" ELSE future[x]]
  /\ UNCHANGED <<connectionVars, queue, held, pending, late, mode>>

\* Server.close() closes each open connection, in a task of its own.
CloseConnection(c) ==
  /\ server = "closing" /\ link[c] = "open"
  /\ link' = [link EXCEPT ![c] = "closing"]
  /\ UNCHANGED <<inbox, sent, task, current, replies, exchangeVars, controlVars>>

\* wait_closed() returns.
WaitClosed ==
  /\ server = "closing"
  /\ \A c \in Clients : link[c] \in {"none", "closed"} /\ task[c] \in {"none", "done"}
  /\ server' = "closed"
  /\ UNCHANGED <<connectionVars, exchangeVars, mode>>

Answer == \E x \in held, a \in Answers : Respond(x, a)

Next ==
  \/ \E c \in Clients :
       \/ Connect(c) \/ ClientCloses(c) \/ HandshakeEnds(c)
       \/ \E kind \in FrameKinds : FrameArrives(c, kind)
       \/ ReadFrame(c) \/ Resume(c) \/ EndOfFrames(c) \/ Leave(c)
       \/ CloseConnection(c)
  \/ Take \/ Answer \/ Close \/ WaitClosed

Spec == Init /\ [][Next]_serverVars

\* asyncio runs every task that is ready, and the library ends every closing
\* handshake.  Nothing is assumed of the clients or the application.
Fairness ==
  /\ \A c \in Clients :
       WF_serverVars(ReadFrame(c) \/ Resume(c) \/ EndOfFrames(c) \/ Leave(c))
       /\ WF_serverVars(CloseConnection(c)) /\ WF_serverVars(HandshakeEnds(c))
  /\ WF_serverVars(WaitClosed)

FairSpec == Spec /\ Fairness

\* The application takes what it is given and answers it.
ApplicationAnswers == WF_serverVars(Take) /\ WF_serverVars(Answer)

-----------------------------------------------------------------------------

\* Every variable has its type.
TypeOK ==
  /\ inbox \in [Clients -> Seq([n : Numbers, kind : FrameKinds])]
  /\ sent \in [Clients -> 0 .. MaxFrames]
  /\ link \in [Clients -> {"none", "open", "closing", "closed"}]
  /\ task \in [Clients -> {"none", "reading", "awaiting", "leaving", "done"}]
  /\ current \in [Clients -> 0 .. MaxFrames]
  /\ future \in [Exchanges -> {"none", "pending", "cancelled"} \cup Answers]
  /\ queue \in Seq(Exchanges)
  /\ held \subseteq Exchanges /\ pending \subseteq Exchanges /\ late \subseteq Exchanges
  /\ mode \in Modes
  /\ server \in {"running", "closing", "closed"}
  /\ replies \in [Clients -> Seq([n : Numbers, reply :
       {"accept", "reject", "refused", "handler_error", "invalid_handler_result"}])]

\* `pending` is exactly what the tasks wait for, so that the finally block
\* finds every exchange that needs cancelling, and an exchange is at most in
\* one of the places the application can get it from.
NothingForgotten ==
  /\ TypeOK
  /\ mode = "iterator" =>
       pending = {x \in Exchanges : task[x.c] = "awaiting" /\ current[x.c] = x.n}
  /\ ToSet(queue) \cap held = {} /\ IsInjective(queue)
  /\ \A x \in Exchanges : future[x] = "pending" => x \in ToSet(queue) \cup held

-----------------------------------------------------------------------------
(* Refinement.                                                             *)

Asked == [c \in Clients |-> {n \in Numbers : future[[c |-> c, n |-> n]] # "none"}]

Decided ==
  [c \in Clients |-> [n \in Numbers |->
     LET a == future[[c |-> c, n |-> n]] IN IF a = "pending" THEN "none" ELSE a]]

A == INSTANCE Answering WITH
  Requests <- Numbers, Decisions <- Answers,
  asked <- Asked, decided <- Decided, told <- replies

\* Tasks, futures and closing implement the service of Answering.
ImplementsAnswering == A!Spec

-----------------------------------------------------------------------------
(* Liveness.                                                               *)

\* Closing the iterator ends, whatever clients and application do, unless a
\* dictation was read after the finally block cancelled what was pending; and
\* closing a server with a callback ends, as long as the callback does.
CloseEndsUnlessLate ==
  /\ mode = "iterator" /\ server = "closing" ~> server = "closed" \/ late # {}
  /\ ApplicationAnswers =>
       (mode = "callback" /\ server = "closing" ~> server = "closed")

\* README.md: closing the iterator shuts down the server.
CloseEnds == server = "closing" ~> server = "closed"

\* A dictation that reached an open connection is answered as long as the
\* application answers, unless the connection or the server closes.
DictationsAnswered ==
  ApplicationAnswers =>
    \A x \in Exchanges :
      future[x] = "pending" ~>
        \/ \E i \in DOMAIN replies[x.c] : replies[x.c][i].n = x.n
        \/ link[x.c] # "open"

=============================================================================
