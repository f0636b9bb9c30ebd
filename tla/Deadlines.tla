----------------------------- MODULE Deadlines -----------------------------
(***************************************************************************)
(* How long things take once the last transcript chunk has arrived at the  *)
(* phone: the watchdogs of src/c/main.c against the timers of              *)
(* src/pkjs/websocket_bridge.js.  Watch, Phone and System let a timer fire *)
(* whenever it is armed; here each fires when its time is over, and the    *)
(* link takes up to Delay for a message and as much for its completion.    *)
(*                                                                         *)
(* SESSION_END is left out: nothing the phone does after the watch has     *)
(* failed changes what the watch shows.                                    *)
(***************************************************************************)
EXTENDS Integers, Sequences

CONSTANTS
  SendStart, ResultChunk, Request,   \* durations of prv_bridge_init
  Handoff, ServerResult,             \* durations of index.js
  Delay,                             \* bound on the link's delays (external)
  MaxChunks                          \* bound on the chunks of a result

ASSUME DurationAssumption ==
  {SendStart, ResultChunk, Request, Handoff, ServerResult, Delay, MaxChunks}
    \subseteq Nat \ {0}

VARIABLES
  phone,      \* BridgeSession's state, and chunks of the result left to send
  queue,      \* AppMessageTransport: what is being sent, then what waits
  watch,      \* state of the watch/phone bridge, and the status it failed with
  countdown,  \* time left to what is armed or under way
  elapsed,    \* history: time since the last chunk arrived
  handed,     \* history: when the transcript was handed over; -1 before
  lost        \* history: the link lost a message

vars == <<phone, queue, watch, countdown, elapsed, handed, lost>>

WatchTimers == {"send_start", "request", "result_chunk"}

PhoneTimers == {"handoff", "server_result"}

\* The last chunk on its way to JavaScript and its acknowledgement to the
\* watch; a phone message and its completion.
Journeys == {"chunk", "ack", "push", "done"}

Armed(t) == t \in DOMAIN countdown

Disarm(c, ts) == [t \in DOMAIN c \ ts |-> c[t]]

Arm(c, t, n) == [u \in DOMAIN c \cup {t} |-> IF u = t THEN n ELSE c[u]]

Pending == watch.state \notin {"ERROR", "DISPLAYING_RESULT"}

Init ==
  /\ phone = [state |-> "RECEIVING", chunks |-> 0]
  /\ queue = <<>>
  /\ watch = [state |-> "TRANSFERRING", status |-> "NORMAL"]
  /\ countdown = [t \in {"chunk", "ack"} |-> Delay]
  /\ elapsed = 0
  /\ handed = -1
  /\ lost = FALSE

\* Time passes until something must happen.
Tick ==
  /\ Pending
  /\ \A t \in DOMAIN countdown : countdown[t] > 0
  /\ countdown' = [t \in DOMAIN countdown |-> countdown[t] - 1]
  /\ elapsed' = elapsed + 1
  /\ UNCHANGED <<phone, queue, watch, handed, lost>>

-----------------------------------------------------------------------------
(* The phone.                                                              *)

\* AppMessageTransport.enqueue: the message is sent if no other is.
Enqueue(m, c) ==
  /\ queue' = Append(queue, m)
  /\ countdown' = IF queue = <<>> THEN Arm(c, "push", Delay) ELSE c

\* setTranscript.
LastChunk ==
  /\ Pending /\ Armed("chunk")
  /\ phone' = [phone EXCEPT !.state = "WAITING_TO_SEND"]
  /\ countdown' = Arm(Disarm(countdown, {"chunk"}), "handoff", Handoff)
  /\ UNCHANGED <<queue, watch, elapsed, handed, lost>>

\* trySend, as soon as the socket is open.
HandOver ==
  /\ Pending /\ phone.state = "WAITING_TO_SEND"
  /\ phone' = [phone EXCEPT !.state = "AWAITING_RESULT"]
  /\ Enqueue([type |-> "SEND_STARTED"],
             Arm(Disarm(countdown, {"handoff"}), "server_result", ServerResult))
  /\ handed' = elapsed
  /\ UNCHANGED <<watch, elapsed, lost>>

\* BridgeSession.fail.
PhoneFails(status) ==
  /\ phone' = [phone EXCEPT !.state = "FORWARDING_TERMINAL"]
  /\ Enqueue([type |-> "FAILURE", status |-> status], Disarm(countdown, PhoneTimers))
  /\ UNCHANGED <<watch, elapsed, handed, lost>>

\* The socket fails, or the server reports an error.
SocketFails ==
  /\ Pending /\ phone.state \in {"WAITING_TO_SEND", "AWAITING_RESULT"}
  /\ PhoneFails("ERROR_SERVER")

HandoffTimeout ==
  /\ Pending /\ Armed("handoff") /\ countdown["handoff"] = 0
  /\ PhoneFails("ERROR_TRANSFER")

ResultTimeout ==
  /\ Pending /\ Armed("server_result") /\ countdown["server_result"] = 0
  /\ PhoneFails("ERROR_SERVER_RESULT_TIMEOUT")

\* A matching result of n chunks.
Result ==
  /\ Pending /\ phone.state = "AWAITING_RESULT"
  /\ \E n \in 1 .. MaxChunks :
       /\ phone' = [state |-> "FORWARDING_TERMINAL", chunks |-> n - 1]
       /\ Enqueue([type |-> "SERVER_RESULT_CHUNK", left |-> n - 1],
                  Disarm(countdown, PhoneTimers))
  /\ UNCHANGED <<watch, elapsed, handed, lost>>

\* A message is complete: the next one, or the next chunk, is sent; after a
\* terminal one the session closes.
PushDone ==
  /\ Pending /\ Armed("done") /\ Head(queue).type # "LOST"
  /\ LET m == Head(queue)
         more == m.type = "SERVER_RESULT_CHUNK" /\ phone.chunks > 0
         next == IF more
                   THEN <<[type |-> "SERVER_RESULT_CHUNK", left |-> phone.chunks - 1]>>
                   ELSE <<>>
         c == Disarm(countdown, {"done"})
     IN  /\ queue' = Tail(queue) \o next
         /\ phone' = CASE m.type = "SEND_STARTED" -> phone
                       [] m.type # "SEND_STARTED" /\ more -> [phone EXCEPT !.chunks = @ - 1]
                       [] OTHER -> [state |-> "CLOSED", chunks |-> 0]
         /\ countdown' = IF queue' = <<>> THEN c ELSE Arm(c, "push", Delay)
  /\ UNCHANGED <<watch, elapsed, handed, lost>>

\* A message is lost, and the phone learns it: the session closes.
PushLost ==
  /\ Pending /\ Armed("push")
  /\ lost' = TRUE
  /\ queue' = <<[type |-> "LOST"]>> \o Tail(queue)
  /\ countdown' = Arm(Disarm(countdown, {"push"}), "done", Delay)
  /\ UNCHANGED <<phone, watch, elapsed, handed>>

PushFails ==
  /\ Pending /\ Armed("done") /\ Head(queue).type = "LOST"
  /\ phone' = [state |-> "CLOSED", chunks |-> 0]
  /\ queue' = <<>>
  /\ countdown' = Disarm(countdown, PhoneTimers \cup {"done"})
  /\ UNCHANGED <<watch, elapsed, handed, lost>>

-----------------------------------------------------------------------------
(* The watch.                                                              *)

\* prv_outbox_sent of the last chunk.
AckArrives ==
  /\ Pending /\ Armed("ack")
  /\ watch' = [watch EXCEPT !.state = "AWAITING_SEND_START"]
  /\ countdown' = Arm(Disarm(countdown, {"ack"}), "send_start", SendStart)
  /\ UNCHANGED <<phone, queue, elapsed, handed, lost>>

\* MUTANT: SEND_STARTED leaves the delivery watchdog armed.
WatchAfter_KeepsWatchdog(m, c) ==
  CASE m.type = "SEND_STARTED" -> Arm(c, "request", Request)
    [] m.type = "SERVER_RESULT_CHUNK" /\ m.left > 0 ->
         Arm(Disarm(c, WatchTimers), "result_chunk", ResultChunk)
    [] OTHER -> Disarm(c, WatchTimers)

\* MUTANT: the first result chunk leaves the watch without a watchdog.
WatchAfter_NoChunkTimer(m, c) ==
  CASE m.type = "SEND_STARTED" -> Arm(Disarm(c, {"send_start"}), "request", Request)
    [] OTHER -> Disarm(c, WatchTimers)

\* The watchdogs once message m was handled, c armed before.
WatchAfter(m, c) ==
  CASE m.type = "SEND_STARTED" -> Arm(Disarm(c, {"send_start"}), "request", Request)
    [] m.type = "SERVER_RESULT_CHUNK" /\ m.left > 0 ->
         Arm(Disarm(c, WatchTimers), "result_chunk", ResultChunk)
    [] OTHER -> Disarm(c, WatchTimers)

\* prv_inbox_received.  The link keeps order: no message of the phone is
\* there before the acknowledgement of the last chunk.
PushArrives ==
  /\ Pending /\ Armed("push") /\ ~ Armed("ack")
  /\ LET m == Head(queue)
     IN  /\ watch' =
              CASE m.type = "SEND_STARTED" -> [watch EXCEPT !.state = "AWAITING_RESULT"]
                [] m.type = "FAILURE" -> [state |-> "ERROR", status |-> m.status]
                [] OTHER -> [watch EXCEPT !.state = IF m.left > 0 THEN "RECEIVING_RESULT"
                                                    ELSE "DISPLAYING_RESULT"]
         /\ countdown' =
              Arm(Disarm(WatchAfter(m, countdown), {"push"}), "done", Delay)
  /\ UNCHANGED <<phone, queue, elapsed, handed, lost>>

WatchdogStatus ==
  [send_start |-> "ERROR_TRANSCRIPT_DELIVERY_TIMEOUT",
   request |-> "ERROR_WS_REQUEST_TIMEOUT",
   result_chunk |-> "ERROR_RESULT_TRANSFER_TIMEOUT"]

WatchTimeout ==
  /\ Pending
  /\ \E t \in WatchTimers :
       /\ Armed(t) /\ countdown[t] = 0
       /\ watch' = [state |-> "ERROR", status |-> WatchdogStatus[t]]
  /\ countdown' = Disarm(countdown, WatchTimers)
  /\ UNCHANGED <<phone, queue, elapsed, handed, lost>>

Settled == ~ Pending /\ UNCHANGED vars

Next ==
  \/ Tick \/ Settled
  \/ LastChunk \/ HandOver \/ SocketFails \/ HandoffTimeout \/ ResultTimeout
  \/ Result \/ PushDone \/ PushLost \/ PushFails
  \/ AckArrives \/ PushArrives \/ WatchTimeout

Spec == Init /\ [][Next]_vars

-----------------------------------------------------------------------------
(* Properties.                                                             *)

TypeOK ==
  /\ phone \in [state : {"RECEIVING", "WAITING_TO_SEND", "AWAITING_RESULT",
                         "FORWARDING_TERMINAL", "CLOSED"}, chunks : 0 .. MaxChunks - 1]
  /\ Len(queue) <= 2
  /\ watch \in [state : {"TRANSFERRING", "AWAITING_SEND_START", "AWAITING_RESULT",
                         "RECEIVING_RESULT", "DISPLAYING_RESULT", "ERROR"},
                status : {"NORMAL", "ERROR_SERVER", "ERROR_TRANSFER",
                          "ERROR_SERVER_RESULT_TIMEOUT", "ERROR_WS_REQUEST_TIMEOUT",
                          "ERROR_TRANSCRIPT_DELIVERY_TIMEOUT",
                          "ERROR_RESULT_TRANSFER_TIMEOUT"}]
  /\ DOMAIN countdown \subseteq WatchTimers \cup PhoneTimers \cup Journeys
  /\ \A t \in DOMAIN countdown : countdown[t] \in Nat
  /\ elapsed \in Nat /\ handed \in Nat \cup {-1} /\ lost \in BOOLEAN

\* If the link loses nothing, the watch never makes up a reason of its own
\* but for a late hand-over: it shows a result or the phone's reason.
\* - The phone's 60 seconds are authoritative (specification 10.2): the guard
\*   of 62 seconds does not fire, whatever the server and the socket do.
\* - A result the phone began to forward is shown: a chunk, its completion
\*   and the next chunk fit the three seconds the watch waits (10.3).
\* - The two seconds of the hand-over run on both sides, from moments that
\*   differ by the link's delays.  Whichever side's end first, no hand-over is
\*   given up on that left SEND_STARTED the time of one delay.
PhoneDecides ==
  watch.state = "ERROR" /\ ~lost =>
    \/ watch.status \in {"ERROR_SERVER", "ERROR_SERVER_RESULT_TIMEOUT"}
    \/ /\ watch.status \in {"ERROR_TRANSCRIPT_DELIVERY_TIMEOUT", "ERROR_TRANSFER"}
       /\ handed = -1 \/ handed + Delay >= SendStart

\* Nothing keeps the user waiting: each phase of the watch has a watchdog, so
\* the run is over in the time of all of them, even if every message is lost.
SettlesInTime ==
  /\ TypeOK
  /\ Pending => elapsed <= Delay + SendStart + Request + (MaxChunks - 1) * ResultChunk

=============================================================================
