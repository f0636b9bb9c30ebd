-------------------------------- MODULE Phone --------------------------------
(***************************************************************************)
(* PebbleKit JS, src/pkjs.  Every JavaScript event handler runs to         *)
(* completion, so each is one action.  A handler calls through several     *)
(* objects that call each other back (session, watch bridge, WebSocket     *)
(* bridge, transport); each such method is an operator from the phone's    *)
(* state `p` to its new state, in the order of the calls.                  *)
(*                                                                         *)
(* Which host calls throw in a handler is its argument `x`.  The session's *)
(* `terminal` flag is FORWARDING_TERMINAL, and WatchBridge.state follows   *)
(* from the session's.  index.js may keep a session that closed within its *)
(* own constructor as activeSession; every call into it then returns at    *)
(* once, so a closed session stands for null.                              *)
(***************************************************************************)
EXTENDS Protocol, SequencesExt

CONSTANTS
  MaxResponse,    \* MAX_RESPONSE_BYTES, in pieces
  MayThrow,       \* host calls that may throw
  MaxSessions,    \* bound on the sessions started (not a limit of the code)
  WatchInbox,     \* the AppMessages that may arrive
  Frames,         \* the WebSocket frames that may arrive
  PromptFrames    \* those that may arrive within WebSocket.send() itself

ASSUME PhoneResponseAssumption == MaxResponse \in Nat
ASSUME MayThrowAssumption == MayThrow \subseteq {"WebSocket", "send", "sendAppMessage"}
ASSUME MaxSessionsAssumption == MaxSessions \in Nat
ASSUME WatchInboxAssumption ==
  WatchInbox \subseteq WatchMessages \cup [type : {"MALFORMED"}, id : ReqIds \cup {NoId}]

FrameKinds == {"result", "server_error", "protocol_error", "unrelated"}

NoFrame == [id |-> NoId, kind |-> "unrelated", success |-> FALSE, response |-> <<>>]

ASSUME FramesAssumption ==
  /\ Frames \subseteq [id : ReqIds \cup {NoId}, kind : FrameKinds,
                       success : BOOLEAN, response : Texts]
  /\ PromptFrames \subseteq Frames

VARIABLES
  phone,    \* the active session, its bridges and the AppMessage transport
  heard     \* history: transcript chunks received for the active session

phoneVars == <<phone, heard>>

SessionStates ==
  {"RECEIVING_TRANSCRIPT", "WAITING_TO_SEND", "AWAITING_RESULT",
   "FORWARDING_TERMINAL", "CLOSED"}

\* IDLE, SENDING, COMPLETE and FAILED last no longer than one handler.
ServerBridgeStates == {"CONNECTING", "READY", "AWAITING_RESULT", "CLOSED"}

\* readyState of the socket; "none" when the bridge has let go of it.
SocketStates == {"none", "connecting", "open", "closing"}

NoEntry == [owner |-> 0, msg |-> NoMsg]

NoTranscript == [text |-> <<>>, count |-> 0, total |-> 0, next |-> 0]

\* No session, and an AppMessage transport with nothing to do.
Idle ==
  [serial |-> 0,             \* number of sessions started
   id |-> NoId,              \* the session's requestId
   state |-> "CLOSED",
   assembler |-> NoTranscript,
   server |-> "CLOSED",
   socket |-> "none",
   timers |-> {},            \* BridgeTimers with a handle
   transcript |-> <<>>,      \* given to setTranscript
   payloads |-> <<>>,        \* result chunks being forwarded
   queue |-> <<>>,           \* AppMessageTransport.queue
   inflight |-> NoEntry,     \* the entry that makes it busy
   requests |-> <<>>]        \* history: frames passed to send()

Init ==
  /\ phone = Idle
  /\ heard = <<>>

-----------------------------------------------------------------------------
(* Closing.                                                                *)

\* MUTANT: closing leaves the timers running.
ServerClose_KeepsTimers(p) ==
  [p EXCEPT !.server = "CLOSED", !.socket = "none", !.transcript = <<>>]

\* WebSocketBridge.close and detachAndCloseSocket.
ServerClose(p) ==
  [p EXCEPT !.server = "CLOSED", !.socket = "none", !.timers = {},
            !.transcript = <<>>]

\* MUTANT: what the session had queued is sent after its end.
CancelQueued_Keeps(p) == p

\* The entries that are not of session `owner`, in their order.
Others(queue, owner) ==
  LET among[n \in 0 .. Len(queue)] ==
        IF n = 0 THEN <<>>
        ELSE IF queue[n].owner = owner THEN among[n - 1]
        ELSE Append(among[n - 1], queue[n])
  IN  among[Len(queue)]

\* AppMessageTransport.cancel: queued entries go, the one in flight stays.
CancelQueued(p) == [p EXCEPT !.queue = Others(p.queue, p.serial)]

\* BridgeSession.close.
SessionClose(p) ==
  IF p.state = "CLOSED"
    THEN p
    ELSE [CancelQueued(ServerClose(p)) EXCEPT
            !.state = "CLOSED", !.assembler = NoTranscript, !.payloads = <<>>]

-----------------------------------------------------------------------------
(* AppMessage delivery.                                                    *)

\* AppMessageTransport.pump.  A send that throws is a failed delivery, which
\* closes the session that owns the entry.
Pump(p, x) ==
  IF p.inflight # NoEntry \/ p.queue = <<>>
    THEN p
  ELSE IF "sendAppMessage" \in x
    THEN SessionClose([p EXCEPT !.queue = Tail(@)])
  ELSE [p EXCEPT !.inflight = Head(p.queue), !.queue = Tail(@)]

\* WatchBridge.sendStatus and sendResult hand their payload to the transport.
Enqueue(p, m, x) ==
  Pump([p EXCEPT !.queue = Append(@, [owner |-> p.serial, msg |-> m])], x)

\* MUTANT: the completion is taken for the active session's whoever sent it.
Concerns_AnyOwner(p, e) == p.state # "CLOSED"

\* The bridge that owns the entry is the active session's and is not closed.
Concerns(p, e) == e.owner = p.serial /\ p.state # "CLOSED"

\* MUTANT: a message that was not delivered counts as delivered.
EndsSession_IgnoresFailure(e, succeeded) == e.msg.type = "FAILURE"

\* Delivery failed (onDeliveryFailure), or the terminal FAILURE is settled.
EndsSession(e, succeeded) == ~succeeded \/ e.msg.type = "FAILURE"

\* The `done` callback of an entry: only its own, open session reacts.
Delivered(p, e, succeeded, x) ==
  IF ~Concerns(p, e)
    THEN p
  ELSE IF EndsSession(e, succeeded)
    THEN SessionClose(p)
  ELSE IF e.msg.type = "SEND_STARTED"
    THEN p
  ELSE IF e.msg.index + 1 < Len(p.payloads)
    THEN Enqueue(p, p.payloads[e.msg.index + 2], x)
  ELSE SessionClose(p)

-----------------------------------------------------------------------------
(* Failing and completing a request.                                       *)

\* MUTANT: the server bridge is closed only with the session, once the watch
\* has been told.
SessionFail_ClosesServerLast(p, status, x) ==
  IF p.state \in {"CLOSED", "FORWARDING_TERMINAL"}
    THEN p
    ELSE Enqueue([p EXCEPT !.state = "FORWARDING_TERMINAL"],
                 Failure(p.id, status), x)

\* BridgeSession.fail.
SessionFail(p, status, x) ==
  IF p.state \in {"CLOSED", "FORWARDING_TERMINAL"}
    THEN p
    ELSE Enqueue([ServerClose(p) EXCEPT !.state = "FORWARDING_TERMINAL"],
                 Failure(p.id, status), x)

\* MUTANT: a timeout keeps its bridge name instead of a status code.
StatusForServerError_Untranslated ==
  [RESULT_TIMEOUT |-> "RESULT_TIMEOUT", PROTOCOL |-> "ERROR_PROTOCOL",
   SERVER |-> "ERROR_SERVER", SEND |-> "ERROR_TRANSFER",
   HANDOFF_TIMEOUT |-> "ERROR_TRANSFER"]

\* BridgeSession.statusForServerError.
StatusForServerError ==
  [RESULT_TIMEOUT |-> "ERROR_SERVER_RESULT_TIMEOUT",
   PROTOCOL |-> "ERROR_PROTOCOL",
   SERVER |-> "ERROR_SERVER",
   SEND |-> "ERROR_TRANSFER",
   HANDOFF_TIMEOUT |-> "ERROR_TRANSFER"]

\* WebSocketBridge.fail and the FAILURE event it raises.
ServerFail(p, error, x) ==
  IF p.server = "CLOSED"
    THEN p
    ELSE SessionFail(p, StatusForServerError[error], x)

\* The RESULT event: the server bridge closes and the chunks go out one by one.
ForwardResult(p, f, x) ==
  LET payloads == ResultChunks(p.id, f.success, f.response)
  IN  Enqueue([ServerClose(p) EXCEPT !.state = "FORWARDING_TERMINAL",
                                     !.payloads = payloads],
              payloads[1], x)

\* protocol.parseServerFrame.
FrameKind(f, r) ==
  IF f.id # r THEN "unrelated"
  ELSE IF f.kind = "result" /\ Len(f.response) > MaxResponse THEN "protocol_error"
  ELSE f.kind

\* WebSocketBridge.handleFrame: only an awaited result counts.
HandleFrame(p, f, x) ==
  LET kind == FrameKind(f, p.id)
  IN  IF p.server # "AWAITING_RESULT" \/ kind = "unrelated" THEN p
      ELSE IF kind = "result" THEN ForwardResult(p, f, x)
      ELSE IF kind = "server_error" THEN ServerFail(p, "SERVER", x)
      ELSE ServerFail(p, "PROTOCOL", x)

\* WebSocketBridge.trySend.  Nothing happens unless the socket is open; a
\* frame that arrives within send() waits until SEND_STARTED is enqueued.
TrySend(p, x, f) ==
  IF p.transcript = <<>> \/ p.socket # "open" \/ p.server = "AWAITING_RESULT"
    THEN p
  ELSE IF "send" \in x
    THEN ServerFail(p, "SEND", x)
  ELSE LET sent == [p EXCEPT
             !.server = "AWAITING_RESULT",
             !.state = "AWAITING_RESULT",
             !.timers = {"result"},
             !.requests = Append(@, [serial |-> p.serial, id |-> p.id,
                                     transcript |-> p.transcript])]
       IN  HandleFrame(Enqueue(sent, SendStarted(p.id), x), f, x)

-----------------------------------------------------------------------------
(* Messages from the watch.                                                *)

\* startSession: the previous session is closed, a socket is opened.
StartSession(p, r, x) ==
  LET fresh == [SessionClose(p) EXCEPT
        !.serial = @ + 1, !.id = r, !.state = "RECEIVING_TRANSCRIPT",
        !.server = "CONNECTING", !.socket = "connecting"]
  IN  IF "WebSocket" \in x
        THEN ServerFail([fresh EXCEPT !.socket = "none"], "SERVER", x)
        ELSE fresh

\* MUTANT: SEND_STARTED is announced whether or not the request was sent.
SetTranscript_AnnouncesEarly(p, t, x, f) ==
  Enqueue([p EXCEPT !.transcript = t, !.timers = {"handoff"}], SendStarted(p.id), x)

\* WebSocketBridge.setTranscript.  Its guard is for a second call, which the
\* session never makes.
SetTranscript(p, t, x, f) ==
  TrySend([p EXCEPT !.transcript = t, !.timers = {"handoff"}], x, f)

\* MUTANT: the byte count of the complete transcript is not compared.
ChunkFits_AnyLength(a, m) ==
  /\ a.count = 0 \/ (m.count = a.count /\ m.total = a.total)
  /\ m.index = a.next

\* TranscriptAssembler.add accepts the chunk.
ChunkFits(a, m) ==
  /\ a.count = 0 \/ (m.count = a.count /\ m.total = a.total)
  /\ m.index = a.next
  /\ m.index + 1 = m.count => Len(a.text) + Len(m.text) = m.total

\* BridgeSession.handleWatchMessage with a transcript chunk.
HandleChunk(p, m, x, f) ==
  LET a == p.assembler
      text == a.text \o m.text
  IN  IF p.state # "RECEIVING_TRANSCRIPT" \/ ~ChunkFits(a, m)
        THEN SessionFail(p, "ERROR_PROTOCOL", x)
      ELSE IF m.index + 1 < m.count
        THEN [p EXCEPT !.assembler = [text |-> text, count |-> m.count,
                                      total |-> m.total, next |-> a.next + 1]]
      ELSE SetTranscript([p EXCEPT !.state = "WAITING_TO_SEND"], text, x, f)

\* protocol.parseWatchMessage does not throw.
Parses(m) ==
  /\ m.type # "MALFORMED"
  /\ m.type = "TRANSCRIPT_CHUNK" =>
       m.count > 0 /\ m.total > 0 /\ m.index < m.count /\ m.text # <<>>

\* The 'appmessage' listener of index.js.
OnAppMessage(p, m, x, f) ==
  IF ~Parses(m)
    THEN IF m.id \in {NoId, p.id} THEN SessionFail(p, "ERROR_PROTOCOL", x) ELSE p
  ELSE IF m.type = "SESSION_BEGIN" THEN StartSession(p, m.id, x)
  ELSE IF m.id # p.id \/ p.state \in {"CLOSED", "FORWARDING_TERMINAL"} THEN p
  ELSE IF m.type = "SESSION_END" THEN SessionClose(p)
  ELSE HandleChunk(p, m, x, f)

Receive(m) ==
  /\ \E x \in SUBSET MayThrow, f \in PromptFrames \cup {NoFrame} :
       phone' = OnAppMessage(phone, m, x, f)
  /\ heard' = IF m.type = "SESSION_BEGIN" THEN <<>>
              ELSE IF m.type = "TRANSCRIPT_CHUNK" /\ m.id = phone.id
                      /\ phone.state \notin {"CLOSED", "FORWARDING_TERMINAL"}
                THEN Append(heard, m)
              ELSE heard

-----------------------------------------------------------------------------
(* Events of the socket, the timers and the AppMessage callbacks.          *)

\* The socket is open: readyState changes before onopen is called.
SocketOpens ==
  /\ phone.socket = "connecting"
  /\ phone' = [phone EXCEPT !.socket = "open"]
  /\ UNCHANGED heard

\* MUTANT: onopen does not take up a transcript that was waiting.
OnOpen_NoSend ==
  /\ phone.socket = "open" /\ phone.server = "CONNECTING"
  /\ phone' = [phone EXCEPT !.server = "READY"]
  /\ UNCHANGED heard

\* onopen.
OnOpen ==
  /\ phone.socket = "open" /\ phone.server = "CONNECTING"
  /\ \E x \in SUBSET MayThrow, f \in PromptFrames \cup {NoFrame} :
       phone' = TrySend([phone EXCEPT !.server = "READY"], x, f)
  /\ UNCHANGED heard

\* The closing handshake has begun; onclose has not been called yet.
SocketCloses ==
  /\ phone.socket \in {"connecting", "open"}
  /\ phone' = [phone EXCEPT !.socket = "closing"]
  /\ UNCHANGED heard

\* onerror or onclose.
OnErrorOrClose ==
  /\ phone.socket # "none"
  /\ \E x \in SUBSET MayThrow : phone' = ServerFail(phone, "SERVER", x)
  /\ UNCHANGED heard

\* onmessage.
OnFrame(f) ==
  /\ phone.socket # "none"
  /\ \E x \in SUBSET MayThrow : phone' = HandleFrame(phone, f, x)
  /\ UNCHANGED heard

HandoffTimeout ==
  /\ "handoff" \in phone.timers
  /\ \E x \in SUBSET MayThrow : phone' = ServerFail(phone, "HANDOFF_TIMEOUT", x)
  /\ UNCHANGED heard

ResultTimeout ==
  /\ "result" \in phone.timers
  /\ \E x \in SUBSET MayThrow : phone' = ServerFail(phone, "RESULT_TIMEOUT", x)
  /\ UNCHANGED heard

\* The success or failure callback of Pebble.sendAppMessage.
AppMessageDone(succeeded) ==
  /\ phone.inflight # NoEntry
  /\ \E x \in SUBSET MayThrow :
       phone' = Pump(Delivered([phone EXCEPT !.inflight = NoEntry],
                               phone.inflight, succeeded, x), x)
  /\ UNCHANGED heard

Next ==
  \/ \E m \in WatchInbox :
       /\ m.type = "SESSION_BEGIN" => phone.serial < MaxSessions
       /\ Receive(m)
  \/ SocketOpens \/ OnOpen \/ SocketCloses \/ OnErrorOrClose
  \/ \E f \in Frames : OnFrame(f)
  \/ HandoffTimeout \/ ResultTimeout
  \/ \E ok \in BOOLEAN : AppMessageDone(ok)

Spec == Init /\ [][Next]_phoneVars

\* Timers that are set fire.
Fairness == WF_phoneVars(HandoffTimeout) /\ WF_phoneVars(ResultTimeout)

FairSpec == Spec /\ Fairness

\* What PebbleKit JS promises beyond that: sendAppMessage calls back.
CallsBack == WF_phoneVars(\E ok \in BOOLEAN : AppMessageDone(ok))

-----------------------------------------------------------------------------
(* Invariants.                                                             *)

Entries == [owner : Nat \ {0}, msg : PhoneMessages]

Phones ==
  [serial : Nat, id : ReqIds \cup {NoId}, state : SessionStates,
   assembler : [text : Texts, count : Nat, total : Nat, next : Nat],
   server : ServerBridgeStates, socket : SocketStates,
   timers : SUBSET {"handoff", "result"}, transcript : Texts,
   payloads : Seq(PhoneMessages), queue : Seq(Entries),
   inflight : Entries \cup {NoEntry},
   requests : Seq([serial : Nat \ {0}, id : ReqIds, transcript : Texts])]

\* Every field has its type.
TypeOK == phone \in Phones /\ heard \in Seq(WatchMessages)

\* The session, the WebSocket bridge, its timers and its socket never
\* disagree: each phase has its own timer and no other, and a session that
\* is forwarding its outcome or closed holds neither socket nor timer.
BridgesAgree ==
  LET waiting == phone.state \in {"RECEIVING_TRANSCRIPT", "WAITING_TO_SEND"}
  IN  /\ waiting => phone.server \in {"CONNECTING", "READY"} /\ phone.socket # "none"
      /\ phone.state = "AWAITING_RESULT" =>
           phone.server = "AWAITING_RESULT" /\ phone.socket \in {"open", "closing"}
      /\ phone.state \in {"FORWARDING_TERMINAL", "CLOSED"} =>
           phone.server = "CLOSED" /\ phone.socket = "none"
      /\ phone.timers = CASE phone.state = "WAITING_TO_SEND" -> {"handoff"}
                          [] phone.state = "AWAITING_RESULT" -> {"result"}
                          [] OTHER -> {}
      /\ phone.transcript # <<>> <=> phone.state \in {"WAITING_TO_SEND", "AWAITING_RESULT"}

\* A complete transcript is never left unsent on a socket that has reported
\* itself open: if the bridge still waits, the socket has since begun to close.
NoTranscriptLeftBehind ==
  phone.state = "WAITING_TO_SEND" /\ phone.server = "READY" => phone.socket = "closing"

\* The active session's messages that the watch has not acknowledged.
Outgoing ==
  (IF phone.state # "CLOSED" /\ phone.inflight.owner = phone.serial
     THEN <<phone.inflight>> ELSE <<>>) \o phone.queue

\* Nothing is queued for a session that is no longer active, and the transport
\* never idles over a queue.  What the watch is told is well ordered: at most
\* SEND_STARTED and then one terminal message wait, the terminal one exactly
\* while the session forwards its outcome.
OutgoingWellFormed ==
  LET types == {"FAILURE", "SERVER_RESULT_CHUNK"}
      open == phone.state # "CLOSED"
  IN  /\ phone.inflight = NoEntry => phone.queue = <<>>
      /\ \A i \in DOMAIN phone.queue : phone.queue[i].owner = phone.serial /\ open
      /\ open => /\ Len(Outgoing) <= 2
                 /\ Len(Outgoing) = 2 => Outgoing[1].msg.type = "SEND_STARTED"
                 /\ phone.state = "FORWARDING_TERMINAL" <=>
                      Outgoing # <<>> /\ Last(Outgoing).msg.type \in types

-----------------------------------------------------------------------------
(* Action properties.                                                      *)

\* `text` is what the chunks carry, one after the other: it can be cut so that
\* chunk i is the part up to ends[i].
Concatenates(text, chunks) ==
  \E ends \in [0 .. Len(chunks) -> 0 .. Len(text)] :
    /\ ends[0] = 0 /\ ends[Len(chunks)] = Len(text)
    /\ \A i \in 1 .. Len(chunks) :
         /\ ends[i - 1] <= ends[i]
         /\ chunks[i].text = SubSeq(text, ends[i - 1] + 1, ends[i])

\* A request is sent only for the complete transcript: the chunks received
\* since SESSION_BEGIN are all of those announced, in order, of the announced
\* length, the frame carries exactly their text, and it is the session's
\* first frame.
SendsWholeTranscript ==
  phone'.requests # phone.requests =>
    LET r == Last(phone'.requests)
    IN  /\ Front(phone'.requests) = phone.requests
        /\ r.serial = phone'.serial /\ r.id = phone'.id
        /\ heard' # <<>>
        /\ \A i \in DOMAIN heard' :
             /\ heard'[i].id = r.id /\ heard'[i].index = i - 1
             /\ heard'[i].count = Len(heard') /\ heard'[i].total = Len(r.transcript)
        /\ Concatenates(r.transcript, heard')
        /\ \A i \in DOMAIN phone.requests : phone.requests[i].serial # r.serial

OneWholeRequest == [][SendsWholeTranscript]_phoneVars

\* The completion of a message sent for an earlier session never touches the
\* session that replaced it; it only lets the transport send the next entry.
LateCompletionHarmless ==
  [][ \/ phone.inflight.owner \in {0, phone.serial}
      \/ phone'.inflight = phone.inflight
      \/ phone'.inflight = NoEntry /\ phone.queue # <<>>   \* that send threw
      \/ phone' = [phone EXCEPT !.inflight = phone'.inflight,
                                !.queue = phone'.queue] ]_phoneVars

-----------------------------------------------------------------------------
(* Liveness.                                                               *)

\* Once the transcript is complete the session cannot linger: server, socket
\* and watch may all fall silent and it is closed all the same, as long as
\* sendAppMessage calls back.  Even a transport that is stuck for good, which
\* no later session can use, costs no connection, because fail() closes the
\* WebSocket bridge before it tries to tell the watch.
SessionsEnd ==
  \A s \in 1 .. MaxSessions :
    /\ phone.serial = s /\ phone.state \in {"WAITING_TO_SEND", "AWAITING_RESULT"}
         ~> phone.serial # s \/ phone.server = "CLOSED"
    /\ CallsBack =>
         (phone.serial = s /\ phone.state \notin {"RECEIVING_TRANSCRIPT", "CLOSED"}
            ~> phone.serial # s \/ phone.state = "CLOSED")

=============================================================================
