-------------------------------- MODULE Watch --------------------------------
(***************************************************************************)
(* The watchapp, src/c/main.c.  Its event loop runs one callback at a      *)
(* time, so every callback is one action, together with every call it      *)
(* makes.  AppMessage, the timers, dictation and the message dialog are    *)
(* the callbacks' environment; message_dialog.c appears as the `dialog`    *)
(* phase that decides when the terminal status counts as visible.          *)
(*                                                                         *)
(* Left out: wording and drawing, the `error` fields of both bridges       *)
(* (each is turned into terminalStatus by the call that writes it and not  *)
(* read again) and `shutting_down` (set only after the event loop ended).  *)
(***************************************************************************)
EXTENDS Protocol

CONSTANTS
  MaxResponse,   \* SERVER_RESPONSE_MAX_BYTES, in pieces
  MayFail,       \* allocations and registrations the system may refuse
  SendFailures,  \* errors app_message_outbox_begin/send may report
  MayBeKilled,   \* whether the user or the system may end the app any time
  Transcripts,   \* what dictation may return
  Inbox          \* the messages that may arrive

Allocations ==
  {"window", "appmessage", "dictation", "transcript", "response", "animation",
   "result_view", "send_start", "request", "result_chunk", "exit"}

ASSUME MaxResponseAssumption == MaxResponse \in Nat
ASSUME MayFailAssumption == MayFail \subseteq Allocations
ASSUME SendFailuresAssumption == SendFailures \subseteq {"CONNECTIVITY", "TRANSFER"}
ASSUME MayBeKilledAssumption == MayBeKilled \in BOOLEAN
ASSUME TranscriptsAssumption == Transcripts \subseteq Texts \ {<<>>}

\* "BAD_HEADER" has no usable version or type, "MALFORMED" an unknown type or
\* an unusable field, "NO_REQUEST_ID" no identifier.
InboxMessages ==
  PhoneMessages
    \cup [type : {"BAD_HEADER", "MALFORMED"}, id : ReqIds]
    \cup [type : {"NO_REQUEST_ID"}, id : {NoId}]

ASSUME InboxAssumption == Inbox \subseteq InboxMessages

VARIABLES
  state,              \* s_app.state; "OFF" while the app is not running
  reqId,              \* s_app.request_id
  used,               \* identifiers generated so far
  watchPhone,         \* s_app.bridge.watch_phone.state
  phoneServer,        \* s_app.bridge.phone_server.state
  timers,             \* the AppTimer handles that are not NULL
  outbox,             \* the message outbox_message stands for, or NoMsg
  appMessageReady,
  beginDelivered,
  sessionEndPending,
  transcript,         \* s_app.transcript, <<>> when freed
  nextChunk,          \* s_app.next_chunk_index
  response,           \* server_response and its metadata
  terminalStatus,
  dictationActive,
  dialog,             \* what message_dialog.c has on the screen
  vibration           \* the result vibration played in this run

appVars      == <<state, reqId, used, terminalStatus, dictationActive, vibration>>
bridgeVars   == <<watchPhone, phoneServer, appMessageReady, beginDelivered>>
deliveryVars == <<outbox, sessionEndPending, transcript, nextChunk, response>>
uiVars       == <<timers, dialog>>
watchVars    == <<appVars, bridgeVars, deliveryVars, uiVars>>

AppStates == {"OFF", "DICTATING", "BRIDGING", "DISPLAYING_RESULT", "ERROR"}

WatchPhoneStates ==
  {"IDLE", "SESSION_BEGIN_PENDING", "READY", "TRANSFERRING",
   "AWAITING_SEND_START", "AWAITING_RESULT", "RECEIVING_RESULT", "COMPLETE",
   "FAILED"}

PhoneServerStates == {"IDLE", "PREPARING", "AWAITING_RESULT", "COMPLETE", "FAILED"}

Timers == {"send_start", "request", "result_chunk", "exit"}

\* "closed": the window stack was popped, the event loop is about to return.
DialogPhases ==
  {"progress", "error_transition", "error_visible", "result", "closed"}

NoResponse == [text |-> <<>>, count |-> 0, next |-> 0, total |-> 0, success |-> FALSE]

Responses ==
  [text : Texts, count : Nat, next : Nat, total : Nat, success : BOOLEAN]

\* MUTANT: one error keeps its bridge name instead of a status code.
WatchPhoneStatus_Untranslated ==
  [CONNECTIVITY |-> "CONNECTIVITY", PROTOCOL |-> "ERROR_PROTOCOL",
   TRANSFER |-> "ERROR_TRANSFER",
   SEND_START_TIMEOUT |-> "ERROR_TRANSCRIPT_DELIVERY_TIMEOUT",
   RESULT_TRANSFER_TIMEOUT |-> "ERROR_RESULT_TRANSFER_TIMEOUT"]

\* prv_watch_phone_status.
WatchPhoneStatus ==
  [CONNECTIVITY |-> "ERROR_PHONE_CONNECTIVITY",
   PROTOCOL |-> "ERROR_PROTOCOL",
   TRANSFER |-> "ERROR_TRANSFER",
   SEND_START_TIMEOUT |-> "ERROR_TRANSCRIPT_DELIVERY_TIMEOUT",
   RESULT_TRANSFER_TIMEOUT |-> "ERROR_RESULT_TRANSFER_TIMEOUT"]

\* prv_phone_server_status.
PhoneServerStatus ==
  [PROTOCOL |-> "ERROR_PROTOCOL",
   SERVER |-> "ERROR_SERVER",
   RESULT_TIMEOUT |-> "ERROR_SERVER_RESULT_TIMEOUT",
   REQUEST_TIMEOUT |-> "ERROR_WS_REQUEST_TIMEOUT"]

Running == state # "OFF"

\* MUTANT: a displayed result does not stop later failures.
Settled_NotOnResult == state = "ERROR"

\* prv_fail and prv_inbox_received return at once in these states.
Settled == state \in {"ERROR", "DISPLAYING_RESULT"}

Init ==
  /\ state = "OFF"
  /\ reqId = NoId
  /\ used = {}
  /\ watchPhone = "IDLE"
  /\ phoneServer = "IDLE"
  /\ timers = {}
  /\ outbox = NoMsg
  /\ appMessageReady = FALSE
  /\ beginDelivered = FALSE
  /\ sessionEndPending = FALSE
  /\ transcript = <<>>
  /\ nextChunk = 0
  /\ response = NoResponse
  /\ terminalStatus = "NORMAL"
  /\ dictationActive = FALSE
  /\ dialog = "closed"
  /\ vibration = "none"

-----------------------------------------------------------------------------
(* Entering the terminal error state.                                      *)

\* MUTANT: no fallback when the exit timer cannot be registered.
TerminalStatusVisible_NoFallback ==
  \/ timers' = {"exit"} /\ dialog' = "error_visible"
  \/ "exit" \in MayFail /\ timers' = {} /\ dialog' = "error_visible"

\* prv_terminal_status_visible: arm the exit timer, or close at once.
TerminalStatusVisible ==
  \/ timers' = {"exit"} /\ dialog' = "error_visible"
  \/ "exit" \in MayFail /\ timers' = {} /\ dialog' = "closed"

\* MUTANT: prv_fail does not cancel the bridge timers.
ShowTerminalStatus_KeepsTimers == timers' = timers /\ dialog' = "error_transition"

\* message_dialog_show_status of the terminal status: it counts as visible
\* when the transition ends, or now if no animation can be scheduled.
ShowTerminalStatus ==
  \/ timers' = {} /\ dialog' = "error_transition"
  \/ "animation" \in MayFail /\ TerminalStatusVisible

\* prv_fail up to showing the status, with the identifier, AppMessage
\* readiness and outbox content it finds.
EnterError(id, ready, held, status) ==
  /\ state' = "ERROR"
  /\ terminalStatus' = status
  /\ dictationActive' = FALSE
  /\ transcript' = <<>>
  /\ nextChunk' = 0
  /\ response' = NoResponse
  /\ IF ready /\ held = NoMsg
       THEN /\ sessionEndPending' = FALSE
            /\ \/ outbox' = SessionEnd(id, status)
               \/ SendFailures # {} /\ outbox' = NoMsg
       ELSE /\ sessionEndPending' = TRUE
            /\ outbox' = held

\* prv_fail in a running app; `held` is what the outbox holds and `armed`
\* the timers left when it is called.
Fail(held, armed, status) ==
  IF Settled
    THEN /\ outbox' = held
         /\ timers' = armed
         /\ UNCHANGED <<state, terminalStatus, dictationActive, transcript,
                        nextChunk, response, sessionEndPending, dialog>>
    ELSE /\ EnterError(reqId, appMessageReady, held, status)
         /\ ShowTerminalStatus

WatchPhoneFail(held, armed, error) ==
  /\ watchPhone' = "FAILED"
  /\ Fail(held, armed, WatchPhoneStatus[error])

PhoneServerFail(armed, error) ==
  /\ phoneServer' = "FAILED"
  /\ Fail(outbox, armed, PhoneServerStatus[error])

-----------------------------------------------------------------------------
(* Launch and dictation.                                                   *)

\* prv_init when neither the window nor the dialog can be created: main()
\* returns at once.
LaunchAborted(r) ==
  /\ state = "OFF" /\ r \in ReqIds \ used
  /\ "window" \in MayFail
  /\ used' = used \cup {r}
  /\ UNCHANGED <<state, reqId, terminalStatus, dictationActive, vibration,
                 bridgeVars, deliveryVars, uiVars>>

\* prv_init ends in prv_fail.
LaunchFails(r, ready, bridged, held, status) ==
  /\ appMessageReady' = ready
  /\ watchPhone' = IF bridged THEN "SESSION_BEGIN_PENDING" ELSE "IDLE"
  /\ phoneServer' = IF bridged THEN "PREPARING" ELSE "IDLE"
  /\ EnterError(r, ready, held, status)
  /\ ShowTerminalStatus

\* prv_init with a request identifier that was never used before.
Launch(r) ==
  /\ state = "OFF" /\ r \in ReqIds \ used
  /\ reqId' = r
  /\ used' = used \cup {r}
  /\ beginDelivered' = FALSE
  /\ vibration' = "none"
  /\ \/ /\ "appmessage" \in MayFail          \* app_message_open
        /\ \E e \in {"CONNECTIVITY", "TRANSFER"} :
             LaunchFails(r, FALSE, FALSE, NoMsg, WatchPhoneStatus[e])
     \/ /\ "dictation" \in MayFail           \* dictation_session_create
        /\ LaunchFails(r, TRUE, FALSE, NoMsg, "ERROR_DICTATION")
     \/ \E e \in SendFailures :              \* SESSION_BEGIN refused
             LaunchFails(r, TRUE, TRUE, NoMsg, WatchPhoneStatus[e])
     \/ /\ "dictation" \in MayFail           \* dictation_session_start
        /\ LaunchFails(r, TRUE, TRUE, SessionBegin(r), "ERROR_DICTATION")
     \/ /\ state' = "DICTATING"
        /\ appMessageReady' = TRUE
        /\ watchPhone' = "SESSION_BEGIN_PENDING"
        /\ phoneServer' = "PREPARING"
        /\ outbox' = SessionBegin(r)
        /\ dictationActive' = TRUE
        /\ terminalStatus' = "NORMAL"
        /\ sessionEndPending' = FALSE
        /\ transcript' = <<>>
        /\ nextChunk' = 0
        /\ response' = NoResponse
        /\ timers' = {}
        /\ dialog' = "progress"

\* prv_dictation_status with anything but a usable transcription; the last
\* status stands for no memory for the copy or for its division into chunks.
DictationFails(status) ==
  /\ state = "DICTATING" /\ dictationActive
  /\ \/ status \in {"CANCELLED", "ERROR_NO_SPEECH", "ERROR_PHONE_CONNECTIVITY",
                    "ERROR_DICTATION"}
     \/ status = "ERROR_TRANSFER" /\ "transcript" \in MayFail
  /\ Fail(outbox, timers, status)
  /\ UNCHANGED <<reqId, used, vibration, bridgeVars>>

\* prv_send_next_chunk once its guard holds: chunk i of t is in the outbox,
\* or the outbox refused it and the request fails.
PostChunk(t, i) ==
  \/ /\ outbox' = TranscriptChunk(reqId, i, t)
     /\ transcript' = t
     /\ nextChunk' = i
     /\ state' = "BRIDGING"
     /\ watchPhone' = "TRANSFERRING"
     /\ dictationActive' = FALSE
     /\ dialog' = "progress"
     /\ UNCHANGED <<timers, response, sessionEndPending, terminalStatus>>
  \/ \E e \in SendFailures : WatchPhoneFail(NoMsg, timers, e)

\* MUTANT: the first chunk does not wait for the delivery of SESSION_BEGIN.
FirstChunkMayGo_NoWait == TRUE

\* The guard of prv_send_next_chunk when dictation has just ended.
FirstChunkMayGo == beginDelivered /\ outbox = NoMsg

\* prv_dictation_status with a transcription: the first chunk leaves now
\* only if SESSION_BEGIN was delivered meanwhile.
DictationSucceeds(t) ==
  /\ state = "DICTATING" /\ dictationActive
  /\ IF FirstChunkMayGo
       THEN PostChunk(t, 0)
       ELSE /\ state' = "BRIDGING"
            /\ watchPhone' = "TRANSFERRING"
            /\ dictationActive' = FALSE
            /\ transcript' = t
            /\ nextChunk' = 0
            /\ dialog' = "progress"
            /\ UNCHANGED <<timers, response, outbox, sessionEndPending,
                           terminalStatus>>
  /\ UNCHANGED <<reqId, used, vibration, phoneServer, appMessageReady,
                 beginDelivered>>

-----------------------------------------------------------------------------
(* AppMessage outbox callbacks.                                            *)

\* MUTANT: the callback of an earlier message forgets the SESSION_END owed.
TrySendSessionEnd_Forgets ==
  /\ outbox' = NoMsg
  /\ UNCHANGED <<sessionEndPending, transcript, nextChunk, response>>

\* prv_try_send_session_end in state ERROR, the outbox being free.
TrySendSessionEnd ==
  /\ IF sessionEndPending /\ appMessageReady
       THEN /\ sessionEndPending' = FALSE
            /\ \/ outbox' = SessionEnd(reqId, terminalStatus)
               \/ SendFailures # {} /\ outbox' = NoMsg
       ELSE outbox' = NoMsg /\ UNCHANGED sessionEndPending
  /\ UNCHANGED <<transcript, nextChunk, response>>

\* MUTANT: a transcript that waited for SESSION_BEGIN is not taken up.
BeginSent_ForgetsTranscript ==
  /\ outbox.type = "SESSION_BEGIN" /\ state # "ERROR"
  /\ beginDelivered' = TRUE
  /\ outbox' = NoMsg
  /\ watchPhone' = IF watchPhone = "SESSION_BEGIN_PENDING" THEN "READY" ELSE watchPhone
  /\ UNCHANGED <<state, terminalStatus, dictationActive, transcript, nextChunk,
                 response, sessionEndPending, uiVars>>

\* SESSION_BEGIN was delivered: a transcript that is already there may go.
BeginSent ==
  /\ outbox.type = "SESSION_BEGIN" /\ state # "ERROR"
  /\ beginDelivered' = TRUE
  /\ IF state = "BRIDGING" /\ watchPhone = "TRANSFERRING"
       THEN PostChunk(transcript, nextChunk)
       ELSE /\ outbox' = NoMsg
            /\ watchPhone' = IF watchPhone = "SESSION_BEGIN_PENDING"
                               THEN "READY" ELSE watchPhone
            /\ UNCHANGED <<state, terminalStatus, dictationActive, transcript,
                           nextChunk, response, sessionEndPending, uiVars>>

\* The last chunk was delivered: wait for SEND_STARTED under a watchdog.
AwaitSendStart ==
  \/ /\ watchPhone' = "AWAITING_SEND_START"
     /\ timers' = timers \cup {"send_start"}
     /\ outbox' = NoMsg
     /\ transcript' = <<>>
     /\ nextChunk' = 0
     /\ UNCHANGED <<state, terminalStatus, dictationActive, response,
                    sessionEndPending, dialog>>
  \/ "send_start" \in MayFail /\ WatchPhoneFail(NoMsg, timers, "TRANSFER")

\* A transcript chunk was delivered.
ChunkSent ==
  /\ outbox.type = "TRANSCRIPT_CHUNK" /\ state # "ERROR"
  /\ IF state # "BRIDGING" \/ watchPhone # "TRANSFERRING"
       THEN WatchPhoneFail(NoMsg, timers, "PROTOCOL")
       ELSE IF nextChunk + 1 < Len(transcript)
              THEN PostChunk(transcript, nextChunk + 1)
              ELSE AwaitSendStart
  /\ UNCHANGED beginDelivered

\* prv_outbox_sent.
OutboxSent ==
  /\ Running /\ outbox # NoMsg
  /\ \/ /\ state = "ERROR"
        /\ TrySendSessionEnd
        /\ UNCHANGED <<state, terminalStatus, dictationActive, watchPhone,
                       beginDelivered, uiVars>>
     \/ BeginSent
     \/ ChunkSent
  /\ UNCHANGED <<reqId, used, vibration, phoneServer, appMessageReady>>

\* prv_outbox_failed.
OutboxFailed ==
  /\ Running /\ outbox # NoMsg
  /\ \/ /\ state = "ERROR"
        /\ IF outbox.type # "SESSION_END"
             THEN TrySendSessionEnd
             ELSE /\ outbox' = NoMsg
                  /\ UNCHANGED <<sessionEndPending, transcript, nextChunk, response>>
        /\ UNCHANGED <<state, terminalStatus, dictationActive, watchPhone, uiVars>>
     \/ /\ state # "ERROR"
        /\ \E e \in {"CONNECTIVITY", "TRANSFER"} : WatchPhoneFail(NoMsg, timers, e)
  /\ UNCHANGED <<reqId, used, vibration, phoneServer, appMessageReady,
                 beginDelivered>>

-----------------------------------------------------------------------------
(* AppMessage inbox callbacks.                                             *)

\* MESSAGE_TYPE_SEND_STARTED.  When the request timer cannot be registered
\* the handler calls prv_watch_phone_fail but does not return: prv_set_status
\* then replaces the status and cancels the transition with its completion.
SendStartedReceived ==
  IF \/ state # "BRIDGING"
     \/ watchPhone # "AWAITING_SEND_START"
     \/ phoneServer # "PREPARING"
    THEN /\ WatchPhoneFail(outbox, timers, "PROTOCOL")
         /\ UNCHANGED phoneServer
    ELSE /\ phoneServer' = "AWAITING_RESULT"
         /\ \/ /\ watchPhone' = "AWAITING_RESULT"
               /\ timers' = (timers \ {"send_start"}) \cup {"request"}
               /\ dialog' = "progress"
               /\ UNCHANGED <<state, terminalStatus, dictationActive, deliveryVars>>
            \/ /\ "request" \in MayFail
               /\ watchPhone' = "FAILED"
               /\ EnterError(reqId, appMessageReady, outbox, "ERROR_TRANSFER")
               /\ \/ timers' = {} /\ dialog' = "progress"
                  \/ /\ "animation" \in MayFail
                     /\ \/ timers' = {"exit"} /\ dialog' = "progress"
                        \/ "exit" \in MayFail /\ timers' = {} /\ dialog' = "closed"

ReceivingResult ==
  state = "BRIDGING" /\ watchPhone \in {"AWAITING_RESULT", "RECEIVING_RESULT"}

\* The checks that do not depend on earlier chunks.
ValidResultChunk(m) ==
  m.count > 0 /\ m.index < m.count /\ m.total <= MaxResponse

\* This chunk starts the response: it fixes the metadata.
OpensResponse(m) ==
  /\ ReceivingResult /\ ValidResultChunk(m)
  /\ watchPhone = "AWAITING_RESULT" /\ m.index = 0

\* The response the chunk belongs to.
ResponseFor(m) ==
  IF OpensResponse(m)
    THEN [NoResponse EXCEPT !.count = m.count, !.total = m.total,
                            !.success = m.success]
    ELSE response

\* MUTANT: the last chunk is not held to the announced length.
Continues_AnyLength(m) ==
  LET r == ResponseFor(m)
  IN  /\ ReceivingResult /\ ValidResultChunk(m)
      /\ watchPhone = "AWAITING_RESULT" => m.index = 0
      /\ m.count = r.count /\ m.total = r.total /\ m.success = r.success
      /\ m.index = r.next
      /\ Len(r.text) + Len(m.text) <= r.total

\* The chunk continues its response, neither overflowing nor ending short.
Continues(m) ==
  LET r == ResponseFor(m)
      bytes == Len(r.text) + Len(m.text)
  IN  /\ ReceivingResult /\ ValidResultChunk(m)
      /\ watchPhone = "AWAITING_RESULT" => m.index = 0
      /\ m.count = r.count /\ m.total = r.total /\ m.success = r.success
      /\ m.index = r.next
      /\ IF r.next + 1 = r.count THEN bytes = r.total ELSE bytes < r.total

Extended(m) ==
  LET r == ResponseFor(m)
  IN  [r EXCEPT !.text = @ \o m.text, !.next = @ + 1]

\* MUTANT: the phone/server phase ends with the last chunk, not the first.
PhoneServerAfter_LastChunk(m) ==
  IF Continues(m) /\ m.index + 1 = m.count THEN "COMPLETE" ELSE phoneServer

\* The first chunk proves that the phone has the whole result.
PhoneServerAfter(m) == IF OpensResponse(m) THEN "COMPLETE" ELSE phoneServer

\* prv_receive_server_result_chunk and the handling of its verdict.  Every
\* chunk that opens a response ends the phone/server phase and its timer.
ResultChunkReceived(m) ==
  LET r == Extended(m)
      armed == timers \ (IF OpensResponse(m) THEN {"request"} ELSE {})
      complete == r.next = r.count
  IN  /\ phoneServer' = PhoneServerAfter(m)
      /\ vibration' = IF ~Continues(m) \/ ~complete THEN vibration
                      ELSE IF r.success THEN "success" ELSE "failure"
      /\ \/ /\ ~Continues(m)
            /\ WatchPhoneFail(outbox, armed, "PROTOCOL")
         \/ /\ Continues(m) /\ ~complete
            /\ watchPhone' = "RECEIVING_RESULT"
            /\ response' = r
            /\ timers' = armed \cup {"result_chunk"}
            /\ UNCHANGED <<state, terminalStatus, dictationActive, outbox,
                           sessionEndPending, transcript, nextChunk, dialog>>
         \/ /\ Continues(m) /\ complete           \* prv_show_server_result
            /\ watchPhone' = "COMPLETE"
            /\ response' = r
            /\ state' = "DISPLAYING_RESULT"
            /\ timers' = (armed \ {"result_chunk"}) \cup {"exit"}
            /\ dialog' = "result"
            /\ UNCHANGED <<terminalStatus, dictationActive, outbox,
                           sessionEndPending, transcript, nextChunk>>
         \/ /\ Continues(m)
            /\ IF complete THEN {"result_view", "exit"} \cap MayFail # {}
                           ELSE "result_chunk" \in MayFail
            /\ WatchPhoneFail(outbox, armed, "TRANSFER")

\* malloc for the first chunk of a response fails.
NoMemoryForResponse(m) ==
  /\ "response" \in MayFail /\ OpensResponse(m)
  /\ WatchPhoneFail(outbox, timers, "TRANSFER")
  /\ UNCHANGED <<phoneServer, vibration>>

\* MESSAGE_TYPE_FAILURE: the error belongs to the bridge the status names.
FailureReceived(s) ==
  IF s = "ERROR_SERVER"
    THEN PhoneServerFail(timers, "SERVER") /\ UNCHANGED watchPhone
  ELSE IF s = "ERROR_SERVER_RESULT_TIMEOUT"
    THEN PhoneServerFail(timers, "RESULT_TIMEOUT") /\ UNCHANGED watchPhone
  ELSE IF s = "ERROR_PROTOCOL" /\ phoneServer = "AWAITING_RESULT"
    THEN PhoneServerFail(timers, "PROTOCOL") /\ UNCHANGED watchPhone
  ELSE /\ WatchPhoneFail(outbox, timers,
            CASE s = "ERROR_PHONE_CONNECTIVITY" -> "CONNECTIVITY"
              [] s = "ERROR_TRANSFER" -> "TRANSFER"
              [] OTHER -> "PROTOCOL")
       /\ UNCHANGED phoneServer

\* MUTANT: the request identifier is not compared.
ForThisRequest_Unchecked(m) == TRUE

\* prv_request_id_matches; a message without identifier is not ignored.
ForThisRequest(m) == m.id \in {NoId, reqId}

\* prv_inbox_received.
InboxReceived(m) ==
  /\ Running
  /\ IF Settled \/ ~ForThisRequest(m)
       THEN UNCHANGED watchVars
       ELSE /\ \/ /\ m.id = NoId \/ m.type = "BAD_HEADER"
                  /\ Fail(outbox, timers, "ERROR_PROTOCOL")
                  /\ UNCHANGED <<watchPhone, phoneServer, vibration>>
               \/ /\ m.type = "MALFORMED"
                  /\ WatchPhoneFail(outbox, timers, "PROTOCOL")
                  /\ UNCHANGED <<phoneServer, vibration>>
               \/ /\ m.type = "SEND_STARTED"
                  /\ SendStartedReceived
                  /\ UNCHANGED vibration
               \/ /\ m.type = "FAILURE"
                  /\ FailureReceived(m.status)
                  /\ UNCHANGED vibration
               \/ /\ m.type = "SERVER_RESULT_CHUNK"
                  /\ ResultChunkReceived(m) \/ NoMemoryForResponse(m)
            /\ UNCHANGED <<reqId, used, appMessageReady, beginDelivered>>

\* prv_inbox_dropped.
InboxDropped ==
  /\ Running
  /\ WatchPhoneFail(outbox, timers, "TRANSFER")
  /\ UNCHANGED <<reqId, used, vibration, phoneServer, appMessageReady,
                 beginDelivered>>

-----------------------------------------------------------------------------
(* Timers, buttons and the end of the app.                                 *)

\* prv_transcript_delivery_timeout.
TranscriptDeliveryTimeout ==
  /\ "send_start" \in timers
  /\ WatchPhoneFail(outbox, timers \ {"send_start"}, "SEND_START_TIMEOUT")
  /\ UNCHANGED <<reqId, used, vibration, phoneServer, appMessageReady,
                 beginDelivered>>

\* prv_ws_request_timeout.
WsRequestTimeout ==
  /\ "request" \in timers
  /\ PhoneServerFail(timers \ {"request"}, "REQUEST_TIMEOUT")
  /\ UNCHANGED <<reqId, used, vibration, watchPhone, appMessageReady,
                 beginDelivered>>

\* prv_result_chunk_timeout.
ResultChunkTimeout ==
  /\ "result_chunk" \in timers
  /\ WatchPhoneFail(outbox, timers \ {"result_chunk"}, "RESULT_TRANSFER_TIMEOUT")
  /\ UNCHANGED <<reqId, used, vibration, phoneServer, appMessageReady,
                 beginDelivered>>

\* The transition of the terminal status ends: its completion runs.
TransitionComplete ==
  /\ dialog = "error_transition"
  /\ TerminalStatusVisible
  /\ UNCHANGED <<appVars, bridgeVars, deliveryVars>>

\* prv_exit_after_error: the error or the untouched result was shown long
\* enough.
ExitTimeout ==
  /\ "exit" \in timers
  /\ timers' = timers \ {"exit"}
  /\ dialog' = "closed"
  /\ UNCHANGED <<appVars, bridgeVars, deliveryVars>>

\* prv_back_click_handler.
BackClick ==
  /\ Running /\ ~Settled
  /\ Fail(outbox, timers, "CANCELLED")
  /\ UNCHANGED <<reqId, used, vibration, bridgeVars>>

\* prv_result_button_down_handler: any button keeps the result on screen.
ResultButtonDown ==
  /\ state = "DISPLAYING_RESULT" /\ dialog = "result"
  /\ timers' = timers \ {"exit"}
  /\ UNCHANGED <<appVars, bridgeVars, deliveryVars, dialog>>

\* prv_result_back_click_handler.
ResultBackClick ==
  /\ state = "DISPLAYING_RESULT" /\ dialog = "result"
  /\ timers' = timers \ {"exit"}
  /\ dialog' = "closed"
  /\ UNCHANGED <<appVars, bridgeVars, deliveryVars>>

\* app_event_loop returned: prv_deinit, and the process ends.
Deinit ==
  /\ Running
  /\ dialog = "closed" \/ MayBeKilled
  /\ state' = "OFF"
  /\ timers' = {}
  /\ dialog' = "closed"
  /\ dictationActive' = FALSE
  /\ transcript' = <<>>
  /\ nextChunk' = 0
  /\ response' = NoResponse
  /\ outbox' = NoMsg
  /\ UNCHANGED <<reqId, used, terminalStatus, vibration, bridgeVars,
                 sessionEndPending>>

-----------------------------------------------------------------------------

DictationStatus ==
  \/ \E s \in StatusCodes : DictationFails(s)
  \/ \E t \in Transcripts : DictationSucceeds(t)

TimerFires ==
  TranscriptDeliveryTimeout \/ WsRequestTimeout \/ ResultChunkTimeout \/ ExitTimeout

Click == BackClick \/ ResultButtonDown \/ ResultBackClick

Next ==
  \/ \E r \in ReqIds : LaunchAborted(r) \/ Launch(r)
  \/ DictationStatus
  \/ \E m \in Inbox : InboxReceived(m)
  \/ InboxDropped
  \/ OutboxSent \/ OutboxFailed
  \/ TimerFires
  \/ TransitionComplete
  \/ Click
  \/ Deinit

Spec == Init /\ [][Next]_watchVars

\* The firmware answers every message handed to the outbox, fires every
\* registered timer, ends every animation and dictation session, and returns
\* from the event loop once the window stack is empty.  Nothing is assumed
\* of the phone or of the user.
Fairness ==
  /\ WF_watchVars(DictationStatus)
  /\ WF_watchVars(OutboxSent \/ OutboxFailed)
  /\ WF_watchVars(TranscriptDeliveryTimeout)
  /\ WF_watchVars(WsRequestTimeout)
  /\ WF_watchVars(ResultChunkTimeout)
  /\ WF_watchVars(ExitTimeout)
  /\ WF_watchVars(TransitionComplete)
  /\ WF_watchVars(Deinit /\ dialog = "closed")

FairSpec == Spec /\ Fairness

-----------------------------------------------------------------------------
(* Invariants.                                                             *)

\* Every variable has its type.
TypeOK ==
  /\ state \in AppStates
  /\ reqId \in ReqIds \cup {NoId}
  /\ used \subseteq ReqIds
  /\ watchPhone \in WatchPhoneStates
  /\ phoneServer \in PhoneServerStates
  /\ timers \subseteq Timers
  /\ outbox \in WatchMessages \cup {NoMsg}
  /\ appMessageReady \in BOOLEAN
  /\ beginDelivered \in BOOLEAN
  /\ sessionEndPending \in BOOLEAN
  /\ transcript \in Texts
  /\ nextChunk \in Nat
  /\ response \in Responses
  /\ terminalStatus \in StatusCodes
  /\ dictationActive \in BOOLEAN
  /\ dialog \in DialogPhases
  /\ vibration \in {"none", "success", "failure"}

\* The timer that guards each phase in which the watch waits for the phone.
Watchdog(phase) ==
  CASE phase = "AWAITING_SEND_START" -> {"send_start"}
    [] phase = "AWAITING_RESULT" -> {"request"}
    [] phase = "RECEIVING_RESULT" -> {"result_chunk"}
    [] OTHER -> {}

\* While a request is in progress the armed timers are exactly the watchdog
\* of its phase: none is missing, and none of an earlier phase survives to
\* fail a later one.  Once settled only the exit timer may run, and only a
\* failed run has a transition whose end arms it.
WatchdogArmed ==
  /\ state \in {"DICTATING", "BRIDGING"} => timers = Watchdog(watchPhone)
  /\ state \in {"ERROR", "DISPLAYING_RESULT"} => timers \subseteq {"exit"}
  /\ ~Running => timers = {}
  /\ dialog = "error_transition" => state = "ERROR"

\* A bridging request always has something that will move it on: a message
\* whose outcome AppMessage will report, or a watchdog.
NeverStranded ==
  /\ state = "DICTATING" => dictationActive
  /\ state = "BRIDGING" => outbox # NoMsg \/ timers # {}

\* The two bridge contexts never contradict each other while bridging: the
\* phase of one determines the phase of the other.
BridgesAgree ==
  state = "BRIDGING" =>
    /\ watchPhone \in {"TRANSFERRING", "AWAITING_SEND_START", "AWAITING_RESULT",
                       "RECEIVING_RESULT"}
    /\ phoneServer = CASE watchPhone = "AWAITING_RESULT" -> "AWAITING_RESULT"
                       [] watchPhone = "RECEIVING_RESULT" -> "COMPLETE"
                       [] OTHER -> "PREPARING"

\* The outbox holds exactly the message of the current phase, and nothing once
\* the transcript is delivered; the next chunk is always one of the transcript.
OutboxMatchesPhase ==
  /\ Running => reqId \in ReqIds
  /\ state = "DICTATING" =>
       /\ phoneServer = "PREPARING"
       /\ IF beginDelivered
            THEN watchPhone = "READY" /\ outbox = NoMsg
            ELSE watchPhone = "SESSION_BEGIN_PENDING" /\ outbox = SessionBegin(reqId)
  /\ state = "BRIDGING" /\ watchPhone = "TRANSFERRING" =>
       /\ nextChunk < Len(transcript)
       /\ IF beginDelivered
            THEN outbox = TranscriptChunk(reqId, nextChunk, transcript)
            ELSE outbox = SessionBegin(reqId) /\ nextChunk = 0
  /\ state = "BRIDGING" /\ watchPhone # "TRANSFERRING" => beginDelivered /\ outbox = NoMsg
  /\ state \in {"OFF", "DISPLAYING_RESULT"} => outbox = NoMsg

\* After a failure nothing of the request is kept, dictation is stopped, and
\* the SESSION_END still owed to the phone waits only for an earlier message
\* that occupies the outbox, whose callback will send it.
ErrorCleansUp ==
  state = "ERROR" =>
    /\ transcript = <<>> /\ response = NoResponse /\ ~dictationActive
    /\ sessionEndPending /\ appMessageReady =>
         outbox # NoMsg /\ outbox.type # "SESSION_END"

\* A result is displayed only when every chunk of it arrived and all its
\* bytes are there, whatever the phone sent, and the vibration played is the
\* one of its outcome.
ResultIsWhole ==
  state = "DISPLAYING_RESULT" =>
    /\ response.next = response.count
    /\ Len(response.text) = response.total
    /\ response.total <= MaxResponse
    /\ vibration = IF response.success THEN "success" ELSE "failure"

-----------------------------------------------------------------------------
(* Action properties.                                                      *)

\* A transcript chunk is handed to AppMessage only in the step that reports
\* the delivery of its predecessor (of SESSION_BEGIN for the first, unless
\* that was delivered while dictation ran).
ChunkFollowsPredecessor ==
  (outbox'.type = "TRANSCRIPT_CHUNK" /\ outbox' # outbox) =>
    /\ beginDelivered'
    /\ IF outbox'.index = 0
         THEN outbox \in {NoMsg, SessionBegin(reqId)}
         ELSE /\ outbox.type = "TRANSCRIPT_CHUNK"
              /\ outbox' = [outbox EXCEPT !.index = @ + 1, !.text = outbox'.text]

\* SESSION_END is the last message of a request, and it is sent at most once:
\* a refused or failed one is not tried again.
NothingFollowsEnd ==
  \/ reqId' # reqId
  \/ outbox.type # "SESSION_END" /\ ~(state = "ERROR" /\ outbox = NoMsg)
  \/ outbox' \in {outbox, NoMsg}

\* The phone is told everything in order: SESSION_BEGIN, each chunk after the
\* delivery of the one before it, and SESSION_END, if at all, last and once.
SendsInOrder == [][ChunkFollowsPredecessor /\ NothingFollowsEnd]_watchVars

\* Once the run has settled on an error or on a result, no late message,
\* timer or callback changes what it settled on until the app is closed.
OutcomeKept ==
  state \in {"ERROR", "DISPLAYING_RESULT"} /\ state' # "OFF" =>
    UNCHANGED <<state, reqId, terminalStatus, response>>

TerminalIsFinal == [][OutcomeKept]_watchVars

-----------------------------------------------------------------------------
(* Liveness.                                                               *)

\* A run that failed closes the app without the user's help.
ErrorCloses == state = "ERROR" ~> ~Running

\* Whatever the phone does or fails to do, a started run reaches a terminal
\* state; and whichever animation or timer the system refuses, an error that
\* is on the screen or on its way there closes the app.  The rest, an error
\* whose status "Thinking..." replaced, is what ErrorCloses is about.
RunsEnd ==
  /\ state \in {"DICTATING", "BRIDGING"}
       ~> state \in {"ERROR", "DISPLAYING_RESULT", "OFF"}
  /\ state = "ERROR" /\ dialog # "progress" ~> ~Running

=============================================================================
