------------------------------- MODULE System -------------------------------
(***************************************************************************)
(* The watchapp and PebbleKit JS joined by AppMessage, with a WebSocket    *)
(* server at the far end.  The link and the server are external:           *)
(*                                                                         *)
(* - The phone acknowledges a watch message when it arrives, and hands it  *)
(*   to JavaScript later, in order (uplink).  Acknowledgements and the     *)
(*   phone's own messages share one ordered stream to the watch            *)
(*   (downlink), so the acknowledgement of the last chunk precedes any     *)
(*   SEND_STARTED it gives rise to.                                        *)
(* - Either side's message, or its acknowledgement, may be lost; the       *)
(*   sender is then told that the message failed.                          *)
(* - The server answers a request with its transcript, or refuses it.      *)
(***************************************************************************)
EXTENDS Protocol, SequencesExt

CONSTANTS
  MaxResponse, Transcripts,
  MayFail, SendFailures, MayBeKilled,    \* see Watch
  MayThrow,                              \* see Phone
  DictationErrors,                       \* statuses dictation may fail with
  MaxLosses      \* bound on `losses` (not in the code)

VARIABLES
  \* the watchapp
  state, reqId, used, watchPhone, phoneServer, timers, outbox,
  appMessageReady, beginDelivered, sessionEndPending, transcript, nextChunk,
  response, terminalStatus, dictationActive, dialog, vibration,
  \* PebbleKit JS
  phone, heard,
  \* the link
  uplink,      \* watch messages not yet handed to JavaScript
  downlink,    \* acknowledgements and phone messages on their way
  sent,        \* the message in the watch's outbox has left the watch
  push,        \* what became of the message in the phone's transport
  losses,      \* how many times a message, an acknowledgement or all of
               \* PebbleKit JS was lost
  \* history
  spoken       \* what dictation returned in the run of each request

W == INSTANCE Watch WITH Inbox <- {}
P == INSTANCE Phone WITH MaxSessions <- 0, WatchInbox <- {}, Frames <- {},
                         PromptFrames <- {}

ASSUME SystemAssumption ==
  /\ MaxResponse \in Nat /\ MaxLosses \in Nat
  /\ Transcripts \subseteq Texts \ {<<>>}
  /\ MayFail \subseteq W!Allocations
  /\ SendFailures \subseteq {"CONNECTIVITY", "TRANSFER"}
  /\ MayBeKilled \in BOOLEAN
  /\ MayThrow \subseteq {"WebSocket", "send", "sendAppMessage"}
  /\ DictationErrors \subseteq StatusCodes

linkVars == <<uplink, downlink, sent, push, losses>>
watchVars ==
  <<state, reqId, used, watchPhone, phoneServer, timers, outbox,
    appMessageReady, beginDelivered, sessionEndPending, transcript, nextChunk,
    response, terminalStatus, dictationActive, dialog, vibration>>
phoneVars == <<phone, heard>>
vars == <<watchVars, phoneVars, linkVars, spoken>>

Ack == [type |-> "ACK"]

\* The stream without its acknowledgements.
WithoutAcks(stream) ==
  LET kept[n \in 0 .. Len(stream)] ==
        IF n = 0 THEN <<>>
        ELSE IF stream[n] = Ack THEN kept[n - 1]
        ELSE Append(kept[n - 1], stream[n])
  IN  kept[Len(stream)]

Init ==
  /\ W!Init
  /\ P!Init
  /\ uplink = <<>>
  /\ downlink = <<>>
  /\ sent = FALSE
  /\ push = "idle"
  /\ losses = 0
  /\ spoken = [r \in ReqIds |-> <<>>]

-----------------------------------------------------------------------------
(* The watch on its own.                                                   *)

Launch == \E r \in ReqIds : W!LaunchAborted(r) \/ W!Launch(r)

Dictated ==
  \E t \in Transcripts :
    /\ W!DictationSucceeds(t)
    /\ spoken' = [spoken EXCEPT ![reqId] = t]

DictationEnds ==
  \/ /\ \E s \in DictationErrors : W!DictationFails(s)
     /\ UNCHANGED spoken
  \/ Dictated

\* prv_exit_after_error.  If it outruns a message that is still in the outbox,
\* that message is lost.
ExitTimeout ==
  /\ W!ExitTimeout
  /\ IF outbox = NoMsg
       THEN UNCHANGED losses
       ELSE losses < MaxLosses /\ losses' = losses + 1

WatchTimeout ==
  W!TranscriptDeliveryTimeout \/ W!WsRequestTimeout \/ W!ResultChunkTimeout

WatchStep ==
  /\ \/ DictationEnds /\ UNCHANGED losses
     \/ /\ \/ /\ \/ Launch \/ WatchTimeout \/ W!TransitionComplete \/ W!Click
              /\ UNCHANGED losses
           \/ ExitTimeout
        /\ UNCHANGED spoken
  /\ UNCHANGED <<phoneVars, uplink, downlink, sent, push>>

\* The app ends; what its outbox held and the acknowledgements due to it go
\* with it.
AppEnds ==
  /\ W!Deinit
  /\ sent' = FALSE
  /\ downlink' = WithoutAcks(downlink)
  /\ UNCHANGED <<phoneVars, uplink, push, losses, spoken>>

-----------------------------------------------------------------------------
(* From the watch to the phone.                                            *)

Transmit ==
  /\ W!Running /\ outbox # NoMsg /\ ~sent
  /\ sent' = TRUE
  /\ uplink' = Append(uplink, outbox)
  /\ downlink' = Append(downlink, Ack)
  /\ UNCHANGED <<watchVars, phoneVars, push, losses, spoken>>

AckArrives ==
  /\ downlink # <<>> /\ Head(downlink) = Ack
  /\ W!OutboxSent
  /\ sent' = FALSE
  /\ downlink' = Tail(downlink)
  /\ UNCHANGED <<phoneVars, uplink, push, losses, spoken>>

\* The watch message, or its acknowledgement if it was sent, is lost.
OutboxLost ==
  /\ losses < MaxLosses
  /\ W!OutboxFailed
  /\ losses' = losses + 1
  /\ sent' = FALSE
  /\ downlink' = WithoutAcks(downlink)
  /\ UNCHANGED <<phoneVars, uplink, push, spoken>>

PhoneReceives ==
  /\ uplink # <<>>
  /\ P!Receive(Head(uplink))
  /\ uplink' = Tail(uplink)
  /\ UNCHANGED <<watchVars, downlink, sent, push, losses, spoken>>

-----------------------------------------------------------------------------
(* From the phone to the watch.                                            *)

Push ==
  /\ phone.inflight # P!NoEntry /\ push = "idle"
  /\ push' = "sent"
  /\ downlink' = Append(downlink, phone.inflight.msg)
  /\ UNCHANGED <<watchVars, phoneVars, uplink, sent, losses, spoken>>

\* Nobody is left to hear what became of a message JavaScript left behind.
Reported(outcome) == IF push = "orphaned" THEN "idle" ELSE outcome

\* The watch firmware hands the message to the app; with no app it refuses.
PushArrives ==
  /\ downlink # <<>> /\ Head(downlink) # Ack
  /\ downlink' = Tail(downlink)
  /\ IF W!Running
       THEN W!InboxReceived(Head(downlink)) /\ push' = Reported("delivered")
       ELSE UNCHANGED watchVars /\ push' = Reported("failed")
  /\ UNCHANGED <<phoneVars, uplink, sent, losses, spoken>>

\* The message is lost on the way, or dropped for want of inbox space.
PushLost ==
  /\ losses < MaxLosses
  /\ downlink # <<>> /\ Head(downlink) # Ack
  /\ downlink' = Tail(downlink)
  /\ push' = Reported("failed")
  /\ losses' = losses + 1
  /\ W!InboxDropped \/ UNCHANGED watchVars
  /\ UNCHANGED <<phoneVars, uplink, sent, spoken>>

\* The watch took the message but its acknowledgement is lost.
PushAckLost ==
  /\ losses < MaxLosses
  /\ push = "delivered"
  /\ push' = "failed"
  /\ losses' = losses + 1
  /\ UNCHANGED <<watchVars, phoneVars, uplink, downlink, sent, spoken>>

PushDone ==
  /\ push \in {"delivered", "failed"}
  /\ P!AppMessageDone(push = "delivered")
  /\ push' = "idle"
  /\ UNCHANGED <<watchVars, uplink, downlink, sent, losses, spoken>>

-----------------------------------------------------------------------------
(* The phone's socket and timers, and the server.                          *)

\* The request of the active session.
Request == {q \in ToSet(phone.requests) : q.serial = phone.serial}

\* The server's result for it, or its refusal.
Results ==
  {[id |-> q.id, kind |-> "result", success |-> TRUE, response |-> q.transcript] :
     q \in Request}

Refusals ==
  {[id |-> q.id, kind |-> "server_error", success |-> FALSE, response |-> <<>>] :
     q \in Request}

\* The phone ends PebbleKit JS and starts it anew: the session, its socket and
\* the transport are lost, perhaps also what waited to be handed to it, but
\* not what the phone already sent.
PhoneRestarts ==
  /\ losses < MaxLosses /\ phone.serial > 0
  /\ losses' = losses + 1
  /\ phone' = [P!Idle EXCEPT !.serial = phone.serial, !.requests = phone.requests]
  /\ heard' = <<>>
  /\ uplink' \in {<<>>, uplink}
  /\ push' = IF push \in {"sent", "orphaned"} THEN "orphaned" ELSE "idle"
  /\ UNCHANGED <<watchVars, downlink, sent, spoken>>

PhoneStep ==
  /\ \/ P!SocketOpens \/ P!OnOpen \/ P!SocketCloses \/ P!OnErrorOrClose
     \/ \E f \in Results \cup Refusals : P!OnFrame(f)
     \/ P!HandoffTimeout \/ P!ResultTimeout
  /\ UNCHANGED <<watchVars, linkVars, spoken>>

LinkStep ==
  \/ Transmit \/ AckArrives \/ OutboxLost \/ PhoneReceives
  \/ Push \/ PushArrives \/ PushLost \/ PushAckLost \/ PushDone

Next == WatchStep \/ AppEnds \/ LinkStep \/ PhoneStep \/ PhoneRestarts

Spec == Init /\ [][Next]_vars

-----------------------------------------------------------------------------
(* Invariants.                                                             *)

\* The link's variables and the history have their types.
TypeOK ==
  /\ uplink \in Seq(WatchMessages)
  /\ downlink \in Seq(PhoneMessages \cup {Ack})
  /\ sent \in BOOLEAN
  /\ push \in {"idle", "sent", "delivered", "failed", "orphaned"}
  /\ losses \in 0 .. MaxLosses
  /\ spoken \in [ReqIds -> Texts]

\* Each run sends the server at most one request, and it is exactly what was
\* dictated in that run.
OneExactRequestPerRun ==
  /\ TypeOK
  /\ \A i \in DOMAIN phone.requests :
       /\ phone.requests[i].transcript = spoken[phone.requests[i].id]
       /\ phone.requests[i].transcript # <<>>
  /\ \A i, j \in DOMAIN phone.requests :
       phone.requests[i].id = phone.requests[j].id => i = j

\* Two correct ends never accuse each other: whatever is lost, delayed, timed
\* out or restarted, neither side takes a message of the other for a
\* violation of the protocol.
NoProtocolError ==
  /\ terminalStatus # "ERROR_PROTOCOL"
  /\ \A i \in DOMAIN phone.queue : phone.queue[i].msg # Failure(phone.id, "ERROR_PROTOCOL")
  /\ phone.inflight.msg # Failure(phone.id, "ERROR_PROTOCOL")

\* The watch tells "sent" from "thinking" truthfully: it waits for a result
\* only if its request was handed to the socket.
AwaitsOnlyWhatWasSent ==
  state = "BRIDGING" /\ watchPhone \in {"AWAITING_RESULT", "RECEIVING_RESULT"} =>
    \E i \in DOMAIN phone.requests : phone.requests[i].id = reqId

-----------------------------------------------------------------------------
(* Refinement.                                                             *)

Asked ==
  {[run |-> q.id, text |-> q.transcript] : q \in ToSet(phone.requests)}

D == INSTANCE Dictation WITH
  Runs <- ReqIds, NoRun <- NoId, Utterances <- Transcripts,
  phase <- state, run <- reqId, started <- used, said <- spoken,
  asked <- Asked,
  shown <- IF state = "DISPLAYING_RESULT" THEN response.text ELSE <<>>

\* The two ends and the link implement the dictation service: see Dictation.
ImplementsDictation == D!Spec

-----------------------------------------------------------------------------
(* Liveness.                                                               *)

\* A step that takes a request further without waiting for a timer, while
\* nothing is lost.
Progress ==
  \/ Transmit \/ AckArrives \/ PhoneReceives
  \/ Push \/ PushArrives \/ PushDone
  \/ /\ \/ P!SocketOpens \/ P!OnOpen
        \/ \E f \in Results : P!OnFrame(f)
        \/ phone.socket = "closing" /\ P!OnErrorOrClose
     /\ UNCHANGED <<watchVars, linkVars, spoken>>

\* Whatever the order of their steps, the two ends never wait for each other:
\* as long as nothing is lost, a request that waits has something on its way
\* to it other than a time-out - also when the socket opens only after the
\* transcript is complete, or the phone has not yet closed the session of
\* the run before.
NobodyWaitsInVain ==
  losses = 0 /\ state = "BRIDGING" => ENABLED <<Progress>>_vars

\* The link delivers what it does not lose, JavaScript handles its events,
\* timers fire, and the app exits as in Watch.
Fairness ==
  /\ WF_vars(DictationEnds /\ UNCHANGED <<phoneVars, linkVars>>)
  /\ WF_vars(WatchTimeout /\ UNCHANGED <<phoneVars, linkVars, spoken>>)
  /\ WF_vars(ExitTimeout /\ UNCHANGED <<phoneVars, uplink, downlink, sent, push, spoken>>)
  /\ WF_vars(W!TransitionComplete /\ UNCHANGED <<phoneVars, linkVars, spoken>>)
  /\ WF_vars(AppEnds /\ dialog = "closed")
  /\ WF_vars(Transmit)
  /\ WF_vars(AckArrives)
  /\ WF_vars(PhoneReceives)
  /\ WF_vars(Push)
  /\ WF_vars(PushArrives)
  /\ WF_vars(PushDone)
  /\ WF_vars((P!HandoffTimeout \/ P!ResultTimeout)
               /\ UNCHANGED <<watchVars, linkVars, spoken>>)

FairSpec == Spec /\ Fairness

\* However a run ends, the phone does not keep its session and socket: if
\* nothing is lost, SESSION_END or the terminal message closes it.
PhoneReleased ==
  state \in {"ERROR", "DISPLAYING_RESULT"} ~> phone.state = "CLOSED" \/ losses > 0

=============================================================================
