---------------------------- MODULE SystemProofs ----------------------------
(***************************************************************************)
(* Proofs about the watch and the phone together.                          *)
(***************************************************************************)
EXTENDS System, RequestId, TLAPS

WP == INSTANCE WatchProofs WITH Inbox <- PhoneMessages

PP == INSTANCE PhoneProofs WITH
  MaxSessions <- 0, WatchInbox <- WatchMessages, PromptFrames <- {},
  Frames <- [id : ReqIds \cup {NoId}, kind : P!FrameKinds, success : BOOLEAN, response : Texts]

-----------------------------------------------------------------------------
(* The components as System and as their own proofs instantiate them.      *)

\* The callbacks of the watch do not depend on which messages may arrive.
LEMMA SameWatch ==
  /\ W!Init <=> WP!Init
  /\ \A r : /\ W!LaunchAborted(r) <=> WP!LaunchAborted(r)
            /\ W!Launch(r) <=> WP!Launch(r)
  /\ \A t : W!DictationSucceeds(t) <=> WP!DictationSucceeds(t)
  /\ \A s : W!DictationFails(s) <=> WP!DictationFails(s)
  /\ W!OutboxSent <=> WP!OutboxSent
  /\ W!OutboxFailed <=> WP!OutboxFailed
  /\ \A m : W!InboxReceived(m) <=> WP!InboxReceived(m)
  /\ W!InboxDropped <=> WP!InboxDropped
  /\ W!TranscriptDeliveryTimeout <=> WP!TranscriptDeliveryTimeout
  /\ W!WsRequestTimeout <=> WP!WsRequestTimeout
  /\ W!ResultChunkTimeout <=> WP!ResultChunkTimeout
  /\ W!ExitTimeout <=> WP!ExitTimeout
  /\ W!TransitionComplete <=> WP!TransitionComplete
  /\ W!Click <=> WP!Click
  /\ W!Deinit <=> WP!Deinit
<1>1. /\ W!TerminalStatusVisible <=> WP!TerminalStatusVisible
      /\ W!ShowTerminalStatus <=> WP!ShowTerminalStatus
  BY DEF W!TerminalStatusVisible, WP!TerminalStatusVisible, W!ShowTerminalStatus,
         WP!ShowTerminalStatus
<1>2. \A id, ready, held, status :
        W!EnterError(id, ready, held, status) <=> WP!EnterError(id, ready, held, status)
  BY DEF W!EnterError, WP!EnterError, W!SessionEnd, WP!SessionEnd, W!NoMsg,
         WP!NoMsg, W!NoResponse, WP!NoResponse
<1>3. \A held, armed, status : W!Fail(held, armed, status) <=> WP!Fail(held, armed, status)
  BY <1>1, <1>2 DEF W!Fail, WP!Fail, W!Settled, WP!Settled
<1>4. /\ \A held, armed, e : W!WatchPhoneFail(held, armed, e) <=> WP!WatchPhoneFail(held, armed, e)
      /\ \A armed, e : W!PhoneServerFail(armed, e) <=> WP!PhoneServerFail(armed, e)
  BY <1>3
     DEF W!WatchPhoneFail, WP!WatchPhoneFail, W!PhoneServerFail,
         WP!PhoneServerFail, W!WatchPhoneStatus, WP!WatchPhoneStatus,
         W!PhoneServerStatus, WP!PhoneServerStatus
<1>5. \A t, i : W!PostChunk(t, i) <=> WP!PostChunk(t, i)
  BY <1>4
     DEF W!PostChunk, WP!PostChunk, W!TranscriptChunk, WP!TranscriptChunk,
         W!NoMsg, WP!NoMsg
<1>6. W!Init <=> WP!Init
  BY DEF W!Init, WP!Init, W!NoMsg, WP!NoMsg, W!NoResponse, WP!NoResponse
<1>7. \A r : W!LaunchAborted(r) <=> WP!LaunchAborted(r)
  BY DEF W!LaunchAborted, WP!LaunchAborted, W!bridgeVars, WP!bridgeVars,
         W!deliveryVars, WP!deliveryVars, W!uiVars, WP!uiVars
<1>8. \A r, a, b, held, status :
        W!LaunchFails(r, a, b, held, status) <=> WP!LaunchFails(r, a, b, held, status)
  BY <1>1, <1>2 DEF W!LaunchFails, WP!LaunchFails
<1>9. \A r : W!Launch(r) <=> WP!Launch(r)
  BY <1>8
     DEF W!Launch, WP!Launch, W!SessionBegin, WP!SessionBegin, W!NoMsg, WP!NoMsg,
         W!NoResponse, WP!NoResponse, W!WatchPhoneStatus, WP!WatchPhoneStatus
<1>10. \A t : W!DictationSucceeds(t) <=> WP!DictationSucceeds(t)
  BY <1>5
     DEF W!DictationSucceeds, WP!DictationSucceeds, W!FirstChunkMayGo,
         WP!FirstChunkMayGo, W!NoMsg, WP!NoMsg
<1>11. \A s : W!DictationFails(s) <=> WP!DictationFails(s)
  BY <1>3 DEF W!DictationFails, WP!DictationFails, W!bridgeVars, WP!bridgeVars
<1>12. W!TrySendSessionEnd <=> WP!TrySendSessionEnd
  BY DEF W!TrySendSessionEnd, WP!TrySendSessionEnd, W!SessionEnd, WP!SessionEnd,
         W!NoMsg, WP!NoMsg
<1>13. /\ W!BeginSent <=> WP!BeginSent
       /\ W!AwaitSendStart <=> WP!AwaitSendStart
  BY <1>4, <1>5
     DEF W!BeginSent, WP!BeginSent, W!AwaitSendStart, WP!AwaitSendStart, W!NoMsg,
         WP!NoMsg, W!uiVars, WP!uiVars
<1>14. W!ChunkSent <=> WP!ChunkSent
  BY <1>4, <1>5, <1>13 DEF W!ChunkSent, WP!ChunkSent, W!NoMsg, WP!NoMsg
<1>15. W!OutboxSent <=> WP!OutboxSent
  BY <1>12, <1>13, <1>14
     DEF W!OutboxSent, WP!OutboxSent, W!Running, WP!Running, W!NoMsg, WP!NoMsg,
         W!uiVars, WP!uiVars
<1>16. W!OutboxFailed <=> WP!OutboxFailed
  BY <1>4, <1>12
     DEF W!OutboxFailed, WP!OutboxFailed, W!Running, WP!Running, W!NoMsg,
         WP!NoMsg, W!uiVars, WP!uiVars
<1>17. W!SendStartedReceived <=> WP!SendStartedReceived
  BY <1>2, <1>4
     DEF W!SendStartedReceived, WP!SendStartedReceived, W!deliveryVars,
         WP!deliveryVars
<1>18. /\ \A m : W!OpensResponse(m) <=> WP!OpensResponse(m)
       /\ \A m : W!ResponseFor(m) = WP!ResponseFor(m)
  BY DEF W!OpensResponse, WP!OpensResponse, W!ReceivingResult,
         WP!ReceivingResult, W!ValidResultChunk, WP!ValidResultChunk,
         W!ResponseFor, WP!ResponseFor, W!NoResponse, WP!NoResponse
<1>19. /\ \A m : W!Continues(m) <=> WP!Continues(m)
       /\ \A m : W!Extended(m) = WP!Extended(m)
       /\ \A m : W!PhoneServerAfter(m) = WP!PhoneServerAfter(m)
  BY <1>18
     DEF W!Continues, WP!Continues, W!ReceivingResult, WP!ReceivingResult,
         W!ValidResultChunk, WP!ValidResultChunk, W!Extended, WP!Extended,
         W!PhoneServerAfter, WP!PhoneServerAfter
<1>20. /\ \A m : W!ResultChunkReceived(m) <=> WP!ResultChunkReceived(m)
       /\ \A m : W!NoMemoryForResponse(m) <=> WP!NoMemoryForResponse(m)
  BY <1>4, <1>18, <1>19
     DEF W!ResultChunkReceived, WP!ResultChunkReceived, W!NoMemoryForResponse,
         WP!NoMemoryForResponse
<1>21. \A s : W!FailureReceived(s) <=> WP!FailureReceived(s)
  BY <1>4 DEF W!FailureReceived, WP!FailureReceived
<1>22. \A m : W!InboxReceived(m) <=> WP!InboxReceived(m)
  BY <1>3, <1>4, <1>17, <1>20, <1>21
     DEF W!InboxReceived, WP!InboxReceived, W!Running, WP!Running, W!Settled,
         WP!Settled, W!ForThisRequest, WP!ForThisRequest, W!watchVars,
         WP!watchVars, W!appVars, WP!appVars, W!bridgeVars, WP!bridgeVars,
         W!deliveryVars, WP!deliveryVars, W!uiVars, WP!uiVars
<1>23. W!InboxDropped <=> WP!InboxDropped
  BY <1>4 DEF W!InboxDropped, WP!InboxDropped, W!Running, WP!Running
<1>24. /\ W!TranscriptDeliveryTimeout <=> WP!TranscriptDeliveryTimeout
       /\ W!WsRequestTimeout <=> WP!WsRequestTimeout
       /\ W!ResultChunkTimeout <=> WP!ResultChunkTimeout
  BY <1>4
     DEF W!TranscriptDeliveryTimeout, WP!TranscriptDeliveryTimeout,
         W!WsRequestTimeout, WP!WsRequestTimeout, W!ResultChunkTimeout,
         WP!ResultChunkTimeout
<1>25. /\ W!ExitTimeout <=> WP!ExitTimeout
       /\ W!TransitionComplete <=> WP!TransitionComplete
  BY <1>1
     DEF W!ExitTimeout, WP!ExitTimeout, W!TransitionComplete,
         WP!TransitionComplete, W!appVars, WP!appVars, W!bridgeVars,
         WP!bridgeVars, W!deliveryVars, WP!deliveryVars
<1>26. W!Click <=> WP!Click
  BY <1>3
     DEF W!Click, WP!Click, W!BackClick, WP!BackClick, W!ResultButtonDown,
         WP!ResultButtonDown, W!ResultBackClick, WP!ResultBackClick, W!Running,
         WP!Running, W!Settled, WP!Settled, W!appVars, WP!appVars, W!bridgeVars,
         WP!bridgeVars, W!deliveryVars, WP!deliveryVars
<1>27. W!Deinit <=> WP!Deinit
  BY DEF W!Deinit, WP!Deinit, W!Running, WP!Running, W!NoMsg, WP!NoMsg,
         W!NoResponse, WP!NoResponse, W!bridgeVars, WP!bridgeVars
<1> QED
  BY <1>6, <1>7, <1>9, <1>10, <1>11, <1>15, <1>16, <1>22, <1>23, <1>24, <1>25, <1>26, <1>27

\* The components' assumptions on their constants.
LEMMA WatchAssumptions ==
  /\ NoId \notin ReqIds /\ MaxResponse \in Nat
  /\ MayFail \subseteq WP!Allocations
  /\ SendFailures \subseteq {"CONNECTIVITY", "TRANSFER"}
  /\ MayBeKilled \in BOOLEAN
  /\ Transcripts \subseteq WP!Texts \ {<<>>}
  /\ PhoneMessages \subseteq WP!InboxMessages
BY NoIdAssumption, SystemAssumption
   DEF W!Allocations, WP!Allocations, Texts, WP!Texts, WP!InboxMessages,
       PhoneMessages, WP!PhoneMessages, StatusCodes, WP!StatusCodes

\* Neither do the handlers of the phone depend on what may arrive.
LEMMA SamePhone ==
  /\ P!Init <=> PP!Init
  /\ \A m : P!Receive(m) <=> PP!Receive(m)
  /\ P!SocketOpens <=> PP!SocketOpens
  /\ P!SocketCloses <=> PP!SocketCloses
  /\ P!OnOpen <=> PP!OnOpen
  /\ P!OnErrorOrClose <=> PP!OnErrorOrClose
  /\ \A f : P!OnFrame(f) <=> PP!OnFrame(f)
  /\ P!HandoffTimeout <=> PP!HandoffTimeout
  /\ P!ResultTimeout <=> PP!ResultTimeout
  /\ \A ok : P!AppMessageDone(ok) <=> PP!AppMessageDone(ok)
<1>1. \A p : P!ServerClose(p) = PP!ServerClose(p)
  BY DEF P!ServerClose, PP!ServerClose
<1>2. \A queue, owner : P!Others(queue, owner) = PP!Others(queue, owner)
  BY DEF P!Others, PP!Others
<1>3. \A p : P!SessionClose(p) = PP!SessionClose(p)
  BY <1>1, <1>2 DEF P!SessionClose, PP!SessionClose, P!CancelQueued,
         PP!CancelQueued, P!NoTranscript, PP!NoTranscript
<1>4. \A p, x : P!Pump(p, x) = PP!Pump(p, x)
  BY <1>3 DEF P!Pump, PP!Pump, P!NoEntry, PP!NoEntry, P!NoMsg, PP!NoMsg
<1>5. \A p, m, x : P!Enqueue(p, m, x) = PP!Enqueue(p, m, x)
  BY <1>4 DEF P!Enqueue, PP!Enqueue
<1>6. \A p, e, ok, x : P!Delivered(p, e, ok, x) = PP!Delivered(p, e, ok, x)
  BY <1>3, <1>5 DEF P!Delivered, PP!Delivered, P!Concerns, PP!Concerns,
         P!EndsSession, PP!EndsSession
<1>7. \A p, status, x : P!SessionFail(p, status, x) = PP!SessionFail(p, status, x)
  BY <1>5, <1>1 DEF P!SessionFail, PP!SessionFail, P!Failure, PP!Failure
<1>8. \A p, error, x : P!ServerFail(p, error, x) = PP!ServerFail(p, error, x)
  BY <1>7 DEF P!ServerFail, PP!ServerFail, P!StatusForServerError,
         PP!StatusForServerError
<1>9. \A p, f, x : P!ForwardResult(p, f, x) = PP!ForwardResult(p, f, x)
  <2>1. \A r, success, text : P!ResultChunks(r, success, text) = PP!ResultChunks(r, success, text)
    BY DEF P!ResultChunks, PP!ResultChunks
  <2> QED
    BY <2>1, <1>5, <1>1 DEF P!ForwardResult, PP!ForwardResult
<1>10. \A p, f, x : P!HandleFrame(p, f, x) = PP!HandleFrame(p, f, x)
  BY <1>9, <1>8 DEF P!HandleFrame, PP!HandleFrame, P!FrameKind, PP!FrameKind
<1>11. \A p, x, f : P!TrySend(p, x, f) = PP!TrySend(p, x, f)
  BY <1>8, <1>10, <1>5 DEF P!TrySend, PP!TrySend, P!SendStarted,
         PP!SendStarted
<1>12. \A p, r, x : P!StartSession(p, r, x) = PP!StartSession(p, r, x)
  BY <1>3, <1>8 DEF P!StartSession, PP!StartSession
<1>13. \A p, t, x, f : P!SetTranscript(p, t, x, f) = PP!SetTranscript(p, t, x, f)
  BY <1>11 DEF P!SetTranscript, PP!SetTranscript
<1>14. \A p, m, x, f : P!HandleChunk(p, m, x, f) = PP!HandleChunk(p, m, x, f)
  <2> SUFFICES ASSUME NEW p, NEW m, NEW x, NEW f
               PROVE  P!HandleChunk(p, m, x, f) = PP!HandleChunk(p, m, x, f)
    OBVIOUS
  <2>1. P!ChunkFits(p.assembler, m) <=> PP!ChunkFits(p.assembler, m)
    BY DEF P!ChunkFits, PP!ChunkFits
  <2>2. CASE p.state # "RECEIVING_TRANSCRIPT" \/ ~P!ChunkFits(p.assembler, m)
    BY <1>7, <2>1, <2>2 DEF P!HandleChunk, PP!HandleChunk
  <2>3. CASE ~(p.state # "RECEIVING_TRANSCRIPT" \/ ~P!ChunkFits(p.assembler, m))
    BY <1>13, <2>1, <2>3 DEF P!HandleChunk, PP!HandleChunk
  <2> QED
    BY <2>2, <2>3
<1>15. \A p, m, x, f : P!OnAppMessage(p, m, x, f) = PP!OnAppMessage(p, m, x, f)
  BY <1>7, <1>12, <1>3, <1>14 DEF P!OnAppMessage, PP!OnAppMessage, P!Parses,
         PP!Parses
<1>16. P!Init <=> PP!Init
  BY DEF P!Init, PP!Init, P!Idle, PP!Idle, P!NoTranscript, PP!NoTranscript,
         P!NoEntry, PP!NoEntry, P!NoMsg, PP!NoMsg
<1>17. \A m : P!Receive(m) <=> PP!Receive(m)
  BY <1>15 DEF P!Receive, PP!Receive, P!NoFrame, PP!NoFrame
<1>18. P!SocketOpens <=> PP!SocketOpens
  BY DEF P!SocketOpens, PP!SocketOpens
<1>19. P!SocketCloses <=> PP!SocketCloses
  BY DEF P!SocketCloses, PP!SocketCloses
<1>20. P!OnOpen <=> PP!OnOpen
  BY <1>11 DEF P!OnOpen, PP!OnOpen, P!NoFrame, PP!NoFrame
<1>21. P!OnErrorOrClose <=> PP!OnErrorOrClose
  BY <1>8 DEF P!OnErrorOrClose, PP!OnErrorOrClose
<1>22. \A f : P!OnFrame(f) <=> PP!OnFrame(f)
  BY <1>10 DEF P!OnFrame, PP!OnFrame
<1>23. P!HandoffTimeout <=> PP!HandoffTimeout
  BY <1>8 DEF P!HandoffTimeout, PP!HandoffTimeout
<1>24. P!ResultTimeout <=> PP!ResultTimeout
  BY <1>8 DEF P!ResultTimeout, PP!ResultTimeout
<1>25. \A ok : P!AppMessageDone(ok) <=> PP!AppMessageDone(ok)
  BY <1>4, <1>6 DEF P!AppMessageDone, PP!AppMessageDone, P!NoEntry,
         PP!NoEntry, P!NoMsg, PP!NoMsg
<1> QED
  BY <1>16, <1>17, <1>18, <1>19, <1>20, <1>21, <1>22, <1>23, <1>24, <1>25

\* The phone's assumptions on its constants.
LEMMA PhoneAssumptions ==
  /\ NoId \notin ReqIds /\ MaxResponse \in Nat
  /\ MayThrow \subseteq {"WebSocket", "send", "sendAppMessage"}
  /\ 0 \in Nat
  /\ WatchMessages \subseteq
       PP!WatchMessages \cup [type : {"MALFORMED"}, id : ReqIds \cup {NoId}]
  /\ [id : ReqIds \cup {NoId}, kind : P!FrameKinds, success : BOOLEAN, response : Texts]
       \subseteq [id : ReqIds \cup {NoId}, kind : PP!FrameKinds, success : BOOLEAN,
                  response : PP!Texts]
  /\ {} \subseteq [id : ReqIds \cup {NoId}, kind : P!FrameKinds, success : BOOLEAN,
                   response : Texts]
BY NoIdAssumption, SystemAssumption
   DEF WatchMessages, PP!WatchMessages, StatusCodes, PP!StatusCodes, Texts, PP!Texts,
       P!FrameKinds, PP!FrameKinds

\* All speak of the same protocol.
LEMMA OneProtocol ==
  /\ W!NoMsg = NoMsg /\ WP!NoMsg = NoMsg
  /\ WP!WatchMessages = WatchMessages /\ PP!WatchMessages = WatchMessages
  /\ WP!PhoneMessages = PhoneMessages /\ PP!PhoneMessages = PhoneMessages
  /\ WP!Texts = Texts /\ PP!Texts = Texts
  /\ W!Running <=> WP!Running
  /\ P!NoEntry = PP!NoEntry /\ P!Idle = PP!Idle
BY DEF W!NoMsg, WP!NoMsg, NoMsg, WP!WatchMessages, PP!WatchMessages, WatchMessages,
       WP!PhoneMessages, PP!PhoneMessages, PhoneMessages, WP!Texts, PP!Texts, Texts,
       WP!StatusCodes, PP!StatusCodes, StatusCodes, W!Running, WP!Running,
       P!NoEntry, PP!NoEntry, P!NoMsg, PP!NoMsg, P!Idle, PP!Idle,
       P!NoTranscript, PP!NoTranscript

-----------------------------------------------------------------------------
(* The invariant.                                                          *)

\* A message that has left the outbox is still the one it holds.
SentIsHeld == outbox = NoMsg => ~sent

\* Everything on its way, and everything the phone knows, is of a run that
\* has started; nothing was spoken in the others.
Known ==
  /\ used \subseteq ReqIds
  /\ state # "OFF" => reqId \in used
  /\ outbox # NoMsg => outbox.id \in used
  /\ \A i \in DOMAIN uplink : uplink[i].id \in used
  /\ phone.id \in used \cup {NoId}
  /\ \A i \in DOMAIN phone.requests : phone.requests[i].id \in used
  /\ \A r \in ReqIds \ used : spoken[r] = <<>>

\* The phone has had the SESSION_BEGIN of run r.
Begun(r) ==
  phone.id = r \/ \E i \in DOMAIN phone.requests : phone.requests[i].id = r

\* A run's SESSION_BEGIN reaches the phone once at most, and its session
\* sends one request at most.
BeginsOnce ==
  /\ outbox.type = "SESSION_BEGIN" /\ ~sent =>
       /\ ~Begun(outbox.id)
       /\ \A i \in DOMAIN uplink : uplink[i] # outbox
  /\ \A i \in DOMAIN uplink : uplink[i].type = "SESSION_BEGIN" =>
       /\ ~Begun(uplink[i].id)
       /\ \A j \in DOMAIN uplink : uplink[j] = uplink[i] => j = i
  /\ PP!Waiting(phone) =>
       \A i \in DOMAIN phone.requests : phone.requests[i].id # phone.id

\* m is no chunk, or a chunk of what was spoken in its run.
Quotes(m) ==
  m.type = "TRANSCRIPT_CHUNK" =>
    /\ spoken[m.id] # <<>>
    /\ m = TranscriptChunk(m.id, m.index, spoken[m.id])

\* Whatever carries text carries what was spoken.
TrueToSpeech ==
  /\ state = "DICTATING" => spoken[reqId] = <<>>
  /\ WP!Transferring => transcript = spoken[reqId]
  /\ Quotes(outbox)
  /\ \A i \in DOMAIN uplink : Quotes(uplink[i])
  /\ \A i \in DOMAIN heard : heard[i].type = "TRANSCRIPT_CHUNK" /\ Quotes(heard[i])
  /\ \A i \in DOMAIN phone.requests :
       /\ phone.requests[i].transcript = spoken[phone.requests[i].id]
       /\ phone.requests[i].transcript # <<>>

\* Each run has one request at most.
Distinct ==
  \A i, j \in DOMAIN phone.requests :
    phone.requests[i].id = phone.requests[j].id => i = j

\* From the microphone to the socket.
Carried ==
  /\ WP!IInv /\ PP!IInv /\ TypeOK
  /\ SentIsHeld /\ Known /\ BeginsOnce /\ TrueToSpeech /\ Distinct

\* The request of run r was handed to the socket.
HasAsked(r) == \E i \in DOMAIN phone.requests : phone.requests[i].id = r

\* What the phone may tell the watch: that a request that was sent has been
\* sent, and the answer to it, which is what was spoken.
TrueMessages ==
  {m \in PhoneMessages :
     /\ m.type = "SEND_STARTED" => HasAsked(m.id)
     /\ m.type = "SERVER_RESULT_CHUNK" =>
          /\ HasAsked(m.id)
          /\ m.index < Len(spoken[m.id])
          /\ m = ResultChunks(m.id, TRUE, spoken[m.id])[m.index + 1]}

\* It tells nothing else; what it has sent may outlive it.
TellsTheTruth ==
  /\ PP!Tells(phone, TrueMessages)
  /\ downlink \in Seq(TrueMessages \cup {Ack})

\* The watch awaits a result only of a request that was sent, and what it has
\* of the response is the beginning of what was spoken.
HearsTheTruth ==
  state = "BRIDGING" /\ watchPhone \in {"AWAITING_RESULT", "RECEIVING_RESULT"} =>
    /\ HasAsked(reqId)
    /\ watchPhone = "RECEIVING_RESULT" =>
         /\ response.count = Len(spoken[reqId]) /\ response.total = response.count
         /\ response.next < response.count
         /\ response.text = SubSeq(spoken[reqId], 1, response.next)

\* From the server back to the watch.
Answered == TellsTheTruth /\ HearsTheTruth

IInv == Carried /\ Answered

-----------------------------------------------------------------------------
(* The stream to the watch.                                                *)

\* Numbers from 0 on have a property that each has if those below it have.
LEMMA NoLeastWithout ==
  ASSUME NEW n \in Nat, NEW T \in SUBSET (0 .. n),
         \A k \in 0 .. n : (\A j \in 0 .. n : j < k => j \in T) => k \in T
  PROVE  T = 0 .. n
<1> DEFINE out == (0 .. n) \ T
<1> SUFFICES ASSUME out # {} PROVE FALSE
  OBVIOUS
<1>1. PICK k \in out : \A j \in out : k <= j
  <2>1. out \in SUBSET Nat
    OBVIOUS
  <2> HIDE DEF out
  <2> QED
    BY <2>1, PhoneAssumptions, PP!LeastNumber
<1> QED
  BY <1>1

\* What dropping the acknowledgements makes of each beginning of the stream.
LEMMA WithoutAcksUnfolds ==
  ASSUME NEW S, NEW stream \in Seq(S)
  PROVE  \E F : /\ WithoutAcks(stream) = F[Len(stream)] /\ F[0] = <<>>
                /\ \A k \in 1 .. Len(stream) :
                     F[k] = IF stream[k] = Ack THEN F[k - 1]
                                               ELSE Append(F[k - 1], stream[k])
<1> DEFINE n == Len(stream)
           Step(f, k) == IF k = 0 THEN <<>>
                         ELSE IF stream[k] = Ack THEN f[k - 1]
                         ELSE Append(f[k - 1], stream[k])
           Kept(f, k) == f = [j \in 0 .. k |-> Step(f, j)]
           F == CHOOSE f : Kept(f, n)
<1>1. n \in Nat
  OBVIOUS
<1>2. \E f : Kept(f, n)
  <2> DEFINE T == {k \in 0 .. n : \E f : Kept(f, k)}
  <2>1. ASSUME NEW k \in 0 .. n, \A j \in 0 .. n : j < k => j \in T
        PROVE  \E f : Kept(f, k)
    <3>1. CASE k = 0
      <4> DEFINE f == [j \in 0 .. 0 |-> <<>>]
      <4>1. f = [j \in 0 .. 0 |-> Step(f, j)]
        OBVIOUS
      <4> HIDE DEF f, Step
      <4> QED
        BY <3>1, <4>1
    <3>2. CASE k # 0
      <4>1. k - 1 \in 0 .. n /\ k - 1 < k
        BY <3>2
      <4>2. PICK g : Kept(g, k - 1)
        BY <2>1, <4>1
      <4> DEFINE f == [j \in 0 .. k |-> IF j = k THEN Step(g, k) ELSE g[j]]
      <4>3. \A j \in 0 .. k - 1 : g[j] = Step(g, j)
        <5> HIDE DEF Step
        <5> QED
          BY <4>2
      <4>4. \A j \in 0 .. k : f[j] = Step(f, j)
        <5>1. CASE k = 1
          BY <4>1, <4>3, <5>1
        <5> QED
          BY <3>2, <4>1, <4>3
      <4>5. Kept(f, k)
        <5>1. f = [j \in 0 .. k |-> f[j]]
          OBVIOUS
        <5> HIDE DEF f, Step
        <5> QED
          BY <4>4, <5>1
      <4> QED
        BY <4>5
    <3> QED
      BY <3>1, <3>2
  <2>2. T = 0 .. n
    <3>1. \A k \in 0 .. n : (\A j \in 0 .. n : j < k => j \in T) => k \in T
      <4> HIDE DEF Kept
      <4> QED
        BY <2>1
    <3>2. T \in SUBSET (0 .. n)
      OBVIOUS
    <3> HIDE DEF T
    <3> QED
      BY <1>1, <3>1, <3>2, NoLeastWithout
  <2> HIDE DEF Kept
  <2> QED
    BY <1>1, <2>2
<1>3. \A k \in 0 .. n : F[k] = Step(F, k)
  <2>1. Kept(F, n)
    <3> HIDE DEF Kept
    <3> QED
      BY <1>2
  <2> HIDE DEF F, Step
  <2> QED
    BY <2>1
<1>4. WithoutAcks(stream) = F[n]
  BY DEF WithoutAcks
<1>5. F[0] = <<>>
  BY <1>1, <1>3
<1>6. \A k \in 1 .. n :
        F[k] = IF stream[k] = Ack THEN F[k - 1] ELSE Append(F[k - 1], stream[k])
  BY <1>1, <1>3
<1> HIDE DEF F
<1> QED
  BY <1>4, <1>5, <1>6

\* It leaves a sequence of what else there was.
LEMMA WithoutAcksType ==
  ASSUME NEW S, NEW stream \in Seq(S \cup {Ack})
  PROVE  WithoutAcks(stream) \in Seq(S)
<1> DEFINE n == Len(stream)
<1>1. n \in Nat /\ \A k \in 1 .. n : stream[k] \in S \cup {Ack}
  OBVIOUS
<1>2. PICK F : /\ WithoutAcks(stream) = F[n] /\ F[0] = <<>>
               /\ \A k \in 1 .. n :
                    F[k] = IF stream[k] = Ack THEN F[k - 1]
                                              ELSE Append(F[k - 1], stream[k])
  BY WithoutAcksUnfolds
<1> DEFINE T == {k \in 0 .. n : F[k] \in Seq(S)}
<1>3. \A k \in 0 .. n : (\A j \in 0 .. n : j < k => j \in T) => k \in T
  <2> SUFFICES ASSUME NEW k \in 0 .. n, \A j \in 0 .. n : j < k => j \in T
               PROVE  F[k] \in Seq(S)
    OBVIOUS
  <2>1. CASE k = 0
    <3>1. <<>> \in Seq(S)
      OBVIOUS
    <3>2. F[k] = <<>>
      BY <1>2, <2>1
    <3> QED
      BY <3>1, <3>2
  <2>2. CASE k # 0
    <3>1. k - 1 \in 0 .. n /\ F[k - 1] \in Seq(S) /\ stream[k] \in S \cup {Ack}
      BY <1>1, <2>2
    <3>2. F[k] = IF stream[k] = Ack THEN F[k - 1] ELSE Append(F[k - 1], stream[k])
      BY <1>2, <2>2
    <3> QED
      BY <3>1, <3>2
  <2> QED
    BY <2>1, <2>2
<1>4. T = 0 .. n
  <2>1. T \in SUBSET (0 .. n)
    OBVIOUS
  <2> HIDE DEF T
  <2> QED
    BY <1>1, <1>3, <2>1, NoLeastWithout
<1> QED
  BY <1>1, <1>2, <1>4

\* What it leaves of the streams there are: see Downlinked.
LEMMA AcksDropped ==
  /\ WithoutAcks(<<>>) = <<>> /\ WithoutAcks(<<Ack>>) = <<>>
  /\ \A m : m # Ack => /\ WithoutAcks(<<m>>) = <<m>>
                       /\ WithoutAcks(<<Ack, m>>) = <<m>>
                       /\ WithoutAcks(<<m, Ack>>) = <<m>>
<1>1. WithoutAcks(<<>>) = <<>>
  <2>1. <<>> \in Seq({}) /\ Len(<<>>) = 0
    OBVIOUS
  <2> QED
    BY <2>1, WithoutAcksUnfolds
<1>2. ASSUME NEW a
      PROVE  WithoutAcks(<<a>>) = IF a = Ack THEN <<>> ELSE <<a>>
  <2> DEFINE S == {a}
             s == <<a>>
  <2>1. s \in Seq(S) /\ Len(s) = 1 /\ s[1] = a /\ Append(<<>>, a) = <<a>>
    OBVIOUS
  <2> HIDE DEF s
  <2>2. PICK F : /\ WithoutAcks(s) = F[Len(s)] /\ F[0] = <<>>
                 /\ \A k \in 1 .. Len(s) :
                      F[k] = IF s[k] = Ack THEN F[k - 1] ELSE Append(F[k - 1], s[k])
    <3> HIDE DEF S
    <3> QED
      BY <2>1, WithoutAcksUnfolds
  <2>3. F[1] = IF s[1] = Ack THEN F[0] ELSE Append(F[0], s[1])
    <3>1. 1 \in 1 .. Len(s) /\ 1 - 1 = 0
      BY <2>1
    <3>2. F[1] = IF s[1] = Ack THEN F[1 - 1] ELSE Append(F[1 - 1], s[1])
      BY <2>2, <3>1, Zenon
    <3> QED
      BY <3>1, <3>2, Zenon
  <2> QED
    BY <2>1, <2>2, <2>3 DEF s
<1>3. ASSUME NEW a, NEW b
      PROVE  WithoutAcks(<<a, b>>) = IF b = Ack THEN WithoutAcks(<<a>>)
                                     ELSE Append(WithoutAcks(<<a>>), b)
  <2> DEFINE S == {a, b}
             s == <<a, b>>
  <2>1. s \in Seq(S) /\ Len(s) = 2 /\ s[1] = a /\ s[2] = b /\ Append(<<>>, a) = <<a>>
    OBVIOUS
  <2> HIDE DEF s
  <2>2. PICK F : /\ WithoutAcks(s) = F[Len(s)] /\ F[0] = <<>>
                 /\ \A k \in 1 .. Len(s) :
                      F[k] = IF s[k] = Ack THEN F[k - 1] ELSE Append(F[k - 1], s[k])
    <3> HIDE DEF S
    <3> QED
      BY <2>1, WithoutAcksUnfolds
  <2>3. /\ F[1] = IF s[1] = Ack THEN F[0] ELSE Append(F[0], s[1])
        /\ F[2] = IF s[2] = Ack THEN F[1] ELSE Append(F[1], s[2])
    <3>1. 1 \in 1 .. Len(s) /\ 2 \in 1 .. Len(s) /\ 1 - 1 = 0 /\ 2 - 1 = 1
      BY <2>1
    <3>2. /\ F[1] = IF s[1] = Ack THEN F[1 - 1] ELSE Append(F[1 - 1], s[1])
          /\ F[2] = IF s[2] = Ack THEN F[2 - 1] ELSE Append(F[2 - 1], s[2])
      BY <2>2, <3>1, Zenon
    <3> QED
      BY <3>1, <3>2, Zenon
  <2>4. F[1] = WithoutAcks(<<a>>)
    BY <1>2, <2>1, <2>2, <2>3
  <2> QED
    BY <2>1, <2>2, <2>3, <2>4 DEF s
<1>4. ASSUME NEW m, m # Ack
      PROVE  /\ WithoutAcks(<<m>>) = <<m>>
             /\ WithoutAcks(<<Ack, m>>) = <<m>>
             /\ WithoutAcks(<<m, Ack>>) = <<m>>
  <2>1. Append(<<>>, m) = <<m>>
    OBVIOUS
  <2> QED
    BY <1>2, <1>3, <1>4, <2>1
<1> QED
  BY <1>1, <1>2, <1>4

-----------------------------------------------------------------------------
(* From the microphone to the socket: what the watch does.                 *)

LEMMA CarriedTypes ==
  ASSUME Carried
  PROVE  /\ outbox \in WatchMessages \cup {NoMsg}
         /\ state = "OFF" => outbox = NoMsg
         /\ WP!Running => reqId \in ReqIds
         /\ uplink \in Seq(WatchMessages)
         /\ downlink \in Seq(PhoneMessages \cup {Ack})
         /\ spoken \in [ReqIds -> Texts]
         /\ phone.id \in ReqIds \cup {NoId}
         /\ phone.requests \in Seq([serial : Nat \ {0}, id : ReqIds, transcript : Texts])
         /\ \A i \in DOMAIN phone.requests :
              phone.requests[i].id \in ReqIds /\ phone.requests[i].transcript \in Texts
<1>1. /\ outbox \in WatchMessages \cup {NoMsg}
      /\ state = "OFF" => outbox = NoMsg
      /\ WP!Running => reqId \in ReqIds
      /\ uplink \in Seq(WatchMessages)
      /\ downlink \in Seq(PhoneMessages \cup {Ack})
      /\ spoken \in [ReqIds -> Texts]
      /\ phone.id \in ReqIds \cup {NoId}
      /\ phone.requests \in Seq([serial : Nat \ {0}, id : ReqIds, transcript : Texts])
  BY OneProtocol
     DEF Carried, TypeOK, WP!IInv, WP!TypeOK, WP!OutboxMatchesPhase, WP!Running,
         PP!IInv, PP!Sound, PP!Core, PP!Phones
<1> DEFINE S == [serial : Nat \ {0}, id : ReqIds, transcript : Texts]
<1>2. \A i \in DOMAIN phone.requests : phone.requests[i] \in S
  <2> HIDE DEF S
  <2>1. phone.requests \in Seq(S)
    BY <1>1 DEF S
  <2> QED
    BY <2>1
<1>3. \A q \in S : q.id \in ReqIds /\ q.transcript \in Texts
  OBVIOUS
<1> HIDE DEF S
<1> QED
  BY <1>1, <1>2, <1>3

LEMMA MessageTypes ==
  /\ NoMsg.type = "NONE"
  /\ \A r : SessionBegin(r).type = "SESSION_BEGIN" /\ SessionBegin(r).id = r
  /\ \A r, i, t : LET m == TranscriptChunk(r, i, t)
                  IN  /\ m.type = "TRANSCRIPT_CHUNK" /\ m.id = r /\ m.index = i
                      /\ m.count = Len(t) /\ m.total = Len(t) /\ m.text = <<t[i + 1]>>
BY DEF NoMsg, SessionBegin, TranscriptChunk

\* What a callback of the watch keeps that neither starts a run nor hears the
\* user speak.
Keeping ==
  /\ UNCHANGED <<reqId, used>>
  /\ state' = "DICTATING" => state = "DICTATING"
  /\ state' # "OFF" => state # "OFF"
  /\ WP!Transferring' => WP!Transferring /\ UNCHANGED transcript
  /\ WP!Posts

LEMMA KeepingCarried ==
  ASSUME Carried, Keeping, WP!IInv', TypeOK', SentIsHeld',
         sent' = sent \/ outbox'.type # "SESSION_BEGIN",
         UNCHANGED <<phone, heard, uplink, spoken>>
  PROVE  Carried'
<1>1. PP!IInv'
  BY DEF Carried, PP!IInv
<1>2. \/ outbox' = outbox
      \/ outbox' = NoMsg
      \/ outbox'.type = "SESSION_END" /\ outbox'.id = reqId
      \/ /\ WP!Transferring /\ transcript' = transcript /\ WP!Transferring'
         /\ outbox' = TranscriptChunk(reqId, nextChunk', transcript)
  BY OneProtocol DEF Keeping, WP!Posts, WP!TranscriptChunk, TranscriptChunk
<1>3. outbox' # NoMsg => state' # "OFF"
  BY OneProtocol DEF WP!IInv, WP!OutboxMatchesPhase, WP!Running
<1>4. Known'
  BY <1>2, <1>3, MessageTypes DEF Carried, Known, Keeping
<1>5. BeginsOnce'
  <2>1. outbox'.type = "SESSION_BEGIN" => outbox' = outbox
    BY <1>2, MessageTypes
  <2> QED
    BY <2>1 DEF Carried, BeginsOnce, Begun, PP!Waiting
<1>6. TrueToSpeech'
  <2>1. WP!Transferring => transcript = spoken[reqId] /\ transcript # <<>>
    <3>1. WP!Transferring => nextChunk < Len(transcript) /\ nextChunk \in Nat
      BY DEF Carried, WP!IInv, WP!TypeOK, WP!OutboxMatchesPhase, WP!Transferring
    <3>2. Len(<<>>) = 0
      OBVIOUS
    <3> QED
      BY <3>1, <3>2 DEF Carried, TrueToSpeech
  <2>2. Quotes(outbox)'
    BY <1>2, <2>1, MessageTypes DEF Carried, TrueToSpeech, Quotes
  <2>3. /\ \A i \in DOMAIN uplink' : Quotes(uplink[i])'
        /\ \A i \in DOMAIN heard' : (heard[i].type = "TRANSCRIPT_CHUNK" /\ Quotes(heard[i]))'
    BY DEF Carried, TrueToSpeech, Quotes
  <2>4. /\ (state = "DICTATING" => spoken[reqId] = <<>>)'
        /\ (WP!Transferring => transcript = spoken[reqId])'
    BY <2>1 DEF Carried, TrueToSpeech, Keeping
  <2>5. \A i \in DOMAIN phone'.requests :
          /\ phone'.requests[i].transcript = spoken'[phone'.requests[i].id]
          /\ phone'.requests[i].transcript # <<>>
    BY DEF Carried, TrueToSpeech
  <2> QED
    BY <2>2, <2>3, <2>4, <2>5 DEF TrueToSpeech
<1>7. Distinct'
  BY DEF Carried, Distinct
<1> QED
  BY <1>1, <1>4, <1>5, <1>6, <1>7 DEF Carried

LEMMA SteadyKeeping ==
  ASSUME WP!Steady
  PROVE  Keeping
BY DEF WP!Steady, Keeping

\* A callback that finds the outbox full leaves it so.
LEMMA WaitingCarried ==
  ASSUME Carried, Keeping, WP!Waits, WP!IInv', TypeOK',
         UNCHANGED <<phone, heard, uplink, sent, spoken>>
  PROVE  Carried'
<1>1. SentIsHeld'
  BY OneProtocol DEF Carried, SentIsHeld, WP!Waits
<1> QED
  BY <1>1, KeepingCarried

\* What is new in the outbox, in the texts or in the runs is of the new run.
LEMMA LaunchCarried ==
  ASSUME Carried, NEW r \in ReqIds, W!LaunchAborted(r) \/ W!Launch(r), TypeOK',
         UNCHANGED <<phone, heard, uplink, sent, spoken>>
  PROVE  Carried'
<1>1. WP!IInv /\ (WP!LaunchAborted(r) \/ WP!Launch(r))
  BY SameWatch DEF Carried
<1>2. WP!IInv'
  BY <1>1, WatchAssumptions, WP!LaunchAbortedKeepsIInv, WP!LaunchKeepsIInv
<1>3. /\ state = "OFF" /\ r \notin used /\ used' = used \cup {r} /\ outbox = NoMsg
      /\ \/ UNCHANGED <<state, outbox>>
         \/ /\ state' \in {"DICTATING", "ERROR"} /\ reqId' = r
            /\ \/ outbox' = NoMsg
               \/ outbox' = SessionBegin(r)
               \/ outbox'.type = "SESSION_END" /\ outbox'.id = r
  BY <1>1, WatchAssumptions, WP!LaunchSteady, OneProtocol DEF WP!SessionBegin, SessionBegin
<1>4. ~sent /\ ~sent'
  BY <1>3 DEF Carried, SentIsHeld
<1>5. PP!IInv'
  BY DEF Carried, PP!IInv
<1>6. Known'
  BY <1>3, MessageTypes DEF Carried, Known
<1>7. BeginsOnce'
  <2>1. ~Begun(r) /\ \A i \in DOMAIN uplink : uplink[i].id # r
    BY <1>3, NoIdAssumption DEF Carried, Known, Begun
  <2>2. outbox'.type = "SESSION_BEGIN" =>
          outbox'.id = r /\ \A i \in DOMAIN uplink : uplink[i] # outbox'
    BY <1>3, <2>1, MessageTypes
  <2> QED
    BY <2>1, <2>2 DEF Carried, BeginsOnce, Begun, PP!Waiting
<1>8. TrueToSpeech'
  <2>1. spoken[r] = <<>>
    BY <1>3 DEF Carried, Known
  <2>2. /\ (state = "DICTATING" => spoken[reqId] = <<>>)'
        /\ ~WP!Transferring'
    BY <1>3, <2>1 DEF WP!Transferring
  <2>3. Quotes(outbox)'
    BY <1>3, MessageTypes DEF Quotes
  <2>4. /\ \A i \in DOMAIN uplink' : Quotes(uplink[i])'
        /\ \A i \in DOMAIN heard' : (heard[i].type = "TRANSCRIPT_CHUNK" /\ Quotes(heard[i]))'
        /\ \A i \in DOMAIN phone'.requests :
             /\ phone'.requests[i].transcript = spoken'[phone'.requests[i].id]
             /\ phone'.requests[i].transcript # <<>>
    BY DEF Carried, TrueToSpeech, Quotes
  <2> QED
    BY <2>2, <2>3, <2>4 DEF TrueToSpeech
<1>9. Distinct' /\ SentIsHeld'
  BY <1>4 DEF Carried, Distinct, SentIsHeld
<1> QED
  BY <1>2, <1>5, <1>6, <1>7, <1>8, <1>9 DEF Carried

\* A run is spoken in once: whatever quotes what was spoken stays true.
LEMMA DictatedCarried ==
  ASSUME Carried, NEW t \in Transcripts, W!DictationSucceeds(t), TypeOK',
         spoken' = [spoken EXCEPT ![reqId] = t],
         UNCHANGED <<phone, heard, uplink, sent>>
  PROVE  Carried' /\ \A r : spoken[r] # <<>> => r # reqId
<1>1. WP!IInv /\ WP!DictationSucceeds(t)
  BY SameWatch DEF Carried
<1>2. WP!IInv'
  BY <1>1, WatchAssumptions, WP!DictationSucceedsKeepsIInv
<1>3. /\ UNCHANGED <<reqId, used>> /\ WP!Posts /\ WP!Waits
      /\ state = "DICTATING" /\ state' \in {"BRIDGING", "ERROR"}
      /\ WP!Transferring' => transcript' = t
  BY <1>1, WatchAssumptions, WP!DictationSucceedsSteady
<1>4. t # <<>> /\ reqId \in ReqIds /\ reqId \in used /\ spoken[reqId] = <<>>
  BY <1>3, SystemAssumption, CarriedTypes
     DEF Carried, Known, TrueToSpeech, WP!Running
<1>5. /\ spoken'[reqId] = t
      /\ \A r : spoken[r] # <<>> => r # reqId
      /\ \A r \in ReqIds : spoken[r] # <<>> => spoken'[r] = spoken[r]
      /\ \A r \in ReqIds \ used : spoken'[r] = spoken[r]
  BY <1>4, CarriedTypes
<1>6. \/ outbox' = outbox
      \/ outbox = NoMsg /\ outbox' = NoMsg
      \/ outbox = NoMsg /\ outbox'.type = "SESSION_END" /\ outbox'.id = reqId
      \/ outbox = NoMsg /\ outbox' = TranscriptChunk(reqId, nextChunk', t)
  BY <1>3, OneProtocol DEF WP!Posts, WP!Waits, WP!TranscriptChunk, TranscriptChunk
<1>7. PP!IInv'
  BY DEF Carried, PP!IInv
<1>8. Known'
  BY <1>3, <1>4, <1>5, <1>6, MessageTypes DEF Carried, Known
<1>9. BeginsOnce'
  <2>1. outbox'.type = "SESSION_BEGIN" => outbox' = outbox
    BY <1>6, MessageTypes
  <2> QED
    BY <2>1 DEF Carried, BeginsOnce, Begun, PP!Waiting
<1>10. \A m \in WatchMessages : Quotes(m) => Quotes(m)'
  <2>1. \A m \in WatchMessages : m.id \in ReqIds
    BY DEF WatchMessages
  <2> QED
    BY <1>5, <2>1 DEF Quotes
<1>11. TrueToSpeech'
  <2>1. Quotes(outbox)'
    <3>1. CASE outbox' = outbox /\ outbox \in WatchMessages
      BY <1>10, <3>1 DEF Carried, TrueToSpeech, Quotes
    <3>2. CASE outbox' = TranscriptChunk(reqId, nextChunk', t)
      BY <1>3, <1>4, <1>5, <3>2, MessageTypes DEF Quotes
    <3>3. CASE outbox'.type = "SESSION_END" \/ outbox' = NoMsg
      BY <3>3, MessageTypes DEF Quotes
    <3> QED
      BY <1>6, <3>1, <3>2, <3>3, CarriedTypes
  <2>2. \A i \in DOMAIN uplink' : Quotes(uplink[i])'
    <3>1. \A i \in DOMAIN uplink : uplink[i] \in WatchMessages /\ Quotes(uplink[i])
      BY CarriedTypes DEF Carried, TrueToSpeech
    <3> QED
      BY <1>10, <3>1 DEF Quotes
  <2>3. \A i \in DOMAIN heard' : (heard[i].type = "TRANSCRIPT_CHUNK" /\ Quotes(heard[i]))'
    <3>1. \A i \in DOMAIN heard : heard[i] \in WatchMessages
      BY OneProtocol DEF Carried, PP!IInv, PP!Heard
    <3> QED
      BY <1>10, <3>1 DEF Carried, TrueToSpeech, Quotes
  <2>4. \A i \in DOMAIN phone'.requests :
          /\ phone'.requests[i].transcript = spoken'[phone'.requests[i].id]
          /\ phone'.requests[i].transcript # <<>>
    <3>1. \A i \in DOMAIN phone.requests : phone.requests[i].id \in ReqIds
      BY CarriedTypes
    <3> QED
      BY <1>5, <3>1 DEF Carried, TrueToSpeech
  <2>5. /\ ~(state' = "DICTATING")
        /\ WP!Transferring' => transcript' = spoken'[reqId']
    BY <1>3, <1>5
  <2> QED
    BY <2>1, <2>2, <2>3, <2>4, <2>5 DEF TrueToSpeech
<1>12. Distinct' /\ SentIsHeld'
  BY <1>6 DEF Carried, Distinct, SentIsHeld
<1> QED
  BY <1>2, <1>5, <1>7, <1>8, <1>9, <1>11, <1>12 DEF Carried

\* A run starts, or the user speaks, or the run goes on as it is or fails.
LEMMA WatchStepCases ==
  ASSUME Carried, WatchStep
  PROVE  \/ \E r \in ReqIds : (W!LaunchAborted(r) \/ W!Launch(r)) /\ UNCHANGED spoken
         \/ \E t \in Transcripts :
              W!DictationSucceeds(t) /\ spoken' = [spoken EXCEPT ![reqId] = t]
         \/ /\ WP!Steady /\ WP!Waits /\ WP!IInv' /\ UNCHANGED spoken
            /\ WP!Halts /\ WP!Blameless
<1>1. CASE (\E s \in DictationErrors : W!DictationFails(s)) /\ UNCHANGED spoken
  <2>1. PICK s \in WP!StatusCodes : WP!DictationFails(s)
    BY <1>1, SameWatch, SystemAssumption DEF StatusCodes, WP!StatusCodes
  <2> QED
    BY <1>1, <2>1, WatchAssumptions, WP!DictationFailsSteady, WP!DictationFailsHalts,
       WP!DictationFailsKeepsIInv DEF Carried
<1>2. CASE (WatchTimeout \/ W!ExitTimeout) /\ UNCHANGED spoken
  <2>1. WP!TimerFires
    BY <1>2, SameWatch DEF WatchTimeout, WP!TimerFires
  <2> QED
    BY <1>2, <2>1, WatchAssumptions, WP!UserAndTimersSteady, WP!UserAndTimersHalt,
       WP!TimerFiresKeepsIInv DEF Carried
<1>3. CASE (W!TransitionComplete \/ W!Click) /\ UNCHANGED spoken
  <2>1. WP!TransitionComplete \/ WP!Click
    BY <1>3, SameWatch
  <2> QED
    BY <1>3, <2>1, WatchAssumptions, WP!UserAndTimersSteady, WP!UserAndTimersHalt,
       WP!TransitionCompleteKeepsIInv, WP!ClickKeepsIInv DEF Carried
<1> QED
  BY <1>1, <1>2, <1>3 DEF WatchStep, DictationEnds, Dictated, Launch, ExitTimeout

LEMMA WatchStepCarried ==
  ASSUME Carried, WatchStep
  PROVE  Carried'
<1>1. /\ UNCHANGED <<phone, heard, uplink, downlink, sent, push>>
      /\ losses' \in 0 .. MaxLosses
  <2>1. losses' \in {losses, losses + 1} /\ (losses' # losses => losses < MaxLosses)
    BY DEF WatchStep, ExitTimeout
  <2> QED
    BY <2>1, SystemAssumption DEF WatchStep, phoneVars, Carried, TypeOK
<1>2. UNCHANGED spoken => TypeOK'
  BY <1>1 DEF Carried, TypeOK
<1>3. CASE \E r \in ReqIds : (W!LaunchAborted(r) \/ W!Launch(r)) /\ UNCHANGED spoken
  BY <1>1, <1>2, <1>3, LaunchCarried
<1>4. CASE \E t \in Transcripts :
             W!DictationSucceeds(t) /\ spoken' = [spoken EXCEPT ![reqId] = t]
  <2>1. PICK t \in Transcripts :
               W!DictationSucceeds(t) /\ spoken' = [spoken EXCEPT ![reqId] = t]
    BY <1>4
  <2>2. spoken' \in [ReqIds -> Texts]
    BY <2>1, SystemAssumption DEF Carried, TypeOK
  <2>3. TypeOK'
    BY <1>1, <2>2 DEF Carried, TypeOK
  <2> QED
    BY <1>1, <2>1, <2>3, DictatedCarried
<1>5. CASE WP!Steady /\ WP!Waits /\ WP!IInv' /\ UNCHANGED spoken
  BY <1>1, <1>2, <1>5, SteadyKeeping, WaitingCarried
<1> QED
  BY <1>3, <1>4, <1>5, WatchStepCases

LEMMA AppEndsCarried ==
  ASSUME Carried, AppEnds
  PROVE  Carried'
<1>1. WP!IInv /\ WP!Deinit
  BY SameWatch DEF Carried, AppEnds
<1>2. WP!IInv'
  BY <1>1, WatchAssumptions, WP!DeinitKeepsIInv
<1>3. Keeping /\ outbox' = NoMsg
  BY <1>1, OneProtocol
     DEF WP!Deinit, WP!Running, WP!Transferring, WP!Posts, Keeping
<1>4. UNCHANGED <<phone, heard, uplink, push, losses, spoken>> /\ ~sent'
  BY DEF AppEnds, phoneVars
<1>5. downlink' \in Seq(PhoneMessages \cup {Ack})
  <2>1. downlink' \in Seq(PhoneMessages)
    BY CarriedTypes, WithoutAcksType DEF AppEnds
  <2> QED
    BY <2>1, PhoneAssumptions, PP!SeqMonotone
<1>6. TypeOK' /\ SentIsHeld'
  BY <1>4, <1>5 DEF Carried, TypeOK, SentIsHeld, AppEnds
<1> QED
  BY <1>2, <1>3, <1>4, <1>6, MessageTypes, KeepingCarried

-----------------------------------------------------------------------------
(* From the microphone to the socket: what the link does.                  *)

\* SESSION_BEGIN is of one run.
LEMMA SameBegin ==
  \A m, n \in WatchMessages :
    m.type = "SESSION_BEGIN" /\ n.type = "SESSION_BEGIN" /\ m.id = n.id => m = n
BY DEF WatchMessages

LEMMA TransmitCarried ==
  ASSUME Carried, Transmit
  PROVE  Carried'
<1>1. /\ UNCHANGED <<phone, heard, push, losses, spoken>>
      /\ outbox # NoMsg /\ ~sent /\ sent'
      /\ uplink' = Append(uplink, outbox) /\ downlink' = Append(downlink, Ack)
  BY OneProtocol DEF Transmit, phoneVars
<1>2. /\ UNCHANGED WP!watchVars
      /\ UNCHANGED <<state, reqId, used, watchPhone, transcript, outbox>>
  BY DEF Transmit, watchVars, WP!watchVars, WP!appVars, WP!bridgeVars,
         WP!deliveryVars, WP!uiVars
<1>3. WP!IInv'
  BY <1>2, WatchAssumptions, WP!StutterKeepsIInv DEF Carried
<1>4. PP!IInv'
  BY <1>1 DEF Carried, PP!IInv
<1> DEFINE n == Len(uplink)
<1>5. outbox \in WatchMessages
  BY <1>1, CarriedTypes
<1>6. /\ n \in Nat /\ uplink' \in Seq(WatchMessages) /\ DOMAIN uplink' = 1 .. n + 1
      /\ DOMAIN uplink = 1 .. n
      /\ uplink'[n + 1] = outbox /\ \A i \in 1 .. n : uplink'[i] = uplink[i]
  <2>1. uplink \in Seq(WatchMessages)
    BY CarriedTypes
  <2> QED
    BY <1>1, <1>5, <2>1, PhoneAssumptions, PP!AppendFacts
<1> HIDE DEF n
<1>7. \A i \in 1 .. n + 1 : i = n + 1 \/ i \in 1 .. n
  BY <1>6
<1>8. TypeOK'
  <2>1. downlink' \in Seq(PhoneMessages \cup {Ack})
    BY <1>1, CarriedTypes
  <2> QED
    BY <1>1, <1>6, <2>1 DEF Carried, TypeOK
<1>9. Known'
  BY <1>1, <1>2, <1>6, <1>7 DEF Carried, Known
<1>10. BeginsOnce'
  <2>1. \A i \in DOMAIN uplink' : uplink'[i].type = "SESSION_BEGIN" =>
          /\ ~Begun(uplink'[i].id)
          /\ \A j \in DOMAIN uplink' : uplink'[j] = uplink'[i] => j = i
    BY <1>1, <1>6, <1>7 DEF Carried, BeginsOnce
  <2> QED
    BY <1>1, <2>1 DEF Carried, BeginsOnce, Begun, PP!Waiting
<1>11. TrueToSpeech'
  <2>1. \A i \in DOMAIN uplink' : Quotes(uplink'[i])
    BY <1>6, <1>7 DEF Carried, TrueToSpeech
  <2>2. /\ state = "DICTATING" => spoken[reqId] = <<>>
        /\ WP!Transferring => transcript = spoken[reqId]
        /\ Quotes(outbox)
        /\ \A i \in DOMAIN heard : heard[i].type = "TRANSCRIPT_CHUNK" /\ Quotes(heard[i])
        /\ \A i \in DOMAIN phone.requests :
             /\ phone.requests[i].transcript = spoken[phone.requests[i].id]
             /\ phone.requests[i].transcript # <<>>
    BY DEF Carried, TrueToSpeech
  <2> QED
    BY <1>1, <1>2, <2>1, <2>2 DEF TrueToSpeech, Quotes, WP!Transferring
<1>12. Distinct' /\ SentIsHeld'
  BY <1>1, <1>2 DEF Carried, Distinct, SentIsHeld
<1> QED
  BY <1>3, <1>4, <1>8, <1>9, <1>10, <1>11, <1>12 DEF Carried

LEMMA OutboxCarried ==
  ASSUME Carried, AckArrives \/ OutboxLost
  PROVE  Carried'
<1>1. WP!IInv /\ (WP!OutboxSent \/ WP!OutboxFailed)
  BY SameWatch DEF Carried, AckArrives, OutboxLost
<1>2. WP!IInv' /\ WP!Steady /\ outbox'.type # "SESSION_BEGIN"
  BY <1>1, WatchAssumptions, WP!OutboxSteady, WP!OutboxSentKeepsIInv,
     WP!OutboxFailedKeepsIInv
<1>3. UNCHANGED <<phone, heard, uplink, push, spoken>> /\ sent' = FALSE
  BY DEF AckArrives, OutboxLost, phoneVars
<1>4. downlink' \in Seq(PhoneMessages \cup {Ack}) /\ losses' \in 0 .. MaxLosses
  <2>1. CASE AckArrives
    BY <2>1, CarriedTypes DEF AckArrives, Carried, TypeOK
  <2>2. CASE OutboxLost
    <3>1. downlink' \in Seq(PhoneMessages)
      BY <2>2, CarriedTypes, WithoutAcksType DEF OutboxLost
    <3>2. downlink' \in Seq(PhoneMessages \cup {Ack})
      BY <3>1, PhoneAssumptions, PP!SeqMonotone
    <3> QED
      BY <2>2, <3>2, SystemAssumption DEF OutboxLost, Carried, TypeOK
  <2> QED
    BY <2>1, <2>2
<1>5. TypeOK' /\ SentIsHeld'
  BY <1>3, <1>4 DEF Carried, TypeOK, SentIsHeld
<1> QED
  BY <1>2, <1>3, <1>5, SteadyKeeping, KeepingCarried

\* The message at the head of the stream, and what follows it.
LEMMA HeadOfDownlink ==
  ASSUME Carried, downlink # <<>>
  PROVE  /\ Head(downlink) # Ack => Head(downlink) \in PhoneMessages
         /\ Tail(downlink) \in Seq(PhoneMessages \cup {Ack})
BY CarriedTypes

\* Nothing else than the stream and the fate of its messages changes.
LEMMA StreamCarried ==
  ASSUME Carried, TypeOK',
         UNCHANGED <<watchVars, phoneVars, uplink, sent, spoken>>
  PROVE  Carried'
<1>1. UNCHANGED WP!watchVars
  BY DEF watchVars, WP!watchVars, WP!appVars, WP!bridgeVars, WP!deliveryVars,
         WP!uiVars
<1>2. WP!IInv'
  BY <1>1, WatchAssumptions, WP!StutterKeepsIInv DEF Carried
<1>3. Keeping /\ WP!Waits
  BY DEF watchVars, Keeping, WP!Posts, WP!Transferring, WP!Waits
<1> QED
  BY <1>2, <1>3, WaitingCarried DEF phoneVars

LEMMA PushArrivesCarried ==
  ASSUME Carried, PushArrives
  PROVE  Carried'
<1>1. /\ UNCHANGED <<phone, heard, uplink, sent, losses, spoken>>
      /\ downlink' = Tail(downlink) /\ Head(downlink) \in PhoneMessages
      /\ push' \in {"idle", "delivered", "failed"}
  BY HeadOfDownlink DEF PushArrives, phoneVars, Reported
<1>2. TypeOK'
  BY <1>1, HeadOfDownlink DEF PushArrives, Carried, TypeOK
<1>3. CASE UNCHANGED watchVars
  BY <1>1, <1>2, <1>3, StreamCarried DEF phoneVars
<1>4. CASE W!InboxReceived(Head(downlink))
  <2>1. WP!IInv /\ WP!InboxReceived(Head(downlink))
    BY <1>4, SameWatch DEF Carried
  <2>2. WP!IInv' /\ WP!Waits
        /\ \/ WP!Steady \/ WP!StartsToAwait(Head(downlink))
           \/ WP!TakesPiece(Head(downlink))
    BY <1>1, <2>1, WatchAssumptions, WP!InboxSteady, WP!InboxReceivedKeepsIInv
  <2>3. Keeping
    <3>1. CASE WP!StartsToAwait(Head(downlink))
      BY <3>1 DEF WP!StartsToAwait, Keeping, WP!Transferring, WP!Posts
    <3>2. CASE WP!TakesPiece(Head(downlink))
      BY <3>2 DEF WP!TakesPiece, Keeping, WP!Transferring, WP!Posts
    <3> QED
      BY <2>2, <3>1, <3>2, SteadyKeeping
  <2> QED
    BY <1>1, <1>2, <2>2, <2>3, WaitingCarried
<1> QED
  BY <1>3, <1>4 DEF PushArrives

LEMMA PushLostCarried ==
  ASSUME Carried, PushLost
  PROVE  Carried'
<1>1. /\ UNCHANGED <<phone, heard, uplink, sent, spoken>>
      /\ downlink' = Tail(downlink) /\ losses < MaxLosses /\ losses' = losses + 1
      /\ push' \in {"idle", "failed"}
  BY DEF PushLost, phoneVars, Reported
<1>2. TypeOK'
  BY <1>1, HeadOfDownlink, SystemAssumption DEF PushLost, Carried, TypeOK
<1>3. CASE UNCHANGED watchVars
  BY <1>1, <1>2, <1>3, StreamCarried DEF phoneVars
<1>4. CASE W!InboxDropped
  <2>1. WP!IInv /\ WP!InboxDropped
    BY <1>4, SameWatch DEF Carried
  <2>2. WP!IInv' /\ WP!Steady /\ WP!Waits
    BY <2>1, WatchAssumptions, WP!UserAndTimersSteady, WP!InboxDroppedKeepsIInv
  <2> QED
    BY <1>1, <1>2, <2>2, SteadyKeeping, WaitingCarried
<1> QED
  BY <1>3, <1>4 DEF PushLost

LEMMA PushCarried ==
  ASSUME Carried, Push \/ PushAckLost
  PROVE  Carried'
<1>1. CASE Push
  <2>1. phone.inflight.msg \in PhoneMessages
    <3>1. phone.inflight \in PP!Entries
      BY <1>1, OneProtocol DEF Push, Carried, PP!IInv, PP!Sound, PP!Core, PP!Phones
    <3> QED
      BY <3>1, OneProtocol DEF PP!Entries
  <2>2. TypeOK'
    BY <1>1, <2>1, CarriedTypes DEF Push, Carried, TypeOK
  <2> QED
    BY <1>1, <2>2, StreamCarried DEF Push
<1>2. CASE PushAckLost
  <2>1. TypeOK'
    BY <1>2, SystemAssumption DEF PushAckLost, Carried, TypeOK
  <2> QED
    BY <1>2, <2>1, StreamCarried DEF PushAckLost
<1> QED
  BY <1>1, <1>2

-----------------------------------------------------------------------------
(* From the microphone to the socket: what the phone does.                 *)

\* Chunks of what was spoken, all of them and in order, make up what was
\* spoken.
LEMMA ExactRequest ==
  ASSUME Carried, NEW r \in ReqIds, NEW t \in Texts,
         NEW h \in Seq(WatchMessages), h # <<>>,
         \A i \in DOMAIN h :
           /\ h[i].type = "TRANSCRIPT_CHUNK" /\ Quotes(h[i])
           /\ h[i].id = r /\ h[i].index = i - 1
           /\ h[i].count = Len(h) /\ h[i].total = Len(t),
         PP!Concatenates(t, h)
  PROVE  t = spoken[r] /\ t # <<>>
<1> DEFINE u == spoken[r]
<1>1. u \in Texts /\ Len(h) \in Nat \ {0} /\ DOMAIN h = 1 .. Len(h)
  BY CarriedTypes
<1>2. \A i \in DOMAIN h : /\ u # <<>> /\ h[i] = TranscriptChunk(r, i - 1, u)
                         /\ h[i].count = Len(h) /\ h[i].total = Len(t)
  BY DEF Quotes
<1> HIDE DEF u
<1>3. u # <<>> /\ Len(h) = Len(u) /\ Len(t) = Len(u)
  <2>1. 1 \in DOMAIN h
    BY <1>1
  <2> QED
    BY <1>2, <2>1, MessageTypes
<1>4. \A i \in DOMAIN h : h[i].text = <<u[i]>>
  <2> SUFFICES ASSUME NEW i \in DOMAIN h PROVE h[i].text = <<u[i]>>
    OBVIOUS
  <2>1. h[i].text = <<u[i - 1 + 1]>>
    BY <1>2, MessageTypes
  <2>2. i - 1 + 1 = i
    BY <1>1
  <2> QED
    BY <2>1, <2>2
<1>5. t = u
  BY <1>1, <1>3, <1>4, PhoneAssumptions, OneProtocol, PP!ExactTranscript
<1> QED
  BY <1>3, <1>5 DEF u

\* If the requests change, the session of the phone has asked for the first
\* time, and what was spoken.
AsksOnce ==
  phone'.requests # phone.requests =>
    /\ DOMAIN phone.requests \subseteq DOMAIN phone'.requests
    /\ \A i \in DOMAIN phone.requests : phone'.requests[i] = phone.requests[i]
    /\ \E i \in DOMAIN phone'.requests :
         /\ DOMAIN phone'.requests = DOMAIN phone.requests \cup {i}
         /\ phone'.requests[i].id = phone.id
         /\ phone'.requests[i].transcript = spoken[phone.id]
    /\ phone.id \in ReqIds /\ spoken[phone.id] # <<>>
    /\ \A i \in DOMAIN phone.requests : phone.requests[i].id # phone.id

\* A session that goes on, or ends, asks what was spoken or asks nothing.
LEMMA PhoneCarried ==
  ASSUME Carried, PP!Keeps, PP!Stays(phone, phone'), TypeOK',
         \A i \in DOMAIN heard' :
           heard'[i].type = "TRANSCRIPT_CHUNK" /\ Quotes(heard'[i]),
         NEW k \in {0, 1},
         \A i \in DOMAIN uplink' : i + k \in DOMAIN uplink /\ uplink'[i] = uplink[i + k],
         UNCHANGED <<watchVars, sent, spoken>>
  PROVE  Carried' /\ AsksOnce
<1> DEFINE n == Len(phone.requests)
           old == phone.requests
           new == phone'.requests
           r == new[n + 1]
<1>1. UNCHANGED WP!watchVars
      /\ UNCHANGED <<state, reqId, used, watchPhone, transcript, outbox>>
  BY DEF watchVars, WP!watchVars, WP!appVars, WP!bridgeVars, WP!deliveryVars,
         WP!uiVars
<1>2. WP!IInv'
  BY <1>1, WatchAssumptions, WP!StutterKeepsIInv DEF Carried
<1>3. PP!IInv' /\ phone'.id = phone.id /\ (PP!Waiting(phone') => PP!Waiting(phone))
      /\ phone \in PP!Phones /\ phone' \in PP!Phones /\ heard' \in Seq(WatchMessages)
  BY OneProtocol
     DEF PP!Keeps, PP!Stays, Carried, PP!IInv, PP!Sound, PP!Core, PP!Heard
<1>4. ASSUME new # old
      PROVE  /\ n \in Nat /\ DOMAIN old = 1 .. n /\ DOMAIN new = 1 .. n + 1
             /\ \A i \in 1 .. n : new[i] = old[i]
             /\ r.id = phone.id /\ r.transcript = spoken[phone.id] /\ r.transcript # <<>>
             /\ phone.id \in ReqIds
             /\ ~PP!Waiting(phone')
             /\ \A i \in DOMAIN old : old[i].id # phone.id
  <2>1. PP!Waiting(phone) /\ ~PP!Waiting(phone')
    BY <1>4 DEF PP!Stays
  <2>2. phone.id \in ReqIds /\ \A i \in DOMAIN old : old[i].id # phone.id
    BY <2>1 DEF Carried, BeginsOnce, PP!IInv, PP!Sound, PP!Core, PP!Waiting
  <2>3. /\ n \in Nat /\ DOMAIN old = 1 .. n /\ DOMAIN new = 1 .. n + 1
        /\ \A i \in 1 .. n : new[i] = old[i]
        /\ r.id = phone.id /\ r.transcript \in Texts /\ heard' # <<>>
        /\ \A i \in DOMAIN heard' :
             /\ heard'[i].id = r.id /\ heard'[i].index = i - 1
             /\ heard'[i].count = Len(heard') /\ heard'[i].total = Len(r.transcript)
        /\ PP!Concatenates(r.transcript, heard')
    <3>1. PP!Whole(phone, phone', heard')
      BY DEF PP!Keeps
    <3> QED
      BY <1>3, <1>4, <3>1, PhoneAssumptions, OneProtocol, PP!NewRequest
  <2> HIDE DEF r
  <2>4. r.transcript = spoken[phone.id] /\ r.transcript # <<>>
    <3> DEFINE h == heard'
               t == r.transcript
    <3>1. /\ t \in Texts /\ h \in Seq(WatchMessages) /\ h # <<>>
          /\ \A i \in DOMAIN h :
               /\ h[i].type = "TRANSCRIPT_CHUNK" /\ Quotes(h[i])
               /\ h[i].id = phone.id /\ h[i].index = i - 1
               /\ h[i].count = Len(h) /\ h[i].total = Len(t)
          /\ PP!Concatenates(t, h)
      BY <1>3, <2>3
    <3> HIDE DEF h, t
    <3>2. t = spoken[phone.id] /\ t # <<>>
      BY <2>2, <3>1, ExactRequest
    <3> QED
      BY <3>2 DEF t
  <2> QED
    BY <2>1, <2>2, <2>3, <2>4
<1>5. Known'
  <2>1. \A i \in DOMAIN new : new[i].id \in used
    <3>1. phone.id \in ReqIds => phone.id \in used
      BY NoIdAssumption DEF Carried, Known
    <3> QED
      BY <1>4, <3>1 DEF Carried, Known
  <2>2. \A i \in DOMAIN uplink' : uplink'[i].id \in used
    BY DEF Carried, Known
  <2> QED
    BY <1>1, <1>3, <2>1, <2>2 DEF Carried, Known
<1>6. BeginsOnce'
  <2>1. \A b : Begun(b)' => Begun(b)
    BY <1>3, <1>4 DEF Begun
  <2>2. outbox.type = "SESSION_BEGIN" /\ ~sent =>
          /\ ~Begun(outbox.id)'
          /\ \A i \in DOMAIN uplink' : uplink'[i] # outbox
    BY <1>1, <2>1 DEF Carried, BeginsOnce
  <2>3. \A i \in DOMAIN uplink' : uplink'[i].type = "SESSION_BEGIN" =>
          /\ ~Begun(uplink[i].id)'
          /\ \A j \in DOMAIN uplink' : uplink'[j] = uplink'[i] => j = i
    <3> SUFFICES ASSUME NEW i \in DOMAIN uplink', uplink'[i].type = "SESSION_BEGIN"
                 PROVE  /\ ~Begun(uplink[i].id)'
                        /\ \A j \in DOMAIN uplink' : uplink'[j] = uplink'[i] => j = i
      OBVIOUS
    <3>1. i + k \in DOMAIN uplink /\ uplink'[i] = uplink[i + k]
      OBVIOUS
    <3>2. /\ ~Begun(uplink'[i].id)
          /\ \A j \in DOMAIN uplink : uplink[j] = uplink[i + k] => j = i + k
      BY <3>1 DEF Carried, BeginsOnce
    <3>3. DOMAIN uplink' \subseteq Nat
      BY DEF TypeOK
    <3>4. ASSUME NEW j \in DOMAIN uplink', uplink'[j] = uplink'[i] PROVE j = i
      <4>1. j + k = i + k
        BY <3>1, <3>2, <3>4
      <4> QED
        BY <3>3, <4>1
    <3> QED
      BY <2>1, <3>2, <3>4
  <2>4. PP!Waiting(phone') => \A i \in DOMAIN new : new[i].id # phone'.id
    BY <1>3, <1>4 DEF Carried, BeginsOnce
  <2> QED
    BY <1>1, <2>2, <2>3, <2>4 DEF BeginsOnce
<1>7. TrueToSpeech'
  <2>1. \A m : Quotes(m) => Quotes(m)'
    BY DEF Quotes
  <2>2. /\ (state = "DICTATING" => spoken[reqId] = <<>>)'
        /\ (WP!Transferring => transcript = spoken[reqId])'
    BY <1>1 DEF Carried, TrueToSpeech, WP!Transferring
  <2>3. Quotes(outbox)' /\ \A i \in DOMAIN uplink' : Quotes(uplink[i])'
    BY <1>1, <2>1 DEF Carried, TrueToSpeech, Quotes
  <2>4. \A i \in DOMAIN heard' : (heard[i].type = "TRANSCRIPT_CHUNK" /\ Quotes(heard[i]))'
    BY DEF Quotes
  <2>5. \A i \in DOMAIN new : /\ new[i].transcript = spoken'[new[i].id]
                             /\ new[i].transcript # <<>>
    <3>1. \A i \in DOMAIN old : /\ old[i].transcript = spoken[old[i].id]
                               /\ old[i].transcript # <<>>
      BY DEF Carried, TrueToSpeech
    <3>2. CASE new # old
      <4>1. \A i \in DOMAIN new : i \in 1 .. n \/ i = n + 1
        BY <1>4, <3>2
      <4>2. \A i \in 1 .. n : /\ new[i].transcript = spoken[new[i].id]
                             /\ new[i].transcript # <<>>
        BY <1>4, <3>1, <3>2
      <4>3. r.transcript = spoken[r.id] /\ r.transcript # <<>>
        BY <1>4, <3>2
      <4> HIDE DEF n, new
      <4> QED
        BY <4>1, <4>2, <4>3
    <3> QED
      BY <3>1, <3>2
  <2> QED
    BY <2>2, <2>3, <2>4, <2>5 DEF TrueToSpeech
<1>8. Distinct'
  <2>1. \A i, j \in DOMAIN old : old[i].id = old[j].id => i = j
    BY DEF Carried, Distinct
  <2>2. CASE new # old
    <3>1. \A i \in DOMAIN new : i \in 1 .. n \/ i = n + 1
      BY <1>4, <2>2
    <3>2. \A i, j \in DOMAIN new : new[i].id = new[j].id => i = j
      <4>1. \A i \in 1 .. n : new[i] = old[i] /\ i \in DOMAIN old
        BY <1>4, <2>2
      <4>2. \A i \in 1 .. n : new[i].id # new[n + 1].id
        BY <1>4, <2>2
      <4> HIDE DEF n, new, old
      <4> QED
        BY <2>1, <3>1, <4>1, <4>2
    <3> QED
      BY <3>2 DEF Distinct
  <2> QED
    BY <2>1, <2>2 DEF Distinct
<1>9. SentIsHeld'
  BY <1>1 DEF Carried, SentIsHeld
<1>10. Carried'
  BY <1>2, <1>3, <1>5, <1>6, <1>7, <1>8, <1>9 DEF Carried
<1>11. ASSUME new # old
       PROVE  /\ DOMAIN old \subseteq DOMAIN new
              /\ \A i \in DOMAIN old : new[i] = old[i]
              /\ DOMAIN new = DOMAIN old \cup {n + 1} /\ n + 1 \in DOMAIN new
              /\ new[n + 1].id = phone.id /\ new[n + 1].transcript = spoken[phone.id]
              /\ phone.id \in ReqIds /\ spoken[phone.id] # <<>>
              /\ \A i \in DOMAIN old : old[i].id # phone.id
  <2>1. 1 .. n + 1 = (1 .. n) \cup {n + 1} /\ n + 1 \in 1 .. n + 1
    BY <1>4, <1>11
  <2> QED
    BY <1>4, <1>11, <2>1
<1> QED
  BY <1>10, <1>11 DEF AsksOnce

\* A session that begins has never been heard of.
LEMMA BeginCarried ==
  ASSUME Carried, TypeOK', uplink # <<>>, uplink' = Tail(uplink),
         NEW m, m = Head(uplink), m.type = "SESSION_BEGIN",
         PP!Keeps, PP!Begins(phone, phone', m), heard' = <<>>,
         UNCHANGED <<watchVars, sent, spoken>>
  PROVE  Carried'
<1>1. UNCHANGED WP!watchVars
      /\ UNCHANGED <<state, reqId, used, watchPhone, transcript, outbox>>
  BY DEF watchVars, WP!watchVars, WP!appVars, WP!bridgeVars, WP!deliveryVars,
         WP!uiVars
<1>2. WP!IInv'
  BY <1>1, WatchAssumptions, WP!StutterKeepsIInv DEF Carried
<1>3. PP!IInv' /\ phone'.id = m.id /\ phone'.requests = phone.requests
  BY DEF PP!Keeps, PP!Begins
<1>4. /\ m \in WatchMessages /\ 1 \in DOMAIN uplink /\ uplink[1] = m
      /\ \A i \in DOMAIN uplink' :
           i + 1 \in DOMAIN uplink /\ uplink'[i] = uplink[i + 1] /\ i + 1 # 1
  BY CarriedTypes
<1>5. /\ m.id \in used /\ ~Begun(m.id)
      /\ \A j \in DOMAIN uplink : uplink[j] = m => j = 1
  BY <1>4 DEF Carried, Known, BeginsOnce
<1>6. \A i \in DOMAIN uplink' : uplink'[i] \in WatchMessages /\ uplink'[i] # m
  BY <1>4, <1>5 DEF TypeOK
<1>7. Known'
  <2>1. \A i \in DOMAIN uplink' : uplink'[i].id \in used
    BY <1>4 DEF Carried, Known
  <2> QED
    BY <1>1, <1>3, <1>5, <2>1 DEF Carried, Known
<1>8. BeginsOnce'
  <2>1. \A b : Begun(b)' => b = m.id \/ Begun(b)
    BY <1>3 DEF Begun
  <2>2. outbox.type = "SESSION_BEGIN" /\ ~sent =>
          /\ ~Begun(outbox.id)'
          /\ \A i \in DOMAIN uplink' : uplink'[i] # outbox
    <3> SUFFICES ASSUME outbox.type = "SESSION_BEGIN", ~sent
                 PROVE  /\ ~Begun(outbox.id)'
                        /\ \A i \in DOMAIN uplink' : uplink'[i] # outbox
      OBVIOUS
    <3>1. /\ ~Begun(outbox.id) /\ outbox # m
          /\ \A i \in DOMAIN uplink : uplink[i] # outbox
      BY <1>4 DEF Carried, BeginsOnce
    <3>2. outbox.id # m.id
      BY <1>4, <3>1, CarriedTypes, MessageTypes, SameBegin
    <3> QED
      BY <1>1, <1>4, <2>1, <3>1, <3>2
  <2>3. \A i \in DOMAIN uplink' : uplink'[i].type = "SESSION_BEGIN" =>
          /\ ~Begun(uplink[i].id)'
          /\ \A j \in DOMAIN uplink' : uplink'[j] = uplink'[i] => j = i
    <3> SUFFICES ASSUME NEW i \in DOMAIN uplink', uplink'[i].type = "SESSION_BEGIN"
                 PROVE  /\ ~Begun(uplink[i].id)'
                        /\ \A j \in DOMAIN uplink' : uplink'[j] = uplink'[i] => j = i
      OBVIOUS
    <3>1. i + 1 \in DOMAIN uplink /\ uplink'[i] = uplink[i + 1]
      BY <1>4
    <3>2. /\ ~Begun(uplink'[i].id)
          /\ \A j \in DOMAIN uplink : uplink[j] = uplink[i + 1] => j = i + 1
      BY <3>1 DEF Carried, BeginsOnce
    <3>3. uplink'[i].id # m.id
      BY <1>4, <1>6, SameBegin
    <3>4. DOMAIN uplink' \subseteq Nat
      BY DEF TypeOK
    <3>5. ASSUME NEW j \in DOMAIN uplink', uplink'[j] = uplink'[i] PROVE j = i
      <4>1. j + 1 = i + 1
        BY <1>4, <3>1, <3>2, <3>5
      <4> QED
        BY <3>4, <4>1
    <3> QED
      BY <2>1, <3>2, <3>3, <3>5
  <2>4. \A i \in DOMAIN phone'.requests : phone'.requests[i].id # phone'.id
    BY <1>3, <1>5 DEF Begun
  <2> QED
    BY <1>1, <2>2, <2>3, <2>4 DEF BeginsOnce
<1>9. TrueToSpeech'
  <2>1. \A i \in DOMAIN uplink' : Quotes(uplink[i])'
    BY <1>4 DEF Carried, TrueToSpeech, Quotes
  <2>2. DOMAIN heard' = {}
    OBVIOUS
  <2>3. /\ (state = "DICTATING" => spoken[reqId] = <<>>)'
        /\ (WP!Transferring => transcript = spoken[reqId])'
        /\ Quotes(outbox)'
    BY <1>1 DEF Carried, TrueToSpeech, WP!Transferring, Quotes
  <2>4. \A i \in DOMAIN phone'.requests :
          /\ phone'.requests[i].transcript = spoken'[phone'.requests[i].id]
          /\ phone'.requests[i].transcript # <<>>
    BY <1>3 DEF Carried, TrueToSpeech
  <2> QED
    BY <2>1, <2>2, <2>3, <2>4 DEF TrueToSpeech
<1>10. Distinct' /\ SentIsHeld'
  BY <1>1, <1>3 DEF Carried, Distinct, SentIsHeld
<1> QED
  BY <1>2, <1>3, <1>7, <1>8, <1>9, <1>10 DEF Carried

LEMMA PhoneReceivesCarried ==
  ASSUME Carried, PhoneReceives
  PROVE  Carried' /\ AsksOnce
<1> DEFINE m == Head(uplink)
<1>1. /\ uplink # <<>> /\ PP!Receive(m) /\ uplink' = Tail(uplink) /\ PP!IInv
      /\ UNCHANGED <<watchVars, downlink, sent, push, losses, spoken>>
  BY SamePhone DEF PhoneReceives, Carried
<1>2. /\ m \in WatchMessages /\ 1 \in DOMAIN uplink /\ uplink[1] = m
      /\ uplink' \in Seq(WatchMessages)
      /\ \A i \in DOMAIN uplink' :
           i + 1 \in DOMAIN uplink /\ uplink'[i] = uplink[i + 1]
  BY <1>1, CarriedTypes
<1> HIDE DEF m
<1>3. /\ PP!Keeps
      /\ IF m.type = "SESSION_BEGIN" THEN PP!Begins(phone, phone', m)
                                     ELSE PP!Stays(phone, phone')
  BY <1>1, <1>2, PhoneAssumptions, PP!ReceiveKeeps
<1>4. TypeOK'
  BY <1>1, <1>2 DEF Carried, TypeOK
<1>5. CASE m.type = "SESSION_BEGIN"
  <2>1. heard' = <<>> /\ PP!Begins(phone, phone', m) /\ phone'.requests = phone.requests
    BY <1>1, <1>3, <1>5 DEF PP!Receive, PP!Begins
  <2> QED
    BY <1>1, <1>3, <1>4, <1>5, <2>1, BeginCarried DEF m, AsksOnce
<1>6. CASE m.type # "SESSION_BEGIN"
  <2>1. \A i \in DOMAIN heard' :
          heard'[i].type = "TRANSCRIPT_CHUNK" /\ Quotes(heard'[i])
    <3>1. \A i \in DOMAIN heard : heard[i].type = "TRANSCRIPT_CHUNK" /\ Quotes(heard[i])
      BY DEF Carried, TrueToSpeech
    <3>2. CASE heard' = heard
      BY <3>1, <3>2
    <3>3. CASE m.type = "TRANSCRIPT_CHUNK" /\ heard' = Append(heard, m)
      <4>1. heard \in Seq(WatchMessages)
        BY OneProtocol DEF Carried, PP!IInv, PP!Heard
      <4>2. Quotes(m)
        BY <1>2 DEF Carried, TrueToSpeech
      <4> DEFINE n == Len(heard)
      <4>3. /\ n \in Nat /\ DOMAIN heard' = 1 .. n + 1 /\ DOMAIN heard = 1 .. n
            /\ heard'[n + 1] = m /\ \A i \in 1 .. n : heard'[i] = heard[i]
        <5>1. n \in Nat /\ DOMAIN heard = 1 .. n
          BY <4>1
        <5> QED
          BY <1>2, <3>3, <4>1, <5>1, PhoneAssumptions, PP!AppendFacts
      <4> HIDE DEF n
      <4>4. \A i \in 1 .. n + 1 : i \in 1 .. n \/ i = n + 1
        BY <4>3
      <4> QED
        BY <3>1, <3>3, <4>2, <4>3, <4>4
    <3> QED
      BY <1>1, <1>6, <3>2, <3>3 DEF PP!Receive
  <2> QED
    BY <1>1, <1>2, <1>3, <1>4, <1>6, <2>1, PhoneCarried
<1> QED
  BY <1>5, <1>6

\* The server answers with frames the phone's proofs allow for.
LEMMA FrameType ==
  ASSUME Carried, NEW f \in Results \cup Refusals
  PROVE  /\ f \in [id : ReqIds \cup {NoId}, kind : P!FrameKinds, success : BOOLEAN,
                   response : Texts]
         /\ f.kind # "protocol_error"
         /\ f.kind = "result" =>
              f.success = TRUE /\ \E i \in DOMAIN phone.requests :
                f.id = phone.requests[i].id /\ f.response = phone.requests[i].transcript
<1>1. PICK i \in DOMAIN phone.requests :
        \/ f = [id |-> phone.requests[i].id, kind |-> "result", success |-> TRUE,
                response |-> phone.requests[i].transcript]
        \/ f = [id |-> phone.requests[i].id, kind |-> "server_error", success |-> FALSE,
                response |-> <<>>]
  BY DEF Results, Refusals, Request, ToSet
<1>2. phone.requests[i].id \in ReqIds /\ phone.requests[i].transcript \in Texts
      /\ <<>> \in Texts
  BY CarriedTypes DEF Texts
<1>3. /\ f.id = phone.requests[i].id
      /\ f.kind = "result" => f.success = TRUE /\ f.response = phone.requests[i].transcript
      /\ f.kind \in {"result", "server_error"}
  BY <1>1
<1> DEFINE Frames == [id : ReqIds \cup {NoId}, kind : P!FrameKinds, success : BOOLEAN,
                      response : Texts]
<1>4. \A r \in ReqIds, k \in {"result", "server_error"}, b \in BOOLEAN, t \in Texts :
        [id |-> r, kind |-> k, success |-> b, response |-> t] \in Frames
  BY DEF P!FrameKinds
<1> HIDE DEF Frames
<1>5. f \in Frames
  BY <1>1, <1>2, <1>4, Zenon
<1> QED
  BY <1>3, <1>5 DEF Frames

LEMMA PhoneEventCarried ==
  ASSUME Carried, PhoneStep \/ PushDone
  PROVE  Carried' /\ AsksOnce
<1>1. UNCHANGED <<watchVars, uplink, downlink, sent, losses, spoken>>
      /\ push' \in {push, "idle"} /\ PP!IInv
  BY DEF PhoneStep, PushDone, linkVars, Carried
<1>2. PP!Keeps /\ PP!Stays(phone, phone') /\ heard' = heard
  <2>1. CASE PushDone
    <3>1. PP!AppMessageDone(push = "delivered")
      BY <2>1, SamePhone DEF PushDone
    <3>2. (push = "delivered") \in BOOLEAN
      OBVIOUS
    <3> QED
      BY <1>1, <3>1, <3>2, PhoneAssumptions, PP!AppMessageDoneKeeps DEF PP!AppMessageDone
  <2>2. CASE P!SocketOpens \/ P!SocketCloses
    <3>1. PP!SocketOpens \/ PP!SocketCloses
      BY <2>2, SamePhone
    <3> QED
      BY <1>1, <3>1, PhoneAssumptions, PP!SocketKeeps DEF PP!SocketOpens, PP!SocketCloses
  <2>3. CASE P!OnOpen
    <3>1. PP!OnOpen
      BY <2>3, SamePhone
    <3> QED
      BY <1>1, <3>1, PhoneAssumptions, PP!OnOpenKeeps DEF PP!OnOpen
  <2>4. CASE P!OnErrorOrClose \/ P!HandoffTimeout \/ P!ResultTimeout
    <3>1. PP!OnErrorOrClose \/ PP!HandoffTimeout \/ PP!ResultTimeout
      BY <2>4, SamePhone
    <3> QED
      BY <1>1, <3>1, PhoneAssumptions, PP!FailureKeeps
         DEF PP!OnErrorOrClose, PP!HandoffTimeout, PP!ResultTimeout
  <2>5. CASE \E f \in Results \cup Refusals : P!OnFrame(f)
    <3>1. PICK f \in Results \cup Refusals : PP!OnFrame(f)
      BY <2>5, SamePhone
    <3>2. f \in [id : ReqIds \cup {NoId}, kind : P!FrameKinds, success : BOOLEAN,
                 response : Texts]
      BY FrameType
    <3> QED
      BY <1>1, <3>1, <3>2, PhoneAssumptions, PP!OnFrameKeeps DEF PP!OnFrame
  <2> QED
    BY <2>1, <2>2, <2>3, <2>4, <2>5 DEF PhoneStep
<1>3. TypeOK'
  BY <1>1 DEF Carried, TypeOK
<1>4. \A i \in DOMAIN uplink' : i + 0 \in DOMAIN uplink /\ uplink'[i] = uplink[i + 0]
  BY <1>1, CarriedTypes
<1>5. \A i \in DOMAIN heard' :
        heard'[i].type = "TRANSCRIPT_CHUNK" /\ Quotes(heard'[i])
  BY <1>2 DEF Carried, TrueToSpeech
<1> QED
  BY <1>1, <1>2, <1>3, <1>4, <1>5, PhoneCarried

\* Nothing is asked or begun by a phone that starts anew.
LEMMA PhoneRestartsCarried ==
  ASSUME Carried, PhoneRestarts
  PROVE  Carried' /\ phone'.requests = phone.requests
<1>1. /\ UNCHANGED <<watchVars, downlink, sent, spoken>> /\ heard' = <<>>
      /\ losses' = losses + 1 /\ losses < MaxLosses
      /\ push' \in {"idle", "orphaned"}
      /\ uplink' = <<>> \/ uplink' = uplink
  BY DEF PhoneRestarts
<1>2. /\ PP!IInv' /\ phone'.requests = phone.requests /\ phone'.id = NoId
      /\ phone'.state = "CLOSED"
  <2>1. phone' = [PP!Idle EXCEPT !.serial = phone.serial, !.requests = phone.requests]
    BY OneProtocol DEF PhoneRestarts
  <2> QED
    BY <1>1, <2>1, PhoneAssumptions, PP!RestartKeeps DEF Carried, PP!Shut
<1>3. UNCHANGED WP!watchVars
      /\ UNCHANGED <<state, reqId, used, watchPhone, transcript, outbox>>
  BY <1>1 DEF watchVars, WP!watchVars, WP!appVars, WP!bridgeVars, WP!deliveryVars,
              WP!uiVars
<1>4. WP!IInv'
  BY <1>3, WatchAssumptions, WP!StutterKeepsIInv DEF Carried
<1>5. uplink' \in Seq(WatchMessages) /\ (DOMAIN uplink' # {} => uplink' = uplink)
  <2>1. uplink' = uplink => uplink' \in Seq(WatchMessages)
    BY CarriedTypes
  <2>2. uplink' = <<>> => uplink' \in Seq(WatchMessages) /\ DOMAIN uplink' = {}
    OBVIOUS
  <2> QED
    BY <1>1, <2>1, <2>2
<1>6. TypeOK'
  BY <1>1, <1>5, SystemAssumption DEF Carried, TypeOK
<1>7. Known'
  BY <1>1, <1>2, <1>3, <1>5 DEF Carried, Known
<1>8. BeginsOnce'
  <2>1. \A b \in ReqIds : Begun(b)' => Begun(b)
    BY <1>2, NoIdAssumption DEF Begun
  <2>2. /\ outbox.type = "SESSION_BEGIN" => outbox.id \in ReqIds
        /\ \A i \in DOMAIN uplink : uplink[i].id \in ReqIds
    BY CarriedTypes, MessageTypes DEF WatchMessages
  <2>3. outbox'.type = "SESSION_BEGIN" /\ ~sent' =>
          /\ ~Begun(outbox.id)'
          /\ \A i \in DOMAIN uplink' : uplink'[i] # outbox'
    BY <1>1, <1>3, <1>5, <2>1, <2>2 DEF Carried, BeginsOnce
  <2>4. \A i \in DOMAIN uplink' : uplink'[i].type = "SESSION_BEGIN" =>
          /\ ~Begun(uplink[i].id)'
          /\ \A j \in DOMAIN uplink' : uplink'[j] = uplink'[i] => j = i
    BY <1>5, <2>1, <2>2 DEF Carried, BeginsOnce
  <2> QED
    BY <1>2, <2>3, <2>4 DEF BeginsOnce, PP!Waiting
<1>9. TrueToSpeech'
  <2>1. DOMAIN heard' = {}
    BY <1>1
  <2>2. \A i \in DOMAIN uplink' : Quotes(uplink[i])'
    BY <1>1, <1>5 DEF Carried, TrueToSpeech, Quotes
  <2> QED
    BY <1>1, <1>2, <1>3, <2>1, <2>2 DEF Carried, TrueToSpeech, Quotes, WP!Transferring
<1>10. Distinct' /\ SentIsHeld'
  BY <1>1, <1>2, <1>3 DEF Carried, Distinct, SentIsHeld
<1> QED
  BY <1>2, <1>4, <1>6, <1>7, <1>8, <1>9, <1>10 DEF Carried

LEMMA InitCarried == Init => Carried
<1> SUFFICES ASSUME Init PROVE Carried
  OBVIOUS
<1>1. WP!Init /\ PP!Init
  BY SameWatch, SamePhone DEF Init
<1>2. WP!IInv /\ PP!IInv
  BY <1>1, WatchAssumptions, PhoneAssumptions, WP!InitEstablishesIInv, PP!InitHolds
<1>3. /\ state = "OFF" /\ used = {} /\ outbox = NoMsg
      /\ phone.id = NoId /\ phone.state = "CLOSED" /\ phone.requests = <<>> /\ heard = <<>>
  BY <1>1, OneProtocol DEF WP!Init, PP!Init, PP!Idle
<1>4. /\ DOMAIN uplink = {} /\ DOMAIN phone.requests = {} /\ DOMAIN heard = {}
      /\ ~sent /\ spoken = [r \in ReqIds |-> <<>>]
  BY <1>3 DEF Init
<1>5. TypeOK
  <2>1. <<>> \in Seq(WatchMessages) /\ <<>> \in Seq(PhoneMessages \cup {Ack}) /\ <<>> \in Texts
    BY DEF Texts
  <2>2. 0 \in 0 .. MaxLosses
    BY SystemAssumption
  <2> QED
    BY <2>1, <2>2 DEF Init, TypeOK
<1> QED
  BY <1>2, <1>3, <1>4, <1>5, MessageTypes
     DEF Carried, SentIsHeld, Known, BeginsOnce, TrueToSpeech, Quotes, Distinct,
         PP!Waiting, WP!Transferring

\* From the microphone to the socket, every step keeps what was spoken.
LEMMA NextCarried ==
  ASSUME Carried, [Next]_vars
  PROVE  Carried'
<1>1. CASE UNCHANGED vars
  <2>1. UNCHANGED <<watchVars, phoneVars, uplink, downlink, sent, push, losses, spoken>>
    BY <1>1 DEF vars, linkVars
  <2>2. TypeOK'
    BY <2>1 DEF Carried, TypeOK
  <2> QED
    BY <2>1, <2>2, StreamCarried
<1> QED
  BY <1>1, WatchStepCarried, AppEndsCarried, TransmitCarried, OutboxCarried,
     PhoneReceivesCarried, PushCarried, PushArrivesCarried, PushLostCarried,
     PhoneEventCarried, PhoneRestartsCarried DEF Next, LinkStep

LEMMA AlwaysCarried == Spec => []Carried
  BY InitCarried, NextCarried, PTL DEF Spec

\* For any transcripts, any losses, failures and restarts: each run sends the
\* server at most one request, and it is exactly what was dictated in that run.
THEOREM RequestsAreExact == Spec => []OneExactRequestPerRun
<1>1. Carried => OneExactRequestPerRun
  BY DEF Carried, TrueToSpeech, Distinct, OneExactRequestPerRun
<1> QED
  BY <1>1, AlwaysCarried, PTL

-----------------------------------------------------------------------------
(* From the server back to the watch, and the refinement.                  *)

\* Nothing that was asked or said is taken back.
Lasts ==
  /\ \A i \in DOMAIN phone.requests :
       i \in DOMAIN phone'.requests /\ phone'.requests[i] = phone.requests[i]
  /\ \A r \in ReqIds : spoken[r] # <<>> => spoken'[r] = spoken[r]

LEMMA TruthLasts ==
  ASSUME Carried, Lasts
  PROVE  /\ TrueMessages \subseteq TrueMessages'
         /\ \A r : HasAsked(r) => HasAsked(r)' /\ spoken'[r] = spoken[r]
<1>1. \A r : HasAsked(r) => r \in ReqIds /\ spoken[r] # <<>>
  BY CarriedTypes DEF HasAsked, Carried, TrueToSpeech
<1>2. \A r : HasAsked(r) => HasAsked(r)' /\ spoken'[r] = spoken[r]
  BY <1>1 DEF Lasts, HasAsked
<1> QED
  BY <1>2 DEF TrueMessages

\* A phone that is left alone goes on telling the truth.
LEMMA TellsLasts ==
  ASSUME Carried, Answered, Lasts, UNCHANGED phone
  PROVE  PP!Tells(phone', TrueMessages')
BY TruthLasts DEF Answered, TellsTheTruth, PP!Tells

LEMMA StreamLasts ==
  ASSUME Carried, Answered, Lasts,
         NEW s \in {downlink, Append(downlink, Ack), WithoutAcks(downlink)}
                     \cup {Tail(t) : t \in {downlink} \ {<<>>}}
  PROVE  s \in Seq(TrueMessages' \cup {Ack})
<1> DEFINE S == TrueMessages
           T == TrueMessages'
<1>1. S \subseteq T /\ downlink \in Seq(S \cup {Ack})
  BY TruthLasts DEF Answered, TellsTheTruth
<1> HIDE DEF S, T
<1>2. downlink \in Seq(T \cup {Ack})
  BY <1>1, PhoneAssumptions, PP!SeqMonotone
<1>3. WithoutAcks(downlink) \in Seq(T)
  BY <1>2, WithoutAcksType
<1>4. WithoutAcks(downlink) \in Seq(T \cup {Ack})
  BY <1>3, PhoneAssumptions, PP!SeqMonotone
<1>5. Append(downlink, Ack) \in Seq(T \cup {Ack})
  BY <1>2
<1>6. downlink # <<>> => Tail(downlink) \in Seq(T \cup {Ack})
  BY <1>2
<1> QED
  BY <1>2, <1>4, <1>5, <1>6 DEF T

\* The run goes on as it is, or fails: what the watch has heard stays true.
LEMMA SteadyAnswered ==
  ASSUME Carried, Answered, WP!Steady, Lasts,
         PP!Tells(phone', TrueMessages'), downlink' \in Seq(TrueMessages' \cup {Ack})
  PROVE  Answered'
<1>1. HearsTheTruth'
  BY TruthLasts DEF Answered, HearsTheTruth, WP!Steady, WP!Awaiting
<1> QED
  BY <1>1 DEF Answered, TellsTheTruth

LEMMA RestIsSteady == ASSUME UNCHANGED watchVars PROVE WP!Steady
BY DEF watchVars, WP!Steady, WP!Posts, WP!Transferring, WP!Awaiting

\* To the user the run goes on, or fails.
LEMMA SteadySimulated ==
  ASSUME WP!Steady, phone'.requests = phone.requests, UNCHANGED spoken
  PROVE  [D!Next]_(D!dictationVars)
<1>1. Asked' = Asked /\ UNCHANGED <<reqId, used, spoken>>
  BY DEF Asked, ToSet, WP!Steady
<1>2. CASE UNCHANGED state
  BY <1>1, <1>2 DEF WP!Steady, D!dictationVars
<1>3. CASE state' = "ERROR" /\ state \in {"DICTATING", "BRIDGING"}
  <2>1. D!Fail
    BY <1>1, <1>3 DEF D!Fail
  <2> QED
    BY <2>1 DEF D!Next
<1> QED
  BY <1>2, <1>3 DEF WP!Steady

LEMMA WatchStepTruth ==
  ASSUME IInv, WatchStep
  PROVE  Answered' /\ [D!Next]_(D!dictationVars)
<1>1. Carried /\ Answered /\ UNCHANGED <<phone, downlink>>
  BY DEF IInv, WatchStep, phoneVars
<1>2. Lasts => Answered' \/ WP!Awaiting'
  BY <1>1, StreamLasts, TellsLasts DEF Answered, TellsTheTruth, HearsTheTruth, WP!Awaiting
<1>3. CASE \E r \in ReqIds : (W!LaunchAborted(r) \/ W!Launch(r)) /\ UNCHANGED spoken
  <2>1. PICK r \in ReqIds : WP!LaunchAborted(r) \/ WP!Launch(r)
    BY <1>3, SameWatch
  <2>2. /\ state = "OFF" /\ r \notin used /\ used' = used \cup {r}
        /\ \/ UNCHANGED state
           \/ state' \in {"DICTATING", "ERROR"} /\ reqId' = r
    BY <1>1, <2>1, WatchAssumptions, WP!LaunchSteady DEF Carried
  <2>3. state' = state => reqId' = reqId
    BY <2>1, <2>2 DEF WP!LaunchAborted, WP!Launch, WP!LaunchFails, WP!EnterError
  <2>4. Answered'
    BY <1>1, <1>2, <1>3, <2>2 DEF Lasts, WP!Awaiting
  <2>5. D!Start(r)
    BY <1>1, <1>3, <2>2, <2>3 DEF D!Start, Asked
  <2> QED
    BY <2>4, <2>5 DEF D!Next
<1>4. CASE \E t \in Transcripts :
             W!DictationSucceeds(t) /\ spoken' = [spoken EXCEPT ![reqId] = t]
  <2>1. PICK t \in Transcripts :
          W!DictationSucceeds(t) /\ spoken' = [spoken EXCEPT ![reqId] = t]
    BY <1>4
  <2>2. WP!DictationSucceeds(t)
    BY <2>1, SameWatch
  <2>3. /\ UNCHANGED <<reqId, used>>
        /\ state = "DICTATING" /\ state' \in {"BRIDGING", "ERROR"}
        /\ ~WP!Awaiting'
    BY <1>1, <2>2, WatchAssumptions, WP!DictationSucceedsSteady DEF Carried
  <2>4. Lasts
    <3>1. spoken[reqId] = <<>>
      BY <1>1, <2>3 DEF Carried, TrueToSpeech
    <3> QED
      BY <1>1, <2>1, <3>1, CarriedTypes DEF Lasts
  <2>5. D!Speak(t)
    BY <1>1, <2>1, <2>3 DEF D!Speak, Asked
  <2> QED
    BY <1>2, <2>3, <2>4, <2>5 DEF D!Next
<1>5. CASE WP!Steady /\ UNCHANGED spoken
  <2>1. Lasts
    BY <1>1, <1>5 DEF Lasts
  <2> QED
    BY <1>1, <1>5, <2>1, SteadyAnswered, SteadySimulated, TellsLasts, StreamLasts
<1> QED
  BY <1>1, <1>3, <1>4, <1>5, WatchStepCases

LEMMA AppEndsTruth ==
  ASSUME IInv, AppEnds
  PROVE  Answered' /\ [D!Next]_(D!dictationVars)
<1>1. /\ Carried /\ Answered /\ UNCHANGED <<phone, spoken>>
      /\ downlink' = WithoutAcks(downlink)
  BY DEF IInv, AppEnds, phoneVars
<1>2. WP!Deinit
  BY SameWatch DEF AppEnds
<1>3. state # "OFF" /\ state' = "OFF" /\ UNCHANGED <<reqId, used>>
  BY <1>2 DEF WP!Deinit, WP!Running
<1>4. Lasts
  BY <1>1 DEF Lasts
<1>5. Answered'
  BY <1>1, <1>3, <1>4, TellsLasts, StreamLasts DEF Answered, TellsTheTruth, HearsTheTruth
<1>6. D!Close
  BY <1>1, <1>3 DEF D!Close, Asked
<1> QED
  BY <1>5, <1>6 DEF D!Next

\* The acknowledgements come and go.
LEMMA OutboxTruth ==
  ASSUME IInv, Transmit \/ AckArrives \/ OutboxLost
  PROVE  Answered' /\ [D!Next]_(D!dictationVars)
<1>1. /\ Carried /\ Answered /\ UNCHANGED <<phone, spoken>>
      /\ downlink' \in {Append(downlink, Ack), WithoutAcks(downlink)}
                         \cup {Tail(t) : t \in {downlink} \ {<<>>}}
  BY DEF IInv, Transmit, AckArrives, OutboxLost, phoneVars
<1>2. Lasts
  BY <1>1 DEF Lasts
<1>3. WP!Steady
  <2>1. CASE Transmit
    BY <2>1, RestIsSteady DEF Transmit
  <2>2. CASE AckArrives \/ OutboxLost
    <3>1. WP!IInv /\ (WP!OutboxSent \/ WP!OutboxFailed)
      BY <1>1, <2>2, SameWatch DEF AckArrives, OutboxLost, Carried
    <3> QED
      BY <3>1, WatchAssumptions, WP!OutboxSteady
  <2> QED
    BY <2>1, <2>2
<1> QED
  BY <1>1, <1>2, <1>3, SteadyAnswered, SteadySimulated, TellsLasts, StreamLasts

\* What the phone sends is what it has to tell.
LEMMA PushTruth ==
  ASSUME IInv, Push \/ PushAckLost
  PROVE  Answered' /\ [D!Next]_(D!dictationVars)
<1>1. Carried /\ Answered /\ UNCHANGED <<phone, spoken>> /\ WP!Steady
  BY RestIsSteady DEF IInv, Push, PushAckLost, phoneVars
<1>2. Lasts
  BY <1>1 DEF Lasts
<1>3. downlink' \in Seq(TrueMessages' \cup {Ack})
  <2>1. CASE Push
    <3> DEFINE S == TrueMessages' \cup {Ack}
    <3>1. downlink \in Seq(S) /\ phone.inflight.msg \in S
      BY <1>1, <1>2, <2>1, StreamLasts, TellsLasts, OneProtocol DEF PP!Tells, Push
    <3> HIDE DEF S
    <3>2. Append(downlink, phone.inflight.msg) \in Seq(S)
      BY <3>1
    <3> QED
      BY <2>1, <3>2 DEF Push, S
  <2>2. CASE PushAckLost
    BY <1>1, <1>2, <2>2, StreamLasts DEF PushAckLost
  <2> QED
    BY <2>1, <2>2
<1> QED
  BY <1>1, <1>2, <1>3, SteadyAnswered, SteadySimulated, TellsLasts

LEMMA PushLostTruth ==
  ASSUME IInv, PushLost
  PROVE  Answered' /\ [D!Next]_(D!dictationVars)
<1>1. /\ Carried /\ Answered /\ UNCHANGED <<phone, spoken>>
      /\ downlink # <<>> /\ downlink' = Tail(downlink)
  BY DEF IInv, PushLost, phoneVars
<1>2. Lasts
  BY <1>1 DEF Lasts
<1>3. WP!Steady
  <2>1. CASE UNCHANGED watchVars
    BY <2>1, RestIsSteady
  <2>2. CASE W!InboxDropped
    <3>1. WP!IInv /\ WP!InboxDropped
      BY <1>1, <2>2, SameWatch DEF Carried
    <3> QED
      BY <3>1, WatchAssumptions, WP!UserAndTimersSteady
  <2> QED
    BY <2>1, <2>2 DEF PushLost
<1> QED
  BY <1>1, <1>2, <1>3, SteadyAnswered, SteadySimulated, TellsLasts, StreamLasts

\* The beginning of a text that is one longer.
LEMMA OneMore ==
  ASSUME NEW S, NEW t \in Seq(S), NEW k \in Nat, k < Len(t)
  PROVE  /\ <<t[k + 1]>> \in Seq(S) /\ SubSeq(t, 1, k) \in Seq(S)
         /\ SubSeq(t, 1, k) \o <<t[k + 1]>> = SubSeq(t, 1, k + 1)
<1>1. k + 1 \in 1 .. Len(t) /\ t[k + 1] \in S
  OBVIOUS
<1>2. SubSeq(t, 1, k) \in Seq(S) /\ Len(SubSeq(t, 1, k)) = k
      /\ \A i \in 1 .. k : SubSeq(t, 1, k)[i] = t[i]
  OBVIOUS
<1>3. <<t[k + 1]>> \in Seq(S)
  BY <1>1
<1> DEFINE a == SubSeq(t, 1, k) \o <<t[k + 1]>>
           b == SubSeq(t, 1, k + 1)
<1>4. a \in Seq(S) /\ Len(a) = k + 1 /\ \A i \in 1 .. k + 1 : a[i] = t[i]
  BY <1>2, <1>3
<1>5. b \in Seq(S) /\ Len(b) = k + 1 /\ \A i \in 1 .. k + 1 : b[i] = t[i]
  OBVIOUS
<1> HIDE DEF a, b
<1>6. a = b
  BY <1>4, <1>5
<1> QED
  BY <1>2, <1>3, <1>6 DEF a, b

\* The shortest and the longest beginning of a text.
LEMMA Beginnings ==
  ASSUME NEW S, NEW t \in Seq(S)
  PROVE  Len(t) \in Nat /\ SubSeq(t, 1, 0) = <<>> /\ SubSeq(t, 1, Len(t)) = t
OBVIOUS

LEMMA ChunkRecord ==
  ASSUME NEW r, NEW n, NEW i, NEW x, NEW m,
         m = [type |-> "SERVER_RESULT_CHUNK", id |-> r, index |-> i,
              count |-> n, total |-> n, text |-> x, success |-> TRUE]
  PROVE  /\ m.type = "SERVER_RESULT_CHUNK" /\ m.id = r /\ m.index = i
         /\ m.count = n /\ m.total = n /\ m.text = x /\ m.success = TRUE
OBVIOUS

\* A text that is not empty travels in chunks of one piece.
LEMMA ChunkFields ==
  ASSUME NEW r, NEW t \in Texts, NEW k \in 0 .. Len(t) - 1
  PROVE  ResultChunks(r, TRUE, t)[k + 1]
           = [type |-> "SERVER_RESULT_CHUNK", id |-> r, index |-> k, count |-> Len(t),
              total |-> Len(t), text |-> <<t[k + 1]>>, success |-> TRUE]
<1> DEFINE n == Len(t)
           chunk(i) ==
             [type |-> "SERVER_RESULT_CHUNK", id |-> r, index |-> i - 1,
              count |-> n, total |-> n, text |-> <<t[i]>>, success |-> TRUE]
<1>1. n \in Nat /\ n # 0 /\ k + 1 \in 1 .. n /\ (k + 1) - 1 = k
  BY DEF Texts
<1>2. ResultChunks(r, TRUE, t) = [i \in 1 .. n |-> chunk(i)]
  BY <1>1 DEF ResultChunks
<1> HIDE DEF chunk
<1>3. ResultChunks(r, TRUE, t)[k + 1] = chunk(k + 1)
  BY <1>1, <1>2
<1> QED
  BY <1>1, <1>3 DEF chunk

\* The watch holds the beginning of what was spoken, and a true piece makes it
\* longer by one.
LEMMA PieceExtends ==
  ASSUME Carried, HearsTheTruth, WP!Running, state = "BRIDGING",
         NEW m, m.index \in Nat, m.count = Len(spoken[reqId]),
         m.total = Len(spoken[reqId]), m.success = TRUE,
         m.index < Len(spoken[reqId]),
         m.text = <<spoken[reqId][m.index + 1]>>,
         WP!Continues(m), response' = WP!Extended(m)
  PROVE  /\ response'.count = Len(spoken[reqId]) /\ response'.total = Len(spoken[reqId])
         /\ response'.next = m.index + 1
         /\ response'.text = SubSeq(spoken[reqId], 1, m.index + 1)
<1> DEFINE t == spoken[reqId]
           r == WP!ResponseFor(m)
<1>1. reqId \in ReqIds /\ t \in Texts
  BY CarriedTypes
<1>2. watchPhone \in {"AWAITING_RESULT", "RECEIVING_RESULT"} /\ m.index = r.next
  BY DEF WP!Continues, WP!ReceivingResult
<1>3. /\ r \in [text : Texts, count : Nat, total : Nat, next : Nat, success : BOOLEAN]
      /\ r.count = Len(t) /\ r.total = Len(t) /\ r.text = SubSeq(t, 1, r.next)
  <2>1. CASE WP!OpensResponse(m)
    <3>1. r = [WP!NoResponse EXCEPT !.count = m.count, !.total = m.total,
                                    !.success = m.success]
      BY <2>1 DEF WP!ResponseFor
    <3>2. r.text = <<>> /\ r.next = 0 /\ r.count = Len(t) /\ r.total = Len(t)
          /\ r.success = TRUE
      BY <3>1 DEF WP!NoResponse
    <3>3. Len(t) \in Nat /\ SubSeq(t, 1, 0) = <<>> /\ <<>> \in Texts
      BY <1>1, Beginnings DEF Texts
    <3>4. r = [text |-> <<>>, count |-> m.count, total |-> m.total, next |-> 0,
               success |-> m.success]
      BY <3>1 DEF WP!NoResponse
    <3>5. r = [text |-> <<>>, count |-> Len(t), total |-> Len(t), next |-> 0,
               success |-> TRUE]
      BY <3>4
    <3>6. /\ r.text = <<>> /\ r.next = 0
          /\ r \in [text : Texts, count : Nat, total : Nat, next : Nat, success : BOOLEAN]
      <4> HIDE DEF r, t
      <4> QED
        BY <3>3, <3>5
    <3> QED
      BY <3>2, <3>3, <3>6
  <2>2. CASE ~WP!OpensResponse(m)
    <3>1. r = response
      BY <2>2 DEF WP!ResponseFor
    <3>2. watchPhone = "RECEIVING_RESULT"
      BY <1>2, <2>2 DEF WP!Continues, WP!OpensResponse
    <3> QED
      BY <3>1, <3>2, OneProtocol
         DEF HearsTheTruth, Carried, WP!IInv, WP!TypeOK, WP!Responses
  <2> QED
    BY <2>1, <2>2
<1>4. response' = [r EXCEPT !.text = @ \o m.text, !.next = @ + 1]
  BY DEF WP!Extended
<1> HIDE DEF r
<1>5. response'.text = SubSeq(t, 1, r.next) \o <<t[r.next + 1]>>
      /\ response'.next = r.next + 1 /\ response'.count = Len(t) /\ response'.total = Len(t)
  <2>1. r.text \o m.text = SubSeq(t, 1, r.next) \o <<t[r.next + 1]>>
    BY <1>2, <1>3
  <2>2. /\ response'.text = r.text \o m.text /\ response'.next = r.next + 1
        /\ response'.count = r.count /\ response'.total = r.total
    <3> HIDE DEF t
    <3> QED
      BY <1>3, <1>4
  <2> QED
    BY <1>3, <2>1, <2>2
<1>6. SubSeq(t, 1, r.next) \o <<t[r.next + 1]>> = SubSeq(t, 1, r.next + 1)
  <2> DEFINE k == r.next
  <2>1. t \in Seq(Pieces) /\ k \in Nat /\ k < Len(t)
    BY <1>1, <1>2 DEF Texts
  <2> HIDE DEF t, k
  <2>2. SubSeq(t, 1, k) \o <<t[k + 1]>> = SubSeq(t, 1, k + 1)
    BY <2>1, OneMore
  <2> QED
    BY <2>2 DEF k
<1> QED
  BY <1>2, <1>5, <1>6

\* A true chunk of a result is one of what was spoken.
LEMMA TrueChunk ==
  ASSUME Carried, NEW m \in TrueMessages, m.type = "SERVER_RESULT_CHUNK"
  PROVE  /\ HasAsked(m.id) /\ m.id \in ReqIds /\ spoken[m.id] \in Texts
         /\ Len(spoken[m.id]) \in Nat /\ m.index \in Nat /\ m.index < Len(spoken[m.id])
         /\ m.count = Len(spoken[m.id]) /\ m.total = Len(spoken[m.id])
         /\ m.text = <<spoken[m.id][m.index + 1]>> /\ m.success = TRUE
<1> DEFINE t == spoken[m.id]
           k == m.index
<1>1. /\ HasAsked(m.id) /\ m \in PhoneMessages /\ k < Len(t)
      /\ m \in {ResultChunks(m.id, TRUE, t)[k + 1]}
  BY DEF TrueMessages
<1>2. m.id \in ReqIds /\ k \in Nat
  BY <1>1, CarriedTypes DEF HasAsked, PhoneMessages
<1>3. t \in Texts /\ Len(t) \in Nat
  BY <1>2, CarriedTypes DEF Texts
<1> HIDE DEF t, k
<1>4. k \in 0 .. Len(t) - 1
  BY <1>1, <1>2, <1>3
<1>5. m = [type |-> "SERVER_RESULT_CHUNK", id |-> m.id, index |-> k, count |-> Len(t),
           total |-> Len(t), text |-> <<t[k + 1]>>, success |-> TRUE]
  BY <1>1, <1>3, <1>4, ChunkFields
<1>6. PICK r, n, x : r = m.id /\ n = Len(t) /\ x = <<t[k + 1]>>
  OBVIOUS
<1>7. m.count = n /\ m.total = n /\ m.text = x /\ m.success = TRUE
  BY <1>5, <1>6, ChunkRecord
<1> QED
  BY <1>1, <1>2, <1>3, <1>6, <1>7 DEF t, k

\* A true message is taken for what it says.
LEMMA PushArrivesTruth ==
  ASSUME IInv, PushArrives
  PROVE  Answered' /\ [D!Next]_(D!dictationVars)
<1> DEFINE m == Head(downlink)
           t == spoken[reqId]
<1>1. /\ Carried /\ Answered /\ UNCHANGED <<phone, spoken>>
      /\ downlink # <<>> /\ downlink' = Tail(downlink)
  BY DEF IInv, PushArrives, phoneVars
<1>2. Lasts
  BY <1>1 DEF Lasts
<1>3. /\ PP!Tells(phone', TrueMessages') /\ downlink' \in Seq(TrueMessages' \cup {Ack})
      /\ \A r : HasAsked(r)' <=> HasAsked(r)
  BY <1>1, <1>2, TellsLasts, StreamLasts DEF HasAsked
<1>4. m \in TrueMessages
  <2> DEFINE S == TrueMessages
  <2>1. downlink \in Seq(S \cup {Ack}) /\ downlink # <<>>
    BY <1>1 DEF Answered, TellsTheTruth
  <2> HIDE DEF S
  <2>2. m \in S \cup {Ack}
    BY <2>1
  <2> QED
    BY <2>2 DEF PushArrives, S
<1>5. CASE UNCHANGED watchVars
  BY <1>1, <1>2, <1>3, <1>5, RestIsSteady, SteadyAnswered, SteadySimulated
<1>6. CASE W!InboxReceived(m)
  <2>1. WP!IInv /\ WP!InboxReceived(m) /\ WP!Running
    BY <1>1, <1>6, SameWatch DEF Carried, WP!InboxReceived
  <2>2. WP!Steady \/ WP!StartsToAwait(m) \/ WP!TakesPiece(m)
    BY <2>1, WatchAssumptions, WP!InboxSteady
  <2>3. reqId \in ReqIds /\ t \in Texts
    BY <1>1, <2>1, CarriedTypes
  <2>4. CASE WP!StartsToAwait(m)
    <3>1. /\ HasAsked(m.id) /\ m.id \in ReqIds
          /\ state = "BRIDGING" /\ state' = "BRIDGING"
          /\ watchPhone' = "AWAITING_RESULT" /\ UNCHANGED <<reqId, used>>
      <4>1. HasAsked(m.id)
        BY <1>4, <2>4 DEF WP!StartsToAwait, TrueMessages
      <4> QED
        BY <1>1, <2>4, <4>1, CarriedTypes DEF WP!StartsToAwait, HasAsked
    <3>2. m.id = reqId
      BY <2>4, <3>1, NoIdAssumption DEF WP!StartsToAwait, WP!ForThisRequest
    <3>3. HearsTheTruth'
      BY <1>3, <3>1, <3>2 DEF HearsTheTruth
    <3>4. UNCHANGED D!dictationVars
      BY <1>1, <3>1 DEF D!dictationVars, Asked
    <3> QED
      BY <1>3, <3>3, <3>4 DEF Answered, TellsTheTruth
  <2>5. CASE WP!TakesPiece(m)
    <3>1. /\ m.type = "SERVER_RESULT_CHUNK"
          /\ m \in PhoneMessages /\ m.id \in {NoId, reqId}
          /\ state = "BRIDGING" /\ UNCHANGED <<reqId, used>>
          /\ WP!Continues(m) /\ response' = WP!Extended(m)
      BY <1>4, <2>5 DEF WP!TakesPiece, TrueMessages, WP!ForThisRequest
    <3>2. m.id \in ReqIds /\ HasAsked(m.id)
      BY <1>1, <1>4, <3>1, TrueChunk
    <3>3. m.id = reqId
      BY <3>1, <3>2, NoIdAssumption
    <3>4. /\ m.index \in Nat /\ m.index < Len(t) /\ m.count = Len(t) /\ m.total = Len(t)
          /\ m.text = <<t[m.index + 1]>> /\ m.success = TRUE
      BY <1>1, <1>4, <3>1, <3>3, TrueChunk
    <3>5. PICK n \in Nat :
            /\ n = m.index /\ n < Len(t)
            /\ response'.count = Len(t) /\ response'.total = Len(t)
            /\ response'.next = n + 1 /\ response'.text = SubSeq(t, 1, n + 1)
      BY <1>1, <2>1, <2>3, <3>1, <3>2, <3>3, <3>4, PieceExtends
         DEF Answered
    <3>6. CASE response'.next = response'.count
      <4>1. state' = "DISPLAYING_RESULT" /\ response'.text = t
        <5>1. SubSeq(t, 1, Len(t)) = t /\ Len(t) = n + 1
          <6>1. t \in Seq(Pieces) /\ Len(t) = n + 1
            BY <2>3, <3>5, <3>6 DEF Texts
          <6> HIDE DEF t
          <6> QED
            BY <6>1, Beginnings
        <5> QED
          BY <2>5, <3>5, <3>6, <5>1 DEF WP!TakesPiece
      <4>2. HearsTheTruth'
        BY <4>1 DEF HearsTheTruth
      <4>3. D!Show
        <5>1. PICK i \in DOMAIN phone.requests : phone.requests[i].id = reqId
          BY <3>2, <3>3 DEF HasAsked
        <5>2. phone.requests[i].transcript = t
          BY <1>1, <5>1 DEF Carried, TrueToSpeech
        <5>3. [run |-> reqId, text |-> t] \in Asked
          BY <5>1, <5>2 DEF Asked, ToSet
        <5> QED
          BY <1>1, <3>1, <4>1, <5>3 DEF D!Show, D!Answer, Asked
      <4> QED
        BY <1>3, <4>2, <4>3 DEF Answered, TellsTheTruth, D!Next
    <3>7. CASE response'.next # response'.count
      <4>1. state' = "BRIDGING" /\ watchPhone' = "RECEIVING_RESULT"
        BY <2>5, <3>7 DEF WP!TakesPiece
      <4>2. n + 1 < Len(t)
        BY <2>3, <3>5, <3>7
      <4>3. HearsTheTruth'
        BY <1>1, <1>3, <3>1, <3>2, <3>3, <3>5, <4>1, <4>2 DEF HearsTheTruth
      <4>4. UNCHANGED D!dictationVars
        BY <1>1, <3>1, <4>1 DEF D!dictationVars, Asked
      <4> QED
        BY <1>3, <4>3, <4>4 DEF Answered, TellsTheTruth
    <3> QED
      BY <3>6, <3>7
  <2> QED
    BY <1>1, <1>2, <1>3, <2>2, <2>4, <2>5, SteadyAnswered, SteadySimulated
<1> QED
  BY <1>5, <1>6 DEF PushArrives
-----------------------------------------------------------------------------
(* The phone tells the truth.                                              *)

\* The protocol's messages as the phone's proofs instantiate them.
LEMMA SameMessages ==
  /\ \A r : PP!SendStarted(r) = SendStarted(r)
  /\ \A r, s : PP!Failure(r, s) = Failure(r, s)
  /\ \A r, success, t : PP!ResultChunks(r, success, t) = ResultChunks(r, success, t)
  /\ PP!StatusCodes = StatusCodes
BY DEF PP!SendStarted, SendStarted, PP!Failure, Failure, PP!ResultChunks, ResultChunks,
       PP!StatusCodes, StatusCodes

\* The chunks of the answer to a request that was sent are true.
LEMMA ChunksAreTrue ==
  ASSUME Carried, NEW r \in ReqIds, HasAsked(r), spoken[r] # <<>>,
         NEW j \in DOMAIN ResultChunks(r, TRUE, spoken[r])
  PROVE  ResultChunks(r, TRUE, spoken[r])[j] \in TrueMessages
<1> DEFINE t == spoken[r]
           c == ResultChunks(r, TRUE, t)[j]
           k == j - 1
<1>1. t \in Texts /\ t # <<>>
  BY CarriedTypes
<1>2. Len(t) \in Nat /\ Len(t) # 0
  BY <1>1 DEF Texts
<1>3. DOMAIN ResultChunks(r, TRUE, t) = 1 .. Len(t)
  BY <1>2 DEF ResultChunks
<1>4. k \in 0 .. Len(t) - 1 /\ k + 1 = j /\ k \in Nat /\ k < Len(t)
  <2>1. j \in 1 .. Len(t)
    BY <1>3
  <2> HIDE DEF t
  <2> QED
    BY <1>2, <2>1
<1>5. <<t[k + 1]>> \in Texts
  <2>1. t \in Seq(Pieces)
    BY <1>1 DEF Texts
  <2> HIDE DEF t, k
  <2> QED
    BY <1>4, <2>1, OneMore DEF Texts
<1>6. c = [type |-> "SERVER_RESULT_CHUNK", id |-> r, index |-> k, count |-> Len(t),
           total |-> Len(t), text |-> <<t[k + 1]>>, success |-> TRUE]
  <2> HIDE DEF t, k
  <2> QED
    BY <1>1, <1>4, ChunkFields
<1> HIDE DEF c, k
<1>7. c \in PhoneMessages
  <2> HIDE DEF t
  <2> QED
    BY <1>2, <1>4, <1>5, <1>6 DEF PhoneMessages
<1>8. c.type = "SERVER_RESULT_CHUNK" /\ c.id = r /\ c.index = k
  BY <1>6, ChunkRecord
<1>9. c = ResultChunks(r, TRUE, t)[k + 1]
  BY <1>4 DEF c
<1>10. c \in TrueMessages
  BY <1>4, <1>7, <1>8, <1>9 DEF TrueMessages
<1> QED
  BY <1>10 DEF c

\* Whatever happens to the phone, it says only what is true then.
LEMMA PhoneTells ==
  ASSUME IInv, Carried', AsksOnce, PhoneReceives \/ PhoneStep \/ PushDone, UNCHANGED spoken
  PROVE  Lasts /\ PP!Tells(phone', TrueMessages')
<1> DEFINE M == TrueMessages'
<1>1. Carried /\ Answered /\ PP!IInv
  BY DEF IInv, Carried
<1>2. Lasts
  BY DEF AsksOnce, Lasts
<1>3. /\ PP!Tells(phone, M)
      /\ \A r : HasAsked(r) => HasAsked(r)'
  BY <1>1, <1>2, TruthLasts DEF Answered, TellsTheTruth, PP!Tells
<1>4. PP!Failures \subseteq M /\ \A r \in ReqIds : PP!Failure(r, "ERROR_PROTOCOL") \in M
  <2>1. \A r \in ReqIds, s \in StatusCodes :
          Failure(r, s) \in PhoneMessages /\ Failure(r, s).type = "FAILURE"
    BY DEF PhoneMessages, Failure
  <2>2. \A r \in ReqIds, s \in StatusCodes : PP!Failure(r, s) \in M
    BY <2>1, SameMessages DEF TrueMessages
  <2>3. PP!Complaints \cup {"ERROR_PROTOCOL"} \subseteq StatusCodes
    BY DEF PP!Complaints, StatusCodes
  <2> HIDE DEF M
  <2> QED
    BY <2>2, <2>3 DEF PP!Failures
<1>5. phone'.requests # phone.requests => PP!SendStarted(phone.id) \in M
  <2>1. ASSUME phone'.requests # phone.requests PROVE SendStarted(phone.id) \in M
    <3>1. PICK r \in ReqIds : r = phone.id
      BY <2>1 DEF AsksOnce
    <3>2. HasAsked(r)'
      BY <2>1, <3>1 DEF AsksOnce, HasAsked
    <3>3. SendStarted(r) \in PhoneMessages
          /\ SendStarted(r).type = "SEND_STARTED" /\ SendStarted(r).id = r
      BY DEF PhoneMessages, SendStarted
    <3>4. SendStarted(r) \in M
      BY <3>2, <3>3 DEF TrueMessages
    <3> QED
      BY <3>1, <3>4
  <2> QED
    BY <2>1, SameMessages
<1>6. ASSUME NEW f \in Results \cup Refusals
      PROVE  PP!Answers(phone.id, f, M)
  <2> SUFFICES ASSUME f.id = phone.id, f.kind = "result"
               PROVE  /\ PP!Failure(phone.id, "ERROR_PROTOCOL") \in M
                      /\ \A j \in DOMAIN ResultChunks(phone.id, f.success, f.response) :
                           ResultChunks(phone.id, f.success, f.response)[j] \in M
    <3>1. f.kind # "protocol_error"
      BY <1>1, FrameType
    <3> QED
      BY <3>1, SameMessages DEF PP!Answers, PP!FrameKind
  <2>1. PICK i \in DOMAIN phone.requests :
          /\ f.id = phone.requests[i].id /\ f.response = phone.requests[i].transcript
          /\ f.success = TRUE
    BY <1>1, FrameType
  <2>2. /\ phone.id \in ReqIds /\ HasAsked(phone.id)
        /\ f.response = spoken[phone.id] /\ spoken[phone.id] # <<>>
    BY <1>1, <2>1, CarriedTypes DEF HasAsked, Carried, TrueToSpeech
  <2>3. \A j \in DOMAIN ResultChunks(phone.id, TRUE, spoken[phone.id]) :
          ResultChunks(phone.id, TRUE, spoken[phone.id])[j] \in TrueMessages
    BY <1>1, <2>2, ChunksAreTrue
  <2> QED
    BY <1>1, <1>2, <1>4, <2>1, <2>2, <2>3, TruthLasts
<1>7. \/ \E m \in WatchMessages :
           /\ PP!Receive(m)
           /\ PP!Accuses(phone, m) => PP!Failure(phone.id, "ERROR_PROTOCOL") \in M
      \/ PP!SocketOpens \/ PP!SocketCloses \/ PP!OnOpen
      \/ PP!OnErrorOrClose \/ PP!HandoffTimeout \/ PP!ResultTimeout
      \/ \E f \in [id : ReqIds \cup {NoId}, kind : P!FrameKinds, success : BOOLEAN,
                   response : Texts] :
           PP!OnFrame(f) /\ PP!Answers(phone.id, f, M)
      \/ \E ok \in BOOLEAN : PP!AppMessageDone(ok)
  <2>1. CASE PhoneReceives
    <3>1. Head(uplink) \in WatchMessages
      BY <1>1, <2>1, CarriedTypes DEF PhoneReceives
    <3>2. ~PP!Stopped(phone) => phone.id \in ReqIds
      BY <1>1 DEF PP!IInv, PP!Sound, PP!Core, PP!Stopped
    <3> HIDE DEF M
    <3> QED
      BY <1>4, <2>1, <3>1, <3>2, SamePhone DEF PhoneReceives, PP!Accuses
  <2>2. CASE PushDone
    <3>1. (push = "delivered") \in BOOLEAN
      OBVIOUS
    <3> QED
      BY <2>2, <3>1, SamePhone DEF PushDone
  <2>3. CASE \E f \in Results \cup Refusals : P!OnFrame(f)
    <3>1. PICK f \in Results \cup Refusals : PP!OnFrame(f)
      BY <2>3, SamePhone
    <3>2. f \in [id : ReqIds \cup {NoId}, kind : P!FrameKinds, success : BOOLEAN,
                 response : Texts]
      BY <1>1, FrameType
    <3> QED
      BY <1>6, <3>1, <3>2
  <2>4. CASE P!SocketOpens \/ P!OnOpen \/ P!SocketCloses \/ P!OnErrorOrClose
               \/ P!HandoffTimeout \/ P!ResultTimeout
    BY <2>4, SamePhone
  <2> QED
    BY <2>1, <2>2, <2>3, <2>4 DEF PhoneStep
<1> HIDE DEF M
<1>8. PP!Tells(phone', M)
  BY <1>1, <1>3, <1>4, <1>5, <1>7, PhoneAssumptions, PP!EventTells
<1> QED
  BY <1>2, <1>8 DEF M

\* The phone's steps go on unseen by the user, or put the question.
LEMMA PhoneTruth ==
  ASSUME IInv, AsksOnce, UNCHANGED <<watchVars, downlink, spoken>>,
         PP!Tells(phone', TrueMessages')
  PROVE  Answered' /\ [D!Next]_(D!dictationVars)
<1>1. Carried /\ Answered /\ WP!Steady
  BY RestIsSteady DEF IInv
<1>2. Lasts
  BY DEF AsksOnce, Lasts
<1>3. Answered'
  BY <1>1, <1>2, SteadyAnswered, StreamLasts
<1>4. CASE phone'.requests = phone.requests
  BY <1>1, <1>3, <1>4, SteadySimulated
<1>5. CASE phone'.requests # phone.requests
  <2>1. PICK i \in DOMAIN phone'.requests :
          /\ DOMAIN phone'.requests = DOMAIN phone.requests \cup {i}
          /\ phone'.requests[i].id = phone.id
          /\ phone'.requests[i].transcript = spoken[phone.id]
    BY <1>5 DEF AsksOnce
  <2>2. /\ \A k \in DOMAIN phone.requests : phone'.requests[k] = phone.requests[k]
        /\ phone.id \in ReqIds /\ spoken[phone.id] # <<>>
        /\ \A k \in DOMAIN phone.requests : phone.requests[k].id # phone.id
    BY <1>5 DEF AsksOnce
  <2> DEFINE question(q) == [run |-> q.id, text |-> q.transcript]
  <2>3. /\ Asked = {question(phone.requests[k]) : k \in DOMAIN phone.requests}
        /\ Asked' = {question(phone'.requests[k]) : k \in DOMAIN phone'.requests}
    BY DEF Asked, ToSet
  <2>4. question(phone'.requests[i]) = [run |-> phone.id, text |-> spoken[phone.id]]
    BY <2>1
  <2>5. \A q \in Asked : q.run # phone.id
    BY <2>2, <2>3
  <2> HIDE DEF question
  <2>6. Asked' = Asked \cup {[run |-> phone.id, text |-> spoken[phone.id]]}
    BY <2>1, <2>2, <2>3, <2>4
  <2>7. UNCHANGED <<state, reqId, used, response>>
    BY DEF watchVars
  <2>8. D!Ask(phone.id)
    BY <2>2, <2>5, <2>6, <2>7 DEF D!Ask
  <2> QED
    BY <1>3, <2>2, <2>8 DEF D!Next
<1> QED
  BY <1>3, <1>4, <1>5

LEMMA PhoneRestartsTruth ==
  ASSUME IInv, PhoneRestarts
  PROVE  Answered' /\ [D!Next]_(D!dictationVars)
<1>1. Carried /\ UNCHANGED <<watchVars, downlink, spoken>>
  BY DEF IInv, PhoneRestarts
<1>2. phone'.requests = phone.requests
  BY <1>1, PhoneRestartsCarried
<1>3. PP!Tells(phone', TrueMessages')
  <2>1. phone'.inflight = P!NoEntry /\ phone'.queue = <<>> /\ phone'.payloads = <<>>
    BY DEF PhoneRestarts, P!Idle
  <2> QED
    BY <2>1, OneProtocol DEF PP!Tells
<1> QED
  BY <1>1, <1>2, <1>3, PhoneTruth DEF AsksOnce

-----------------------------------------------------------------------------
(* The whole.                                                              *)

LEMMA NextAnswered ==
  ASSUME IInv, [Next]_vars
  PROVE  IInv' /\ [D!Next]_(D!dictationVars)
<1>1. Carried /\ Carried'
  BY NextCarried DEF IInv
<1>2. CASE UNCHANGED vars
  <2>1. UNCHANGED <<watchVars, phone, downlink, spoken>>
    BY <1>2 DEF vars, phoneVars, linkVars
  <2>2. AsksOnce /\ Lasts /\ Answered
    BY <2>1 DEF AsksOnce, Lasts, IInv
  <2> QED
    BY <1>1, <2>1, <2>2, TellsLasts, PhoneTruth DEF IInv
<1>3. CASE PhoneReceives \/ PhoneStep \/ PushDone
  <2>1. AsksOnce
    BY <1>1, <1>3, PhoneReceivesCarried, PhoneEventCarried
  <2>2. UNCHANGED <<watchVars, downlink, spoken>>
    BY <1>3 DEF PhoneReceives, PhoneStep, PushDone, linkVars
  <2> QED
    BY <1>1, <1>3, <2>1, <2>2, PhoneTells, PhoneTruth DEF IInv
<1> QED
  BY <1>1, <1>2, <1>3, WatchStepTruth, AppEndsTruth, OutboxTruth, PushTruth, PushLostTruth,
     PushArrivesTruth, PhoneRestartsTruth DEF Next, LinkStep, IInv

LEMMA InitAnswered == Init => IInv /\ D!Init
<1> SUFFICES ASSUME Init PROVE IInv /\ D!Init
  OBVIOUS
<1>1. Carried /\ WP!Init /\ PP!Init
  BY InitCarried, SameWatch, SamePhone DEF Init
<1>2. /\ state = "OFF" /\ used = {} /\ reqId = NoId /\ phone.requests = <<>>
      /\ phone.inflight = PP!NoEntry /\ phone.queue = <<>> /\ phone.payloads = <<>>
      /\ downlink = <<>> /\ spoken = [r \in ReqIds |-> <<>>]
  BY <1>1 DEF Init, WP!Init, PP!Init, PP!Idle
<1>3. Answered
  BY <1>2 DEF Answered, TellsTheTruth, HearsTheTruth, PP!Tells
<1>4. Asked = {}
  BY <1>2 DEF Asked, ToSet
<1> QED
  BY <1>1, <1>2, <1>3, <1>4 DEF IInv, D!Init

LEMMA AlwaysAnswered == Spec => []IInv
  BY InitAnswered, NextAnswered, PTL DEF Spec

\* Whatever is lost, late or restarted: while the watch waits for a result,
\* the request of its run was handed to the socket.
THEOREM AwaitedWasSent == Spec => []AwaitsOnlyWhatWasSent
<1>1. IInv => AwaitsOnlyWhatWasSent
  BY DEF IInv, Answered, HearsTheTruth, HasAsked, AwaitsOnlyWhatWasSent
<1> QED
  BY <1>1, AlwaysAnswered, PTL

\* The watchapp and PebbleKit JS, with all their messages, chunks, timers,
\* losses and restarts, do what Dictation says: each run asks the server once
\* at most, for exactly what was said, and shows the answer to that or fails.
THEOREM DictationIsImplemented == Spec => ImplementsDictation
<1>1. Init => D!Init
  BY InitAnswered
<1> QED
  BY <1>1, AlwaysAnswered, NextAnswered, PTL DEF Spec, ImplementsDictation, D!Spec

-----------------------------------------------------------------------------
(* Neither side is taken for a violator: what each expects of the other.   *)

\* The run of request r goes on.
Live(r) == WP!Live /\ reqId = r

\* The last chunk has left the watch, which has not heard of its delivery.
LastSent ==
  /\ WP!Transferring /\ sent /\ outbox.type = "TRANSCRIPT_CHUNK"
  /\ nextChunk + 1 = Len(transcript)

\* SEND_STARTED of request r would come at the right time, if it came after the
\* acknowledgements that are on their way; to a run that is over it always does.
ExpectsStart(r) ==
  Live(r) => state = "BRIDGING" /\ (watchPhone = "AWAITING_SEND_START" \/ LastSent)

\* So would chunk k of its result.
ExpectsChunk(r, k) ==
  Live(r) =>
    /\ state = "BRIDGING"
    /\ IF k = 0 THEN watchPhone = "AWAITING_RESULT"
                ELSE watchPhone = "RECEIVING_RESULT" /\ response.next = k

Starts == {r \in used : ExpectsStart(r)}

Chunks == {c \in used \X Nat : ExpectsChunk(c[1], c[2])}

\* The session of request r, if it is open, expects chunk k of the transcript.
Expects(p, r, k) ==
  p.id = r /\ ~PP!Stopped(p) => p.state = "RECEIVING_TRANSCRIPT" /\ p.assembler.next = k

\* Message m is the one that goes before chunk k of request r.
Precedes(m, r, k) ==
  \/ m.type = "SESSION_BEGIN" /\ m.id = r /\ k = 0
  \/ m.type = "TRANSCRIPT_CHUNK" /\ m.id = r /\ m.index + 1 = k

\* Chunk k of request r is what follows the first i messages of the uplink.
After(i, r, k) == IF i = 0 THEN Expects(phone, r, k) ELSE Precedes(uplink[i], r, k)

\* m is no chunk, or one of those that what was spoken makes.
Proper(m) == m.type = "TRANSCRIPT_CHUNK" => m.index < Len(spoken[m.id])

\* Each chunk on its way follows the one before it; and while the last one is
\* on its way the watch is ready for SEND_STARTED, unless that has been said.
UplinkFits ==
  \A i \in DOMAIN uplink :
    /\ Proper(uplink[i])
    /\ uplink[i].type = "TRANSCRIPT_CHUNK" =>
         /\ After(i - 1, uplink[i].id, uplink[i].index)
         /\ uplink[i].index + 1 = uplink[i].count /\ ~HasAsked(uplink[i].id) =>
              uplink[i].id \in Starts

\* Chunk k of request r is what the watch will put on its way next.
Sends(r, k) ==
  \/ outbox.type = "TRANSCRIPT_CHUNK" /\ ~sent /\ r = outbox.id /\ k = outbox.index
  \/ /\ WP!Transferring /\ sent /\ outbox.type = "TRANSCRIPT_CHUNK"
     /\ r = reqId /\ k = nextChunk + 1 /\ k < Len(transcript)
  \/ WP!Live /\ sent /\ outbox.type = "SESSION_BEGIN" /\ r = reqId /\ k = 0
  \/ state = "DICTATING" /\ beginDelivered /\ r = reqId /\ k = 0

OutboxFits ==
  /\ Proper(outbox)
  /\ \A r \in ReqIds, k \in Nat : Sends(r, k) => After(Len(uplink), r, k)

\* No message that accuses the watch.
Polite == {m \in PhoneMessages : m.type = "FAILURE" => m.status \in PP!Complaints}

\* Message m of the phone is on its way at the right time; when its sender is
\* gone, the phone that replaced it tells the watch nothing that depends on m.
Coming(m) ==
  /\ m \in Polite /\ PP!Awaited(m, Starts, Chunks)
  /\ push \in {"sent", "orphaned"}
  /\ push = "sent" => phone.inflight # PP!NoEntry /\ phone.inflight.msg = m
  /\ push = "orphaned" /\ m.type # "FAILURE" =>
       PP!Aligned(phone, push, Starts \ {m.id}, {c \in Chunks : c[1] # m.id})

\* On its way to the watch are the acknowledgement of the message that was sent
\* and one message of the phone at most.  No SEND_STARTED overtakes the
\* acknowledgement of the last chunk.
Downlinked ==
  \/ /\ push \notin {"sent", "orphaned"}
     /\ downlink = IF sent THEN <<Ack>> ELSE <<>>
  \/ \E m \in PhoneMessages :
       /\ Coming(m)
       /\ \/ ~sent /\ downlink = <<m>>
          \/ sent /\ downlink = <<Ack, m>>
          \/ /\ sent /\ downlink = <<m, Ack>>
             /\ ~(m.type = "SEND_STARTED" /\ Live(m.id))

\* The watch is ready for whatever the phone will tell it.
WatchReady == PP!Aligned(phone, push, Starts, Chunks) /\ Downlinked

\* The phone is ready for whatever the watch will send it.
PhoneReady == PP!Tidy(phone) /\ UplinkFits /\ OutboxFits

\* Nobody has accused the other yet, and the result is no refusal.
Friendly ==
  /\ terminalStatus # "ERROR_PROTOCOL" /\ PP!Tells(phone, Polite)
  /\ state = "BRIDGING" /\ watchPhone = "RECEIVING_RESULT" => response.success
  /\ \A r \in ReqIds : Len(spoken[r]) <= MaxResponse

Agreed == WatchReady /\ PhoneReady /\ Friendly

EIInv == IInv /\ Agreed

\* The watch expects at least what it expected.
Grows == Starts \subseteq Starts' /\ Chunks \subseteq Chunks'

LEMMA InChunks ==
  /\ \A r, k : <<r, k>> \in Chunks <=> r \in used /\ k \in Nat /\ ExpectsChunk(r, k)
  /\ \A r, k : <<r, k>> \in Chunks' <=> r \in used' /\ k \in Nat /\ ExpectsChunk(r, k)'
  /\ \A c \in Chunks : c[1] \in used /\ c[2] \in Nat /\ c = <<c[1], c[2]>>
BY DEF Chunks

\* What a run that goes on expected it still expects.
LEMMA GrowsWhen ==
  ASSUME used \subseteq used',
         \A r \in used : Live(r)' =>
           /\ ExpectsStart(r) => ExpectsStart(r)'
           /\ \A k \in Nat : ExpectsChunk(r, k) => ExpectsChunk(r, k)'
  PROVE  Grows
<1>1. \A r : ~Live(r)' => ExpectsStart(r)' /\ \A k : ExpectsChunk(r, k)'
  BY DEF ExpectsStart, ExpectsChunk
<1>2. Starts \subseteq Starts'
  BY <1>1 DEF Starts
<1>3. ASSUME NEW c \in Chunks
      PROVE  c \in Chunks'
  <2>1. c[1] \in used /\ c[2] \in Nat /\ c = <<c[1], c[2]>> /\ ExpectsChunk(c[1], c[2])
    BY <1>3, InChunks DEF Chunks
  <2>2. ExpectsChunk(c[1], c[2])' /\ c[1] \in used'
    BY <1>1, <2>1
  <2> QED
    BY <2>1, <2>2, InChunks
<1> QED
  BY <1>2, <1>3 DEF Grows

LEMMA HaltsGrows ==
  ASSUME WP!Halts, used \subseteq used', sent' = sent \/ ~WP!Live'
  PROVE  Grows /\ \A r : Live(r)' => Live(r)
<1>1. CASE ~WP!Live'
  BY <1>1, GrowsWhen DEF Live
<1>2. CASE WP!Live'
  <2>1. UNCHANGED <<state, reqId, watchPhone, response, outbox, transcript, nextChunk, sent>>
    BY <1>2 DEF WP!Halts
  <2>2. /\ \A r : Live(r)' <=> Live(r)
        /\ \A r : ExpectsStart(r)' <=> ExpectsStart(r)
        /\ \A r, k : ExpectsChunk(r, k)' <=> ExpectsChunk(r, k)
    BY <2>1 DEF Live, WP!Live, ExpectsStart, ExpectsChunk, LastSent, WP!Transferring
  <2> QED
    BY <2>2, GrowsWhen
<1> QED
  BY <1>1, <1>2

LEMMA HaltsSends ==
  ASSUME \/ WP!Halts /\ sent' = sent
         \/ ~WP!Live' /\ outbox'.type # "TRANSCRIPT_CHUNK"
  PROVE  \A r, k : Sends(r, k)' => Sends(r, k)
<1>1. CASE ~WP!Live'
  <2>1. \A r, k : Sends(r, k)' =>
          outbox'.type = "TRANSCRIPT_CHUNK" /\ ~sent' /\ r = outbox'.id /\ k = outbox'.index
    BY <1>1 DEF Sends, WP!Live, WP!Transferring
  <2> QED
    BY <2>1 DEF Sends, WP!Halts
<1>2. CASE WP!Live'
  <2>1. UNCHANGED <<state, reqId, watchPhone, outbox, transcript, nextChunk,
                    beginDelivered, sent>>
    BY <1>2 DEF WP!Halts
  <2> QED
    BY <2>1 DEF Sends, WP!Live, WP!Transferring
<1> QED
  BY <1>1, <1>2

\* A chunk of what was spoken has its count, which does not change.
LEMMA QuotedChunk ==
  ASSUME Carried, NEW m \in WatchMessages, Quotes(m), m.type = "TRANSCRIPT_CHUNK"
  PROVE  /\ m.id \in ReqIds /\ m.index \in Nat /\ spoken[m.id] # <<>>
         /\ spoken[m.id] \in Texts /\ Len(spoken[m.id]) \in Nat
         /\ m.count = Len(spoken[m.id]) /\ m.total = m.count
         /\ m.text = <<spoken[m.id][m.index + 1]>> /\ m.text \in Texts
<1>1. m.index \in Nat /\ m.text \in Texts
  BY PhoneAssumptions, PP!WatchMessageTypes, OneProtocol
<1>2. m.id \in ReqIds
  BY DEF WatchMessages
<1> QED
  BY <1>1, <1>2, CarriedTypes, MessageTypes DEF Quotes, Texts

LEMMA StillProper ==
  ASSUME Carried, Lasts, NEW m \in WatchMessages, Quotes(m), Proper(m),
         m.type = "TRANSCRIPT_CHUNK"
  PROVE  m.index < Len(spoken'[m.id])
BY QuotedChunk DEF Lasts, Proper

\* The watch does something by itself that sends no other chunk.
LEMMA PhoneStaysReady ==
  ASSUME Carried, Lasts, PhoneReady, UNCHANGED <<phone, uplink>>,
         \A r \in Starts : r \in Starts' \/ HasAsked(r),
         Proper(outbox)',
         \A r \in ReqIds, k \in Nat : Sends(r, k)' => Sends(r, k)
  PROVE  PhoneReady'
<1>1. PP!Tidy(phone')
  BY DEF PhoneReady
<1>2. \A i, r, k : After(i, r, k)' <=> After(i, r, k)
  BY DEF After, Expects, Precedes
<1>3. \A r : HasAsked(r)' <=> HasAsked(r)
  BY DEF HasAsked
<1>4. UplinkFits'
  <2> SUFFICES ASSUME NEW i \in DOMAIN uplink, uplink[i].type = "TRANSCRIPT_CHUNK"
               PROVE  /\ uplink[i].index < Len(spoken'[uplink[i].id])
                      /\ After(i - 1, uplink[i].id, uplink[i].index)
                      /\ uplink[i].index + 1 = uplink[i].count /\ ~HasAsked(uplink[i].id) =>
                           uplink[i].id \in Starts'
    BY <1>2, <1>3 DEF UplinkFits, Proper
  <2>1. uplink[i] \in WatchMessages /\ Quotes(uplink[i])
    BY CarriedTypes, PhoneAssumptions, PP!SeqElement DEF Carried, TrueToSpeech
  <2>2. uplink[i].index < Len(spoken'[uplink[i].id])
    BY <2>1, StillProper DEF PhoneReady, UplinkFits
  <2> QED
    BY <2>2 DEF PhoneReady, UplinkFits
<1>5. OutboxFits'
  BY <1>2 DEF PhoneReady, OutboxFits
<1> QED
  BY <1>1, <1>4, <1>5 DEF PhoneReady

LEMMA ComingGrows ==
  ASSUME Grows, UNCHANGED <<phone, push>>, NEW m, Coming(m)
  PROVE  Coming(m)'
<1>1. PP!Awaited(m, Starts', Chunks')
  BY DEF Coming, Grows, PP!Awaited
<1>2. push = "orphaned" /\ m.type # "FAILURE" =>
        PP!Aligned(phone, push, Starts' \ {m.id}, {c \in Chunks' : c[1] # m.id})
  <2>1. /\ Starts \ {m.id} \subseteq Starts' \ {m.id}
        /\ {c \in Chunks : c[1] # m.id} \subseteq {c \in Chunks' : c[1] # m.id}
    BY DEF Grows
  <2> QED
    BY <2>1, PhoneAssumptions, PP!AlignedMonotone DEF Coming
<1>3. Polite' = Polite
  BY DEF Polite
<1> QED
  BY <1>1, <1>2, <1>3 DEF Coming

\* The watch does something by itself and expects no less.
LEMMA WatchStaysReady ==
  ASSUME Grows, UNCHANGED <<phone, push, downlink, sent>>, WatchReady,
         \A r \in used : Live(r)' => Live(r)
  PROVE  WatchReady'
<1>1. PP!Aligned(phone', push', Starts', Chunks')
  BY PhoneAssumptions, PP!AlignedMonotone DEF WatchReady, Grows
<1>2. CASE push \notin {"sent", "orphaned"} /\ downlink = IF sent THEN <<Ack>> ELSE <<>>
  BY <1>1, <1>2 DEF WatchReady, Downlinked
<1>3. ASSUME NEW m \in PhoneMessages, Coming(m),
             \/ ~sent /\ downlink = <<m>>
             \/ sent /\ downlink = <<Ack, m>>
             \/ /\ sent /\ downlink = <<m, Ack>>
                /\ ~(m.type = "SEND_STARTED" /\ Live(m.id))
      PROVE  Downlinked'
  <2>1. Coming(m)'
    BY <1>3, ComingGrows
  <2>2. m.type = "SEND_STARTED" => m.id \in used
    BY <1>3 DEF Coming, PP!Awaited, Starts
  <2>3. \/ ~sent' /\ downlink' = <<m>>
        \/ sent' /\ downlink' = <<Ack, m>>
        \/ /\ sent' /\ downlink' = <<m, Ack>>
           /\ ~(m.type = "SEND_STARTED" /\ Live(m.id)')
    BY <1>3, <2>2
  <2> QED
    BY <2>1, <2>3 DEF Downlinked
<1> QED
  BY <1>1, <1>2, <1>3 DEF WatchReady, Downlinked

LEMMA HaltsFriendly ==
  ASSUME Friendly, WP!Halts, WP!Blameless, UNCHANGED <<phone, spoken>>
  PROVE  Friendly'
<1>1. Polite' = Polite
  BY DEF Polite
<1> QED
  BY <1>1 DEF Friendly, WP!Halts, WP!Blameless, WP!Live

\* The run halts, or stays where it is.
LEMMA HaltsAgreed ==
  ASSUME Carried, Agreed, WP!Halts, WP!Blameless, used \subseteq used',
         UNCHANGED <<phone, uplink, push, downlink, sent, spoken>>
  PROVE  Agreed'
<1>1. Grows /\ \A r : Live(r)' => Live(r)
  BY HaltsGrows
<1>2. \A r, k : Sends(r, k)' => Sends(r, k)
  BY HaltsSends
<1>3. Lasts
  BY DEF Lasts
<1>4. Proper(outbox)'
  BY DEF Proper, WP!Halts, Agreed, PhoneReady, OutboxFits
<1>5. WatchReady'
  BY <1>1, WatchStaysReady DEF Agreed
<1>6. PhoneReady'
  BY <1>1, <1>2, <1>3, <1>4, PhoneStaysReady DEF Agreed, Grows
<1> QED
  BY <1>5, <1>6, HaltsFriendly DEF Agreed

-----------------------------------------------------------------------------
(* Neither side is taken for a violator: what the watch does.              *)

\* What the outbox holds in each phase, and whether that has been sent.
LEMMA Phases ==
  ASSUME Carried
  PROVE  /\ WP!Live => reqId \in ReqIds /\ reqId \in used
         /\ state = "DICTATING" =>
              IF beginDelivered THEN outbox = NoMsg /\ ~sent
                                ELSE outbox.type = "SESSION_BEGIN" /\ outbox.id = reqId
         /\ WP!Transferring =>
              /\ transcript = spoken[reqId] /\ nextChunk \in Nat
              /\ nextChunk < Len(transcript) /\ outbox.id = reqId
              /\ \/ outbox.type = "SESSION_BEGIN"
                 \/ /\ outbox.type = "TRANSCRIPT_CHUNK" /\ outbox.index = nextChunk
                    /\ outbox.count = Len(transcript)
         /\ state = "BRIDGING" /\ ~WP!Transferring => outbox = NoMsg /\ ~sent
<1>1. WP!TypeOK /\ WP!OutboxMatchesPhase
  BY DEF Carried, WP!IInv
<1>2. nextChunk \in Nat
  BY <1>1 DEF WP!TypeOK
<1>3. WP!Live => reqId \in ReqIds /\ reqId \in used
  BY <1>1 DEF WP!Live, WP!OutboxMatchesPhase, WP!Running, Carried, Known
<1>4. /\ \A r : WP!SessionBegin(r) = SessionBegin(r)
      /\ \A r, i, t : WP!TranscriptChunk(r, i, t) = TranscriptChunk(r, i, t)
  BY DEF WP!SessionBegin, SessionBegin, WP!TranscriptChunk, TranscriptChunk
<1>5. \A r, i, t : /\ TranscriptChunk(r, i, t).type = "TRANSCRIPT_CHUNK"
                   /\ TranscriptChunk(r, i, t).id = r /\ TranscriptChunk(r, i, t).index = i
                   /\ TranscriptChunk(r, i, t).count = Len(t)
  BY MessageTypes
<1>6. state = "DICTATING" =>
        IF beginDelivered THEN outbox = NoMsg ELSE outbox = SessionBegin(reqId)
  BY <1>1, <1>4, OneProtocol DEF WP!OutboxMatchesPhase
<1>7. WP!Transferring =>
        /\ nextChunk < Len(transcript)
        /\ outbox \in {SessionBegin(reqId), TranscriptChunk(reqId, nextChunk, transcript)}
  BY <1>1, <1>4 DEF WP!OutboxMatchesPhase, WP!Transferring
<1>8. state = "BRIDGING" /\ ~WP!Transferring => outbox = NoMsg
  BY <1>1, OneProtocol DEF WP!OutboxMatchesPhase, WP!Transferring
<1> QED
  BY <1>2, <1>3, <1>5, <1>6, <1>7, <1>8, MessageTypes DEF Carried, SentIsHeld, TrueToSpeech

\* The acknowledgement is no message of the phone.
LEMMA AckIsNoMessage == Ack \notin PhoneMessages
BY DEF Ack, PhoneMessages

\* The watch expects nothing while it listens, or while it sends its transcript,
\* but for the time that the last chunk is on its way.
LEMMA ExpectsNothingYet ==
  ASSUME WP!Live, state = "DICTATING" \/ (WP!Transferring /\ ~LastSent)
  PROVE  ~ExpectsStart(reqId) /\ \A k : ~ExpectsChunk(reqId, k)
BY DEF ExpectsStart, ExpectsChunk, Live, WP!Live, WP!Transferring, LastSent

LEMMA LaunchAgreed ==
  ASSUME Carried, Agreed, NEW r \in ReqIds, W!LaunchAborted(r) \/ W!Launch(r),
         UNCHANGED <<phone, uplink, push, downlink, sent, spoken>>
  PROVE  Agreed'
<1>1. /\ WP!Blameless /\ r \notin used /\ used' = used \cup {r} /\ state = "OFF"
      /\ \/ WP!Halts
         \/ /\ state' = "DICTATING" /\ reqId' = r /\ ~beginDelivered'
            /\ outbox'.type # "TRANSCRIPT_CHUNK"
  BY SameWatch, WatchAssumptions, WP!LaunchCases DEF Carried
<1>2. CASE WP!Halts
  BY <1>1, <1>2, HaltsAgreed
<1>3. CASE state' = "DICTATING" /\ reqId' = r /\ ~beginDelivered'
             /\ outbox'.type # "TRANSCRIPT_CHUNK"
  <2>1. ~sent'
    BY <1>1, CarriedTypes DEF Carried, SentIsHeld
  <2>2. \A x \in used : ~Live(x)'
    BY <1>1, <1>3 DEF Live
  <2>3. Grows
    BY <1>1, <2>2, GrowsWhen
  <2>4. \A x, k : ~Sends(x, k)'
    BY <1>3, <2>1 DEF Sends
  <2>5. Lasts
    BY DEF Lasts
  <2>6. WatchReady'
    BY <2>2, <2>3, WatchStaysReady DEF Agreed
  <2>7. PhoneReady'
    BY <1>3, <2>3, <2>4, <2>5, PhoneStaysReady DEF Agreed, Grows, Proper
  <2>8. Friendly'
    <3>1. Polite' = Polite
      BY DEF Polite
    <3> QED
      BY <1>1, <1>3, <3>1 DEF Agreed, Friendly, WP!Blameless
  <2> QED
    BY <2>6, <2>7, <2>8 DEF Agreed
<1> QED
  BY <1>1, <1>2, <1>3

\* The server's answer to any transcript is one that the watch can take.
AnswersFit == \A t \in Transcripts : Len(t) <= MaxResponse

LEMMA DictatedAgreed ==
  ASSUME AnswersFit, Carried, Agreed, NEW t \in Transcripts, W!DictationSucceeds(t),
         spoken' = [spoken EXCEPT ![reqId] = t],
         UNCHANGED <<phone, uplink, push, downlink, sent>>
  PROVE  Agreed'
<1>1. /\ WP!Blameless /\ UNCHANGED <<reqId, used>> /\ state = "DICTATING"
      /\ \/ ~WP!Live' /\ outbox'.type # "TRANSCRIPT_CHUNK"
         \/ beginDelivered /\ WP!PostsChunk(t, 0)
         \/ WP!Transferring' /\ UNCHANGED outbox /\ outbox = WP!SessionBegin(reqId)
  BY SameWatch, WatchAssumptions, WP!DictationCases DEF Carried
<1>2. /\ WP!Live /\ reqId \in ReqIds /\ reqId \in used
      /\ spoken[reqId] = <<>> /\ (beginDelivered => ~sent)
      /\ t \in Texts /\ t # <<>> /\ Len(t) \in Nat /\ Len(t) > 0
  <2>1. t \in Texts /\ t # <<>>
    BY SystemAssumption
  <2>2. Len(t) \in Nat /\ Len(t) > 0
    BY <2>1 DEF Texts
  <2> QED
    BY <1>1, <2>1, <2>2, Phases DEF WP!Live, Carried, TrueToSpeech
<1>3. \/ ~WP!Live' /\ outbox'.type # "TRANSCRIPT_CHUNK"
      \/ /\ beginDelivered /\ WP!Transferring' /\ nextChunk' = 0
         /\ outbox'.type = "TRANSCRIPT_CHUNK" /\ outbox'.id = reqId /\ outbox'.index = 0
      \/ WP!Transferring' /\ UNCHANGED outbox /\ outbox'.type = "SESSION_BEGIN"
  <2>1. /\ \A x : WP!SessionBegin(x).type = "SESSION_BEGIN"
        /\ WP!TranscriptChunk(reqId, 0, t).type = "TRANSCRIPT_CHUNK"
        /\ WP!TranscriptChunk(reqId, 0, t).id = reqId
        /\ WP!TranscriptChunk(reqId, 0, t).index = 0
    BY DEF WP!SessionBegin, WP!TranscriptChunk
  <2> QED
    BY <1>1, <2>1 DEF WP!PostsChunk
<1>4. Grows /\ \A x : Live(x)' => Live(x)
  <2>1. \A x : Live(x)' => x = reqId
    BY <1>1 DEF Live
  <2> QED
    BY <1>1, <1>2, <2>1, ExpectsNothingYet, GrowsWhen DEF Live
<1>5. Lasts
  BY <1>2, CarriedTypes DEF Lasts
<1>6. \A x, k : Sends(x, k)' => Sends(x, k)
  <2>1. CASE ~WP!Live' /\ outbox'.type # "TRANSCRIPT_CHUNK"
    BY <2>1, HaltsSends
  <2>2. CASE /\ beginDelivered /\ WP!Transferring' /\ nextChunk' = 0
             /\ outbox'.type = "TRANSCRIPT_CHUNK" /\ outbox'.id = reqId /\ outbox'.index = 0
    BY <1>1, <1>2, <2>2 DEF Sends, WP!Transferring
  <2>3. CASE WP!Transferring' /\ UNCHANGED outbox /\ outbox'.type = "SESSION_BEGIN"
    BY <1>1, <1>2, <2>3 DEF Sends, WP!Transferring
  <2> QED
    BY <1>3, <2>1, <2>2, <2>3
<1>7. Proper(outbox)'
  <2>1. spoken'[reqId] = t
    BY <1>2, CarriedTypes
  <2> QED
    BY <1>2, <1>3, <2>1 DEF Proper
<1>8. WatchReady'
  BY <1>4, WatchStaysReady DEF Agreed
<1>9. PhoneReady'
  BY <1>4, <1>5, <1>6, <1>7, PhoneStaysReady DEF Agreed, Grows
<1>10. Friendly'
  <2>1. \A x \in ReqIds : Len(spoken'[x]) <= MaxResponse
    BY <1>2, CarriedTypes DEF Agreed, Friendly, AnswersFit
  <2>2. ~(state' = "BRIDGING" /\ watchPhone' = "RECEIVING_RESULT")
    BY <1>3 DEF WP!Live, WP!Transferring
  <2>3. Polite' = Polite
    BY DEF Polite
  <2> QED
    BY <1>1, <2>1, <2>2, <2>3 DEF Agreed, Friendly, WP!Blameless
<1> QED
  BY <1>8, <1>9, <1>10 DEF Agreed

LEMMA WatchStepAgreed ==
  ASSUME AnswersFit, Carried, Agreed, WatchStep
  PROVE  Agreed'
<1>1. UNCHANGED <<phone, uplink, push, downlink, sent>>
  BY DEF WatchStep, phoneVars
<1>2. CASE \E r \in ReqIds : (W!LaunchAborted(r) \/ W!Launch(r)) /\ UNCHANGED spoken
  BY <1>1, <1>2, LaunchAgreed
<1>3. CASE \E t \in Transcripts :
             W!DictationSucceeds(t) /\ spoken' = [spoken EXCEPT ![reqId] = t]
  BY <1>1, <1>3, DictatedAgreed
<1>4. CASE WP!Steady /\ WP!Halts /\ WP!Blameless /\ UNCHANGED spoken
  BY <1>1, <1>4, HaltsAgreed DEF WP!Steady
<1> QED
  BY <1>2, <1>3, <1>4, WatchStepCases

-----------------------------------------------------------------------------
(* Neither side is taken for a violator: what the link does.               *)

\* One message follows another.
LEMMA Following == ASSUME NEW a, NEW b PROVE Append(<<a>>, b) = <<a, b>>
<1> DEFINE S == {a, b}
           s == <<a>>
           t == <<a, b>>
           u == Append(s, b)
<1>0. s \in Seq(S) /\ b \in S
  OBVIOUS
<1>1. /\ Len(s) = 1 /\ s[1] = a
      /\ t \in Seq(S) /\ Len(t) = 2 /\ t[1] = a /\ t[2] = b
  OBVIOUS
<1> HIDE DEF s, t, S
<1>2. /\ u \in Seq(S) /\ Len(u) = Len(s) + 1
      /\ u[Len(s) + 1] = b /\ \A i \in 1 .. Len(s) : u[i] = s[i]
  BY <1>0
<1> HIDE DEF u
<1>3. Len(u) = 2 /\ u[2] = b /\ u[1] = a
  BY <1>1, <1>2
<1>4. u = t
  BY <1>1, <1>2, <1>3
<1> QED
  BY <1>4 DEF s, t, u

\* What the stream to the watch begins with, and what follows that.
LEMMA Streams ==
  ASSUME Downlinked, downlink # <<>>
  PROVE  /\ Head(downlink) = Ack =>
              /\ sent
              /\ \/ push \notin {"sent", "orphaned"} /\ Tail(downlink) = <<>>
                 \/ \E m \in PhoneMessages : Coming(m) /\ Tail(downlink) = <<m>>
         /\ Head(downlink) # Ack =>
              /\ Head(downlink) \in PhoneMessages /\ Coming(Head(downlink))
              /\ \/ ~sent /\ Tail(downlink) = <<>>
                 \/ /\ sent /\ Tail(downlink) = <<Ack>>
                    /\ Head(downlink).type = "SEND_STARTED" => ~Live(Head(downlink).id)
<1>1. /\ \A m : Head(<<m>>) = m /\ Tail(<<m>>) = <<>>
      /\ \A m, n : Head(<<m, n>>) = m /\ Tail(<<m, n>>) = <<n>>
  OBVIOUS
<1>2. CASE push \notin {"sent", "orphaned"} /\ downlink = IF sent THEN <<Ack>> ELSE <<>>
  BY <1>1, <1>2
<1>3. ASSUME NEW m \in PhoneMessages, Coming(m),
             \/ ~sent /\ downlink = <<m>>
             \/ sent /\ downlink = <<Ack, m>>
             \/ /\ sent /\ downlink = <<m, Ack>>
                /\ ~(m.type = "SEND_STARTED" /\ Live(m.id))
      PROVE  /\ Head(downlink) = Ack => sent /\ Tail(downlink) = <<m>>
             /\ Head(downlink) # Ack =>
                  /\ Head(downlink) = m
                  /\ \/ ~sent /\ Tail(downlink) = <<>>
                     \/ /\ sent /\ Tail(downlink) = <<Ack>>
                        /\ m.type = "SEND_STARTED" => ~Live(m.id)
  <2>1. m # Ack
    BY <1>3, AckIsNoMessage
  <2>2. CASE ~sent /\ downlink = <<m>>
    <3>1. Head(downlink) = m /\ Tail(downlink) = <<>>
      BY <1>1, <2>2
    <3> QED
      BY <2>1, <2>2, <3>1
  <2>3. CASE sent /\ downlink = <<Ack, m>>
    <3>1. Head(downlink) = Ack /\ Tail(downlink) = <<m>>
      BY <1>1, <2>3
    <3> QED
      BY <2>3, <3>1
  <2>4. CASE sent /\ downlink = <<m, Ack>> /\ ~(m.type = "SEND_STARTED" /\ Live(m.id))
    <3>1. Head(downlink) = m /\ Tail(downlink) = <<Ack>>
      BY <1>1, <2>4
    <3> QED
      BY <2>1, <2>4, <3>1
  <2> QED
    BY <1>3, <2>2, <2>3, <2>4
<1> QED
  BY <1>2, <1>3 DEF Downlinked

\* The run is over, and with it what the outbox held.
LEMMA OverAgreed ==
  ASSUME Carried, Agreed, ~WP!Live', outbox'.type # "TRANSCRIPT_CHUNK", WP!Blameless,
         used' = used, ~sent',
         \/ downlink' = WithoutAcks(downlink)
         \/ downlink # <<>> /\ Head(downlink) = Ack /\ downlink' = Tail(downlink),
         UNCHANGED <<phone, uplink, push, spoken>>
  PROVE  Agreed'
<1>1. Grows
  BY GrowsWhen DEF Live
<1>2. \A r, k : Sends(r, k)' => Sends(r, k)
  BY HaltsSends
<1>3. Lasts
  BY DEF Lasts
<1>4. PhoneReady'
  BY <1>1, <1>2, <1>3, PhoneStaysReady DEF Agreed, Grows, Proper
<1>5. Downlinked'
  <2>1. \/ push \notin {"sent", "orphaned"} /\ downlink' = <<>>
        \/ \E m \in PhoneMessages : Coming(m) /\ downlink' = <<m>>
    <3>1. CASE downlink' = WithoutAcks(downlink)
      BY <3>1, AcksDropped, AckIsNoMessage DEF Agreed, WatchReady, Downlinked
    <3>2. CASE downlink # <<>> /\ Head(downlink) = Ack /\ downlink' = Tail(downlink)
      BY <3>2, Streams DEF Agreed, WatchReady
    <3> QED
      BY <3>1, <3>2
  <2> QED
    BY <1>1, <2>1, ComingGrows DEF Downlinked
<1>6. PP!Aligned(phone', push', Starts', Chunks')
  BY <1>1, PhoneAssumptions, PP!AlignedMonotone DEF Agreed, WatchReady, Grows
<1>7. Friendly'
  <2>1. Polite' = Polite
    BY DEF Polite
  <2> QED
    BY <2>1 DEF Agreed, Friendly, WP!Blameless, WP!Live
<1> QED
  BY <1>4, <1>5, <1>6, <1>7 DEF Agreed, WatchReady

LEMMA UndeliveredAgreed ==
  ASSUME Carried, Agreed, AppEnds \/ OutboxLost
  PROVE  Agreed'
<1>1. WP!IInv /\ (WP!OutboxFailed \/ WP!Deinit)
  BY SameWatch DEF Carried, AppEnds, OutboxLost
<1>2. ~WP!Live' /\ outbox'.type # "TRANSCRIPT_CHUNK" /\ WP!Blameless
  BY <1>1, WatchAssumptions, WP!UndeliveredHalts
<1>3. used' = used
  BY <1>1 DEF WP!OutboxFailed, WP!Deinit
<1>4. /\ ~sent' /\ downlink' = WithoutAcks(downlink)
      /\ UNCHANGED <<phone, uplink, push, spoken>>
  BY DEF AppEnds, OutboxLost, phoneVars
<1> QED
  BY <1>2, <1>3, <1>4, OverAgreed

\* The delivery of a message brings the next chunk, or ends the transfer.
LEMMA AckArrivesAgreed ==
  ASSUME Carried, Carried', Agreed, AckArrives
  PROVE  Agreed'
<1>1. /\ downlink # <<>> /\ Head(downlink) = Ack /\ downlink' = Tail(downlink) /\ ~sent'
      /\ UNCHANGED <<phone, uplink, push, spoken>>
  BY DEF AckArrives, phoneVars
<1>2. /\ sent
      /\ \/ push \notin {"sent", "orphaned"} /\ downlink' = <<>>
         \/ \E m \in PhoneMessages : Coming(m) /\ downlink' = <<m>>
  BY <1>1, Streams DEF Agreed, WatchReady
<1>3. /\ WP!Blameless /\ UNCHANGED <<reqId, used>>
      /\ \/ ~WP!Live' /\ outbox'.type # "TRANSCRIPT_CHUNK"
         \/ /\ state = "DICTATING" /\ outbox = WP!SessionBegin(reqId)
            /\ UNCHANGED state /\ outbox' = WP!NoMsg
         \/ /\ WP!Transferring /\ outbox = WP!SessionBegin(reqId) /\ nextChunk = 0
            /\ WP!PostsChunk(transcript, 0)
         \/ /\ WP!Transferring /\ outbox = WP!TranscriptChunk(reqId, nextChunk, transcript)
            /\ nextChunk + 1 < Len(transcript)
            /\ WP!PostsChunk(transcript, nextChunk + 1)
         \/ /\ WP!Transferring /\ outbox = WP!TranscriptChunk(reqId, nextChunk, transcript)
            /\ nextChunk + 1 = Len(transcript) /\ outbox' = WP!NoMsg
            /\ UNCHANGED state /\ watchPhone' = "AWAITING_SEND_START"
  BY SameWatch, WatchAssumptions, WP!DeliveredCases DEF Carried, AckArrives
<1>4. /\ \A x : WP!SessionBegin(x).type = "SESSION_BEGIN"
      /\ \A x, i, t : /\ WP!TranscriptChunk(x, i, t).type = "TRANSCRIPT_CHUNK"
                      /\ WP!TranscriptChunk(x, i, t).id = x
                      /\ WP!TranscriptChunk(x, i, t).index = i
      /\ WP!NoMsg.type = "NONE"
  BY DEF WP!SessionBegin, WP!TranscriptChunk, WP!NoMsg
<1>5. CASE ~WP!Live' /\ outbox'.type # "TRANSCRIPT_CHUNK"
  BY <1>1, <1>3, <1>5, OverAgreed
<1>6. CASE \/ /\ state = "DICTATING" /\ outbox.type = "SESSION_BEGIN"
              /\ UNCHANGED state /\ outbox'.type = "NONE"
           \/ /\ WP!Transferring /\ outbox.type = "SESSION_BEGIN"
              /\ WP!Transferring' /\ nextChunk' = 0 /\ transcript' = transcript
              /\ outbox'.type = "TRANSCRIPT_CHUNK" /\ outbox'.id = reqId
              /\ outbox'.index = 0
           \/ /\ WP!Transferring /\ outbox.type = "TRANSCRIPT_CHUNK"
              /\ nextChunk + 1 < Len(transcript)
              /\ WP!Transferring' /\ nextChunk' = nextChunk + 1 /\ transcript' = transcript
              /\ outbox'.type = "TRANSCRIPT_CHUNK" /\ outbox'.id = reqId
              /\ outbox'.index = nextChunk + 1
           \/ /\ WP!Transferring /\ outbox.type = "TRANSCRIPT_CHUNK"
              /\ nextChunk + 1 = Len(transcript) /\ outbox'.type = "NONE"
              /\ UNCHANGED state /\ watchPhone' = "AWAITING_SEND_START"
  <2>1. WP!Live /\ reqId \in ReqIds /\ reqId \in used
    BY <1>6, Phases DEF WP!Live, WP!Transferring
  <2>2. Grows
    <3>1. \A x : Live(x)' => x = reqId
      BY <1>3 DEF Live
    <3>2. ~LastSent \/ (state' = "BRIDGING" /\ watchPhone' = "AWAITING_SEND_START")
      <4>1. LastSent => nextChunk + 1 = Len(transcript) /\ outbox.type = "TRANSCRIPT_CHUNK"
                        /\ WP!Transferring
        BY DEF LastSent
      <4>2. nextChunk + 1 < Len(transcript) => nextChunk + 1 # Len(transcript)
        OBVIOUS
      <4> QED
        BY <1>6, <4>1, <4>2 DEF WP!Transferring
    <3>3. ~LastSent => ~ExpectsStart(reqId)
      BY <1>6, <2>1, ExpectsNothingYet
    <3>4. \A k : ~ExpectsChunk(reqId, k)
      BY <1>6, <2>1 DEF ExpectsChunk, Live, WP!Transferring
    <3>5. \A x : state' = "BRIDGING" /\ watchPhone' = "AWAITING_SEND_START" => ExpectsStart(x)'
      BY DEF ExpectsStart
    <3> QED
      BY <1>3, <3>1, <3>2, <3>3, <3>4, <3>5, GrowsWhen
  <2>3. ASSUME NEW x, NEW k, Sends(x, k)'
        PROVE  Sends(x, k)
    <3>1. \/ outbox'.type = "TRANSCRIPT_CHUNK" /\ x = outbox'.id /\ k = outbox'.index
          \/ state' = "DICTATING" /\ x = reqId /\ k = 0
      BY <1>1, <1>3, <2>3 DEF Sends
    <3> QED
      BY <1>2, <1>6, <2>1, <3>1 DEF Sends, WP!Transferring, WP!Live
  <2>4. Lasts
    BY <1>1 DEF Lasts
  <2>5. Proper(outbox)'
    <3>1. outbox'.type = "TRANSCRIPT_CHUNK" => WP!Transferring' /\ outbox'.index = nextChunk'
                                              /\ outbox'.id = reqId'
      BY <1>3, <1>6
    <3>2. WP!Transferring' => transcript' = spoken'[reqId'] /\ nextChunk' < Len(transcript')
      BY DEF Carried, TrueToSpeech, WP!IInv, WP!OutboxMatchesPhase, WP!Transferring
    <3> QED
      BY <3>1, <3>2 DEF Proper
  <2>6. PhoneReady'
    BY <1>1, <2>2, <2>3, <2>4, <2>5, PhoneStaysReady DEF Agreed, Grows
  <2>7. Downlinked'
    BY <1>1, <1>2, <2>2, ComingGrows DEF Downlinked
  <2>8. PP!Aligned(phone', push', Starts', Chunks')
    BY <1>1, <2>2, PhoneAssumptions, PP!AlignedMonotone DEF Agreed, WatchReady, Grows
  <2>9. Friendly'
    <3>1. ~(state' = "BRIDGING" /\ watchPhone' = "RECEIVING_RESULT")
      BY <1>6 DEF WP!Transferring
    <3>2. Polite' = Polite
      BY DEF Polite
    <3> QED
      BY <1>1, <1>3, <3>1, <3>2 DEF Agreed, Friendly, WP!Blameless
  <2> QED
    BY <2>6, <2>7, <2>8, <2>9 DEF Agreed, WatchReady
<1> QED
  BY <1>3, <1>4, <1>5, <1>6 DEF WP!PostsChunk

\* A message leaves the outbox for the phone.
LEMMA TransmitAgreed ==
  ASSUME Carried, Agreed, Transmit
  PROVE  Agreed'
<1>1. /\ UNCHANGED <<phone, push, spoken>>
      /\ outbox # NoMsg /\ ~sent /\ sent'
      /\ uplink' = Append(uplink, outbox) /\ downlink' = Append(downlink, Ack)
  BY OneProtocol DEF Transmit, phoneVars
<1>2. UNCHANGED <<state, reqId, used, watchPhone, transcript, nextChunk, beginDelivered,
                  outbox, response, terminalStatus>>
  BY DEF Transmit, watchVars
<1>3. outbox \in WatchMessages /\ Quotes(outbox)
  BY <1>1, CarriedTypes DEF Carried, TrueToSpeech
<1>4. PICK n \in Nat :
        /\ Len(uplink) = n /\ DOMAIN uplink = 1 .. n
        /\ Len(uplink') = n + 1 /\ DOMAIN uplink' = 1 .. n + 1
        /\ uplink'[n + 1] = outbox /\ \A i \in 1 .. n : uplink'[i] = uplink[i]
  <2>1. uplink \in Seq(WatchMessages)
    BY CarriedTypes
  <2>2. Len(uplink) \in Nat /\ DOMAIN uplink = 1 .. Len(uplink)
    BY <2>1
  <2>3. /\ Len(uplink') = Len(uplink) + 1 /\ DOMAIN uplink' = 1 .. Len(uplink) + 1
        /\ uplink'[Len(uplink) + 1] = outbox
        /\ \A i \in 1 .. Len(uplink) : uplink'[i] = uplink[i]
    BY <1>1, <1>3, <2>1, PhoneAssumptions, PP!AppendFacts
  <2> QED
    BY <2>2, <2>3
<1>5. /\ \A r : Live(r)' <=> Live(r)
      /\ \A r : ExpectsStart(r) => ExpectsStart(r)'
      /\ \A r, k : ExpectsChunk(r, k)' <=> ExpectsChunk(r, k)
  BY <1>1, <1>2 DEF Live, WP!Live, ExpectsStart, ExpectsChunk, LastSent
<1>6. Grows
  BY <1>2, <1>5, GrowsWhen
<1>7. UplinkFits'
  <2>1. \A i \in 0 .. n : \A r, k : After(i, r, k) => After(i, r, k)'
    <3> SUFFICES ASSUME NEW i \in 0 .. n, NEW r, NEW k, After(i, r, k)
                 PROVE  After(i, r, k)'
      OBVIOUS
    <3>1. i # 0 => uplink'[i] = uplink[i]
      BY <1>4
    <3> QED
      BY <1>1, <3>1 DEF After, Expects, Precedes
  <2>2. \A r : HasAsked(r)' <=> HasAsked(r)
    BY <1>1 DEF HasAsked
  <2>3. ASSUME NEW i \in 1 .. n, NEW m, m = uplink[i], m.type = "TRANSCRIPT_CHUNK"
        PROVE  /\ m.index < Len(spoken[m.id])
               /\ After(i - 1, m.id, m.index)'
               /\ m.index + 1 = m.count /\ ~HasAsked(m.id)' => m.id \in Starts'
    <3>1. i - 1 \in 0 .. n
      BY <1>4
    <3>2. /\ m.index < Len(spoken[m.id])
          /\ After(i - 1, m.id, m.index)
          /\ m.index + 1 = m.count /\ ~HasAsked(m.id) => m.id \in Starts
      BY <1>4, <2>3 DEF Agreed, PhoneReady, UplinkFits, Proper
    <3> QED
      BY <1>6, <2>1, <2>2, <3>1, <3>2 DEF Grows
  <2>4. ASSUME NEW i, i = n + 1, NEW m, m = outbox, m.type = "TRANSCRIPT_CHUNK"
        PROVE  /\ m.index < Len(spoken[m.id])
               /\ After(i - 1, m.id, m.index)'
               /\ m.index + 1 = m.count /\ ~HasAsked(m.id)' => m.id \in Starts'
    <3>1. m.index \in Nat /\ m.id \in ReqIds
      BY <1>3, <2>4, QuotedChunk
    <3>2. m.index < Len(spoken[m.id])
      BY <2>4 DEF Agreed, PhoneReady, OutboxFits, Proper
    <3>3. Sends(m.id, m.index)
      BY <1>1, <2>4 DEF Sends
    <3>4. After(n, m.id, m.index)
      BY <1>4, <3>1, <3>3 DEF Agreed, PhoneReady, OutboxFits
    <3>5. m.index + 1 = m.count => m.id \in Starts'
      <4>1. m.id \in used'
        BY <1>1, <1>2, <2>4 DEF Carried, Known
      <4>2. ASSUME m.index + 1 = m.count, Live(m.id)'
            PROVE  state' = "BRIDGING" /\ LastSent'
        <5>1. WP!Live /\ outbox.type = "TRANSCRIPT_CHUNK"
          BY <1>5, <2>4, <4>2 DEF Live
        <5>2. WP!Transferring
          BY <5>1, Phases, MessageTypes DEF WP!Live
        <5>3. nextChunk + 1 = Len(transcript)
          BY <2>4, <4>2, <5>1, <5>2, Phases
        <5> QED
          BY <1>1, <1>2, <5>1, <5>2, <5>3 DEF LastSent, WP!Transferring
      <4> QED
        BY <4>1, <4>2 DEF Starts, ExpectsStart
    <3>6. i - 1 = n /\ n \in 0 .. n
      BY <1>4, <2>4
    <3>7. PICK j : j = n /\ j \in 0 .. n /\ i - 1 = j
      BY <3>6
    <3>8. After(j, m.id, m.index)
      BY <3>4, <3>7
    <3>9. After(j, m.id, m.index)'
      BY <2>1, <3>7, <3>8
    <3> QED
      BY <3>2, <3>5, <3>7, <3>9
  <2>5. ASSUME NEW i \in 1 .. n + 1, NEW m, m = uplink'[i], m.type = "TRANSCRIPT_CHUNK"
        PROVE  /\ m.index < Len(spoken'[m.id])
               /\ After(i - 1, m.id, m.index)'
               /\ m.index + 1 = m.count /\ ~HasAsked(m.id)' => m.id \in Starts'
    <3>1. CASE i \in 1 .. n
      BY <1>1, <1>4, <2>3, <2>5, <3>1
    <3>2. CASE i = n + 1
      <4>1. m = outbox
        BY <1>4, <2>5, <3>2
      <4> QED
        BY <1>1, <2>4, <2>5, <3>2, <4>1
    <3> QED
      BY <1>4, <3>1, <3>2
  <2> QED
    BY <1>4, <2>5 DEF UplinkFits, Proper
<1>8. OutboxFits'
  <2>1. Proper(outbox)'
    BY <1>1, <1>2 DEF Agreed, PhoneReady, OutboxFits, Proper
  <2>2. ASSUME NEW r \in ReqIds, NEW k \in Nat, Sends(r, k)'
        PROVE  After(Len(uplink), r, k)'
    <3>1. \/ /\ WP!Transferring /\ outbox.type = "TRANSCRIPT_CHUNK"
             /\ r = reqId /\ k = nextChunk + 1
          \/ WP!Live /\ outbox.type = "SESSION_BEGIN" /\ r = reqId /\ k = 0
          \/ state = "DICTATING" /\ beginDelivered
      BY <1>1, <1>2, <2>2 DEF Sends, WP!Transferring, WP!Live
    <3>2. Precedes(outbox, r, k)
      BY <1>1, <3>1, Phases DEF Precedes, WP!Live, WP!Transferring
    <3>3. Len(uplink') # 0 /\ uplink'[Len(uplink')] = outbox
      BY <1>4
    <3> QED
      BY <3>2, <3>3 DEF After, Precedes
  <2> QED
    BY <2>1, <2>2 DEF OutboxFits
<1>9. PhoneReady'
  BY <1>1, <1>7, <1>8 DEF Agreed, PhoneReady
<1>10. Downlinked'
  <2>1. CASE push \notin {"sent", "orphaned"} /\ downlink = IF sent THEN <<Ack>> ELSE <<>>
    <3>1. Append(<<>>, Ack) = <<Ack>>
      OBVIOUS
    <3> QED
      BY <1>1, <2>1, <3>1 DEF Downlinked
  <2>2. ASSUME NEW m \in PhoneMessages, Coming(m), downlink = <<m>>
        PROVE  Downlinked'
    <3>1. Append(<<m>>, Ack) = <<m, Ack>>
      BY Following
    <3>2. m.type = "SEND_STARTED" => ~Live(m.id)
      <4>1. m.type = "SEND_STARTED" => ExpectsStart(m.id)
        BY <2>2 DEF Coming, PP!Awaited, Starts
      <4>2. state = "BRIDGING" /\ watchPhone = "AWAITING_SEND_START" => outbox = NoMsg
        BY Phases DEF WP!Transferring
      <4> QED
        BY <1>1, <4>1, <4>2 DEF ExpectsStart, LastSent
    <3> QED
      BY <1>1, <1>5, <1>6, <2>2, <3>1, <3>2, ComingGrows DEF Downlinked
  <2> QED
    BY <1>1, <2>1, <2>2 DEF Agreed, WatchReady, Downlinked
<1>11. PP!Aligned(phone', push', Starts', Chunks')
  BY <1>1, <1>6, PhoneAssumptions, PP!AlignedMonotone DEF Agreed, WatchReady, Grows
<1>12. Friendly'
  <2>1. Polite' = Polite
    BY DEF Polite
  <2> QED
    BY <1>1, <1>2, <2>1 DEF Agreed, Friendly
<1> QED
  BY <1>9, <1>10, <1>11, <1>12 DEF Agreed, WatchReady

-----------------------------------------------------------------------------
(* Neither side is taken for a violator: what the phone receives.          *)

\* The watch does nothing: it expects and sends what it did.
LEMMA WatchRests ==
  ASSUME UNCHANGED <<watchVars, sent>>
  PROVE  /\ Starts' = Starts /\ Chunks' = Chunks
         /\ \A r : Live(r)' <=> Live(r)
         /\ \A r, k : Sends(r, k)' <=> Sends(r, k)
<1>1. UNCHANGED <<state, reqId, used, watchPhone, outbox, beginDelivered, transcript,
                  nextChunk, response, sent>>
  BY DEF watchVars
<1>2. /\ \A r : Live(r)' <=> Live(r)
      /\ \A r : ExpectsStart(r)' <=> ExpectsStart(r)
      /\ \A r, k : ExpectsChunk(r, k)' <=> ExpectsChunk(r, k)
      /\ \A r, k : Sends(r, k)' <=> Sends(r, k)
  BY <1>1 DEF Live, WP!Live, ExpectsStart, ExpectsChunk, Sends, LastSent, WP!Transferring
<1>3. Starts' = Starts
  BY <1>1, <1>2 DEF Starts
<1>4. Chunks' = Chunks
  BY <1>1, <1>2 DEF Chunks
<1> QED
  BY <1>2, <1>3, <1>4

\* What is on its way to the watch is true.
LEMMA OnTheWay ==
  ASSUME IInv, NEW m \in PhoneMessages,
         downlink \in {<<m>>, <<Ack, m>>, <<m, Ack>>}
  PROVE  m \in TrueMessages
<1> DEFINE S == TrueMessages
<1>1. downlink \in Seq(S \cup {Ack})
  BY DEF IInv, Answered, TellsTheTruth
<1> HIDE DEF S
<1>2. \A x, y : /\ DOMAIN <<x>> = {1} /\ <<x>>[1] = x
                /\ DOMAIN <<x, y>> = {1, 2} /\ <<x, y>>[1] = x /\ <<x, y>>[2] = y
  OBVIOUS
<1>3. \E i \in DOMAIN downlink : downlink[i] = m
  BY <1>2
<1>4. m \in S \cup {Ack}
  BY <1>1, <1>3, PhoneAssumptions, PP!SeqElement
<1> QED
  BY <1>4, AckIsNoMessage DEF S

\* What the phone tells of a request, other than its failure, it tells after
\* the request was sent.
LEMMA ToldAfterAsked ==
  ASSUME NEW m \in TrueMessages, m.type # "FAILURE"
  PROVE  HasAsked(m.id)
BY DEF TrueMessages, PhoneMessages

\* The phone does something that neither takes nor sends a message, and keeps its
\* line, also as one without the message that its predecessor left behind.
LEMMA PhoneKeepsComing ==
  ASSUME IInv, Agreed, UNCHANGED <<watchVars, push, downlink, sent>>, PP!Holds(phone, phone'),
         PP!Aligned(phone', push, Starts, Chunks),
         \A m \in TrueMessages :
           /\ m.type # "FAILURE"
           /\ PP!Aligned(phone, push, Starts \ {m.id}, {c \in Chunks : c[1] # m.id})
           => PP!Aligned(phone', push, Starts \ {m.id}, {c \in Chunks : c[1] # m.id})
  PROVE  WatchReady'
<1>1. Starts' = Starts /\ Chunks' = Chunks /\ \A r : Live(r)' <=> Live(r)
  BY WatchRests
<1>2. ASSUME NEW m \in PhoneMessages, Coming(m), m \in TrueMessages
      PROVE  Coming(m)'
  <2>1. Polite' = Polite
    BY DEF Polite
  <2>2. PP!Awaited(m, Starts', Chunks')
    BY <1>1, <1>2 DEF Coming
  <2>3. push = "sent" => phone'.inflight # PP!NoEntry /\ phone'.inflight.msg = m
    BY <1>2 DEF Coming, PP!Holds
  <2>4. push = "orphaned" /\ m.type # "FAILURE" =>
          PP!Aligned(phone', push, Starts' \ {m.id}, {c \in Chunks' : c[1] # m.id})
    BY <1>1, <1>2 DEF Coming
  <2> QED
    BY <1>2, <2>1, <2>2, <2>3, <2>4 DEF Coming
<1>3. Downlinked'
  <2>1. CASE push \notin {"sent", "orphaned"} /\ downlink = IF sent THEN <<Ack>> ELSE <<>>
    BY <2>1 DEF Downlinked
  <2>2. ASSUME NEW m \in PhoneMessages, Coming(m),
               \/ ~sent /\ downlink = <<m>>
               \/ sent /\ downlink = <<Ack, m>>
               \/ /\ sent /\ downlink = <<m, Ack>>
                  /\ ~(m.type = "SEND_STARTED" /\ Live(m.id))
        PROVE  Downlinked'
    <3>1. m \in TrueMessages
      BY <2>2, OnTheWay
    <3>2. Coming(m)'
      BY <1>2, <2>2, <3>1
    <3>3. \/ ~sent' /\ downlink' = <<m>>
          \/ sent' /\ downlink' = <<Ack, m>>
          \/ /\ sent' /\ downlink' = <<m, Ack>>
             /\ ~(m.type = "SEND_STARTED" /\ Live(m.id)')
      BY <1>1, <2>2
    <3> QED
      BY <3>2, <3>3 DEF Downlinked
  <2> QED
    BY <2>1, <2>2 DEF Agreed, WatchReady, Downlinked
<1> QED
  BY <1>1, <1>3 DEF WatchReady

\* The message that the phone receives, and what is left of the uplink.
LEMMA FirstInLine ==
  ASSUME Carried, Agreed, uplink # <<>>, NEW m, m = Head(uplink)
  PROVE  /\ m \in WatchMessages /\ Quotes(m) /\ Proper(m)
         /\ m.type = "TRANSCRIPT_CHUNK" =>
              /\ Expects(phone, m.id, m.index)
              /\ m.index + 1 = m.count /\ ~HasAsked(m.id) => m.id \in Starts
         /\ m.type = "SESSION_BEGIN" => ~Begun(m.id)
         /\ \E n \in Nat :
              /\ Len(uplink) = n + 1 /\ Len(Tail(uplink)) = n
              /\ DOMAIN uplink = 1 .. n + 1 /\ DOMAIN Tail(uplink) = 1 .. n
              /\ uplink[1] = m /\ \A i \in 1 .. n : Tail(uplink)[i] = uplink[i + 1]
<1>1. uplink \in Seq(WatchMessages)
  BY CarriedTypes
<1>2. /\ m \in WatchMessages /\ m = uplink[1] /\ 1 \in DOMAIN uplink
      /\ Len(uplink) \in Nat /\ Len(uplink) > 0 /\ DOMAIN uplink = 1 .. Len(uplink)
      /\ Len(Tail(uplink)) = Len(uplink) - 1
      /\ DOMAIN Tail(uplink) = 1 .. Len(uplink) - 1
      /\ \A i \in 1 .. Len(uplink) - 1 : Tail(uplink)[i] = uplink[i + 1]
  <2> DEFINE S == WatchMessages
  <2>1. uplink \in Seq(S)
    BY <1>1
  <2> HIDE DEF S
  <2>2. /\ m \in S /\ m = uplink[1] /\ 1 \in DOMAIN uplink
        /\ Len(uplink) \in Nat /\ Len(uplink) > 0 /\ DOMAIN uplink = 1 .. Len(uplink)
        /\ Len(Tail(uplink)) = Len(uplink) - 1
        /\ DOMAIN Tail(uplink) = 1 .. Len(uplink) - 1
        /\ \A i \in 1 .. Len(uplink) - 1 : Tail(uplink)[i] = uplink[i + 1]
    BY <2>1
  <2> QED
    BY <2>2 DEF S
<1>3. /\ Proper(m)
      /\ m.type = "TRANSCRIPT_CHUNK" =>
           /\ After(0, m.id, m.index)
           /\ m.index + 1 = m.count /\ ~HasAsked(m.id) => m.id \in Starts
  <2>1. 1 - 1 = 0
    OBVIOUS
  <2> QED
    BY <1>2, <2>1 DEF Agreed, PhoneReady, UplinkFits
<1>4. Quotes(m)
  BY <1>2 DEF Carried, TrueToSpeech
<1>5. m.type = "SESSION_BEGIN" => ~Begun(m.id)
  BY <1>2 DEF Carried, BeginsOnce
<1>6. \E n \in Nat :
        /\ Len(uplink) = n + 1 /\ Len(Tail(uplink)) = n
        /\ DOMAIN uplink = 1 .. n + 1 /\ DOMAIN Tail(uplink) = 1 .. n
        /\ uplink[1] = m /\ \A i \in 1 .. n : Tail(uplink)[i] = uplink[i + 1]
  <2>1. PICK n \in Nat : n = Len(uplink) - 1
    <3>1. \A k \in Nat : k > 0 => \E n \in Nat : n = k - 1
      OBVIOUS
    <3> QED
      BY <1>2, <3>1
  <2>2. Len(uplink) = n + 1
    BY <1>2, <2>1
  <2> QED
    BY <1>2, <2>1, <2>2
<1> QED
  BY <1>2, <1>3, <1>4, <1>5, <1>6 DEF After

\* A chunk of what was spoken parses.
LEMMA ChunkParses ==
  ASSUME Carried, NEW m \in WatchMessages, Quotes(m), Proper(m)
  PROVE  PP!Parses(m)
<1>1. m.type # "MALFORMED"
  BY DEF WatchMessages
<1>2. ASSUME m.type = "TRANSCRIPT_CHUNK"
      PROVE  m.count > 0 /\ m.total > 0 /\ m.index < m.count /\ m.text # <<>>
  <2>1. /\ m.index \in Nat /\ Len(spoken[m.id]) \in Nat
        /\ m.count = Len(spoken[m.id]) /\ m.total = m.count
        /\ m.text = <<spoken[m.id][m.index + 1]>>
    BY <1>2, QuotedChunk
  <2>2. m.index < Len(spoken[m.id])
    BY <1>2 DEF Proper
  <2>3. \A a : <<a>> # <<>>
    OBVIOUS
  <2> QED
    BY <2>1, <2>2, <2>3
<1> QED
  BY <1>1, <1>2 DEF PP!Parses

\* What the session has heard are chunks of what was spoken in its run, as many
\* as it has collected.
LEMMA HeardSoFar ==
  ASSUME Carried, phone.state = "RECEIVING_TRANSCRIPT", phone.assembler.next # 0
  PROVE  /\ phone.id \in ReqIds /\ phone.assembler.count = Len(spoken[phone.id])
         /\ phone.assembler.total = Len(spoken[phone.id])
<1>1. /\ heard \in Seq(WatchMessages) /\ phone.assembler.next = Len(heard)
      /\ PP!Gathered(heard, phone.id, phone.assembler.count, phone.assembler.total)
  BY OneProtocol DEF Carried, PP!IInv, PP!Heard
<1>2. 1 \in DOMAIN heard /\ heard[1] \in WatchMessages
  BY <1>1
<1>3. /\ heard[1].type = "TRANSCRIPT_CHUNK" /\ Quotes(heard[1])
      /\ heard[1].id = phone.id
      /\ heard[1].count = phone.assembler.count /\ heard[1].total = phone.assembler.total
  BY <1>1, <1>2 DEF Carried, TrueToSpeech, PP!Gathered
<1> QED
  BY <1>2, <1>3, QuotedChunk

\* The phone takes no message of the watch for a violation.
LEMMA NotAccused ==
  ASSUME Carried, Agreed, uplink # <<>>, NEW m, m = Head(uplink)
  PROVE  ~PP!Accuses(phone, m)
<1>1. /\ m \in WatchMessages /\ Quotes(m) /\ Proper(m)
      /\ m.type = "TRANSCRIPT_CHUNK" => Expects(phone, m.id, m.index)
  BY FirstInLine
<1>2. PP!Parses(m)
  BY <1>1, ChunkParses
<1>3. m.id \in ReqIds
  BY <1>1 DEF WatchMessages
<1>4. SUFFICES ASSUME ~PP!Stopped(phone), m.id = phone.id, m.type = "TRANSCRIPT_CHUNK"
               PROVE  /\ phone.state = "RECEIVING_TRANSCRIPT"
                      /\ PP!ChunkFits(phone.assembler, m)
  BY <1>2, <1>3, PhoneAssumptions DEF PP!Accuses
<1>5. phone.state = "RECEIVING_TRANSCRIPT" /\ phone.assembler.next = m.index
  BY <1>1, <1>4 DEF Expects
<1>6. /\ m.index \in Nat /\ Len(spoken[m.id]) \in Nat
      /\ m.count = Len(spoken[m.id]) /\ m.total = m.count
      /\ m.text = <<spoken[m.id][m.index + 1]>>
  BY <1>1, <1>4, QuotedChunk
<1>7. /\ Len(phone.assembler.text) = m.index
      /\ m.index = 0 => phone.assembler.count = 0
  BY <1>5 DEF Agreed, PhoneReady, PP!Tidy
<1>8. m.index # 0 => phone.assembler.count = m.count /\ phone.assembler.total = m.total
  BY <1>4, <1>5, <1>6, HeardSoFar
<1>9. Len(m.text) = 1
  <2>1. \A a : Len(<<a>>) = 1
    OBVIOUS
  <2> QED
    BY <1>6, <2>1
<1> QED
  BY <1>5, <1>6, <1>7, <1>8, <1>9 DEF PP!ChunkFits

\* Once the phone has taken message m it expects what follows m.
LEMMA TakesExpects ==
  ASSUME NEW p, NEW q, NEW m, PP!Takes(p, q, m), NEW r, NEW k, Precedes(m, r, k),
         m.type = "TRANSCRIPT_CHUNK" => k # m.count
  PROVE  Expects(q, r, k)
<1> SUFFICES ASSUME q.id = r, ~PP!Stopped(q)
             PROVE  q.state = "RECEIVING_TRANSCRIPT" /\ q.assembler.next = k
  BY DEF Expects
<1>1. CASE m.type = "SESSION_BEGIN"
  BY <1>1 DEF PP!Takes, Precedes, PP!NoTranscript
<1>2. CASE m.type = "TRANSCRIPT_CHUNK" /\ m.id = r /\ m.index + 1 = k
  <2>1. PP!Collects(p, q, m)
    BY <1>2 DEF PP!Takes
  <2> QED
    BY <1>2, <2>1 DEF PP!Collects, PP!ChunkFits
<1> QED
  BY <1>1, <1>2 DEF Precedes

\* What the watch will send next is part of what was spoken.
LEMMA SendsProper ==
  ASSUME Carried, Proper(outbox), NEW r, NEW k, Sends(r, k)
  PROVE  k = 0 \/ k < Len(spoken[r])
BY Phases DEF Sends, Proper

\* The rest of the uplink still fits what the phone has become.
LEMMA UplinkGoesOn ==
  ASSUME IInv, Carried', AsksOnce, Agreed, uplink # <<>>, uplink' = Tail(uplink),
         NEW m, m = Head(uplink), PP!Takes(phone, phone', m),
         UNCHANGED <<watchVars, sent, spoken>>
  PROVE  PhoneReady'
<1>1. Carried /\ Starts' = Starts /\ outbox' = outbox /\ used' = used
  BY WatchRests DEF IInv, watchVars
<1>2. /\ m \in WatchMessages /\ Quotes(m) /\ Proper(m)
      /\ m.type = "TRANSCRIPT_CHUNK" => Expects(phone, m.id, m.index)
  BY <1>1, FirstInLine
<1>3. PICK n \in Nat :
        /\ Len(uplink) = n + 1 /\ Len(Tail(uplink)) = n
        /\ DOMAIN uplink = 1 .. n + 1 /\ DOMAIN Tail(uplink) = 1 .. n
        /\ uplink[1] = m /\ \A i \in 1 .. n : Tail(uplink)[i] = uplink[i + 1]
  BY <1>1, FirstInLine
<1>4. /\ Len(uplink') = n /\ DOMAIN uplink' = 1 .. n
      /\ \A i \in 1 .. n : uplink'[i] = uplink[i + 1]
  BY <1>3
<1>5. \A r : HasAsked(r) => HasAsked(r)'
  BY DEF AsksOnce, HasAsked
<1>6. PP!Tidy(phone')
  <2>1. m.type = "TRANSCRIPT_CHUNK" => m.text \in PP!Texts /\ Len(m.text) = 1
    <3>1. \A a : Len(<<a>>) = 1
      OBVIOUS
    <3> QED
      BY <1>1, <1>2, <3>1, QuotedChunk, OneProtocol
  <2>2. phone \in PP!Phones /\ PP!Tidy(phone) /\ m \in PP!WatchMessages
    BY <1>1, <1>2, OneProtocol
       DEF Carried, PP!IInv, PP!Sound, PP!Core, Agreed, PhoneReady
  <2> QED
    BY <2>1, <2>2, PhoneAssumptions, PP!TakesTidy
  \* What followed message i + 1 of the uplink follows message i of its rest.
<1>7. ASSUME NEW i \in 0 .. n, NEW r \in ReqIds, NEW k, After(i + 1, r, k),
             k = 0 \/ k < Len(spoken[r]), k \in Nat
      PROVE  After(i, r, k)'
  <2>1. Precedes(uplink[i + 1], r, k)
    <3>1. i + 1 # 0
      OBVIOUS
    <3> QED
      BY <1>7, <3>1 DEF After
  <2>2. CASE i = 0
    <3>1. Precedes(m, r, k)
      BY <1>3, <2>1, <2>2
    <3>2. m.type = "TRANSCRIPT_CHUNK" => k # m.count
      BY <1>1, <1>2, <1>7, <3>1, QuotedChunk DEF Precedes
    <3>3. Expects(phone', r, k)
      BY <3>1, <3>2, TakesExpects
    <3> QED
      BY <2>2, <3>3 DEF After, Expects
  <2>3. CASE i # 0
    <3>1. uplink'[i] = uplink[i + 1]
      BY <1>4, <2>3
    <3> QED
      BY <2>1, <2>3, <3>1 DEF After, Precedes
  <2> QED
    BY <2>2, <2>3
<1>8. UplinkFits'
  <2> SUFFICES ASSUME NEW i \in 1 .. n, NEW c, c = uplink'[i], c.type = "TRANSCRIPT_CHUNK"
               PROVE  /\ c.index < Len(spoken[c.id])
                      /\ After(i - 1, c.id, c.index)'
                      /\ c.index + 1 = c.count /\ ~HasAsked(c.id)' => c.id \in Starts'
    BY <1>4 DEF UplinkFits, Proper
  <2>1. PICK j : j = i - 1 /\ j \in 0 .. n /\ i = j + 1 /\ i + 1 \in DOMAIN uplink
                 /\ (i + 1) - 1 = j + 1
    BY <1>3
  <2>2. c = uplink[i + 1]
    BY <1>4
  <2>3. /\ c.index < Len(spoken[c.id])
        /\ After(j + 1, c.id, c.index)
        /\ c.index + 1 = c.count /\ ~HasAsked(c.id) => c.id \in Starts
    BY <2>1, <2>2 DEF Agreed, PhoneReady, UplinkFits, Proper
  <2>4. c \in WatchMessages /\ Quotes(c)
    BY <1>1, <2>1, <2>2, CarriedTypes, PhoneAssumptions, PP!SeqElement
       DEF Carried, TrueToSpeech
  <2>5. c.id \in ReqIds /\ c.index \in Nat
    BY <1>1, <2>4, QuotedChunk
  <2>6. After(j, c.id, c.index)'
    BY <1>7, <2>1, <2>3, <2>5
  <2> QED
    BY <1>1, <1>5, <2>1, <2>3, <2>6
<1>9. OutboxFits'
  <2>1. Proper(outbox)'
    BY <1>1 DEF Agreed, PhoneReady, OutboxFits, Proper
  <2>2. ASSUME NEW r \in ReqIds, NEW k \in Nat, Sends(r, k)'
        PROVE  After(Len(uplink), r, k)'
    <3>1. Sends(r, k)
      BY <2>2, WatchRests
    <3>2. k = 0 \/ k < Len(spoken[r])
      BY <1>1, <3>1, SendsProper DEF Agreed, PhoneReady, OutboxFits
    <3>3. After(n + 1, r, k)
      BY <1>3, <3>1 DEF Agreed, PhoneReady, OutboxFits
    <3>4. PICK i \in 0 .. n : i = n
      OBVIOUS
    <3>5. After(i, r, k)'
      BY <1>7, <3>2, <3>3, <3>4
    <3> QED
      BY <1>4, <3>4, <3>5 DEF After
  <2> QED
    BY <2>1, <2>2 DEF OutboxFits
<1> QED
  BY <1>6, <1>8, <1>9 DEF PhoneReady

\* The phone accuses nobody, and what it answers the watch can take.
LEMMA PhoneFriendly ==
  ASSUME IInv, Agreed, AsksOnce, PhoneReceives \/ PhoneStep \/ PushDone,
         UNCHANGED <<watchVars, spoken>>
  PROVE  Friendly'
<1> DEFINE M == Polite
<1>1. Carried /\ PP!IInv /\ PP!Tells(phone, M)
  BY DEF IInv, Carried, Agreed, Friendly
<1>2. PP!Failures \subseteq M
  <2>1. \A r \in ReqIds, s \in StatusCodes :
          /\ Failure(r, s) \in PhoneMessages
          /\ Failure(r, s).status = s
    BY DEF PhoneMessages, Failure
  <2>2. PP!Complaints \subseteq StatusCodes
    BY DEF PP!Complaints, StatusCodes
  <2>3. \A r \in ReqIds, s \in PP!Complaints : Failure(r, s) \in M
    BY <2>1, <2>2 DEF Polite
  <2> HIDE DEF M
  <2> QED
    BY <2>3, SameMessages DEF PP!Failures
<1>3. phone'.requests # phone.requests => PP!SendStarted(phone.id) \in M
  <2>1. \A r \in ReqIds : SendStarted(r) \in M
    BY DEF PhoneMessages, SendStarted, Polite
  <2> HIDE DEF M
  <2> QED
    BY <2>1, SameMessages DEF AsksOnce
<1>4. ASSUME NEW f \in Results \cup Refusals
      PROVE  PP!Answers(phone.id, f, M)
  <2>1. /\ f.kind # "protocol_error"
        /\ f.kind = "result" => f.success = TRUE /\ \E i \in DOMAIN phone.requests :
             f.id = phone.requests[i].id /\ f.response = phone.requests[i].transcript
    BY <1>1, FrameType
  <2>2. ASSUME f.kind = "result"
        PROVE  /\ f.id \in ReqIds /\ f.success \in BOOLEAN /\ f.response \in Texts
               /\ ~(Len(f.response) > MaxResponse)
    <3>1. PICK i \in DOMAIN phone.requests :
            f.id = phone.requests[i].id /\ f.response = phone.requests[i].transcript
      BY <2>1, <2>2
    <3>2. f.id \in ReqIds /\ f.response = spoken[f.id] /\ f.response \in Texts
      BY <1>1, <3>1, CarriedTypes DEF Carried, TrueToSpeech
    <3>3. Len(f.response) <= MaxResponse /\ Len(f.response) \in Nat /\ MaxResponse \in Nat
      BY <3>2, SystemAssumption DEF Agreed, Friendly, Texts
    <3>4. ~(Len(f.response) > MaxResponse)
      BY <3>3
    <3> QED
      BY <2>1, <2>2, <3>2, <3>4
  <2>3. PP!FrameKind(f, phone.id) # "protocol_error"
    BY <2>1, <2>2 DEF PP!FrameKind
  <2>4. ASSUME f.id = phone.id, f.kind = "result",
               NEW j \in DOMAIN PP!ResultChunks(phone.id, f.success, f.response)
        PROVE  PP!ResultChunks(phone.id, f.success, f.response)[j] \in M
    <3> DEFINE s == PP!ResultChunks(phone.id, f.success, f.response)
    <3>1. /\ s \in Seq(PP!PhoneMessages)
          /\ s[j].type = "SERVER_RESULT_CHUNK"
      BY <2>2, <2>4, PhoneAssumptions, OneProtocol, PP!ResultChunksType
    <3>2. j \in DOMAIN s
      BY <2>4
    <3> HIDE DEF s
    <3>3. s[j] \in PhoneMessages
      BY <3>1, <3>2, OneProtocol, PhoneAssumptions, PP!SeqElement
    <3>4. s[j] \in M
      BY <3>1, <3>3 DEF Polite
    <3> QED
      BY <3>4 DEF s
  <2> HIDE DEF M
  <2> QED
    BY <2>3, <2>4 DEF PP!Answers
<1>5. \/ \E m \in WatchMessages :
           /\ PP!Receive(m)
           /\ PP!Accuses(phone, m) => PP!Failure(phone.id, "ERROR_PROTOCOL") \in M
      \/ PP!SocketOpens \/ PP!SocketCloses \/ PP!OnOpen
      \/ PP!OnErrorOrClose \/ PP!HandoffTimeout \/ PP!ResultTimeout
      \/ \E f \in [id : ReqIds \cup {NoId}, kind : P!FrameKinds, success : BOOLEAN,
                   response : Texts] :
           PP!OnFrame(f) /\ PP!Answers(phone.id, f, M)
      \/ \E ok \in BOOLEAN : PP!AppMessageDone(ok)
  <2>1. CASE PhoneReceives
    <3>1. Head(uplink) \in WatchMessages /\ ~PP!Accuses(phone, Head(uplink))
      BY <1>1, <2>1, FirstInLine, NotAccused DEF PhoneReceives
    <3> HIDE DEF M
    <3> QED
      BY <2>1, <3>1, SamePhone DEF PhoneReceives
  <2>2. CASE PushDone
    <3>1. (push = "delivered") \in BOOLEAN
      OBVIOUS
    <3> QED
      BY <2>2, <3>1, SamePhone DEF PushDone
  <2>3. CASE \E f \in Results \cup Refusals : P!OnFrame(f)
    <3>1. PICK f \in Results \cup Refusals : PP!OnFrame(f)
      BY <2>3, SamePhone
    <3>2. f \in [id : ReqIds \cup {NoId}, kind : P!FrameKinds, success : BOOLEAN,
                 response : Texts]
      BY <1>1, FrameType
    <3> QED
      BY <1>4, <3>1, <3>2
  <2>4. CASE P!SocketOpens \/ P!OnOpen \/ P!SocketCloses \/ P!OnErrorOrClose
               \/ P!HandoffTimeout \/ P!ResultTimeout
    BY <2>4, SamePhone
  <2> QED
    BY <2>1, <2>2, <2>3, <2>4 DEF PhoneStep
<1>6. PP!Tells(phone', M)
  <2> HIDE DEF M
  <2> QED
    BY <1>1, <1>2, <1>3, <1>5, PhoneAssumptions, PP!EventTells
<1>7. Polite' = Polite
  BY DEF Polite
<1>8. UNCHANGED <<terminalStatus, state, watchPhone, response, spoken>>
  BY DEF watchVars
<1> QED
  BY <1>6, <1>7, <1>8 DEF Agreed, Friendly

LEMMA PhoneReceivesAgreed ==
  ASSUME IInv, Carried', Agreed, PhoneReceives
  PROVE  Agreed'
<1> DEFINE m == Head(uplink)
<1>1. /\ Carried /\ PP!IInv /\ AsksOnce /\ uplink # <<>> /\ uplink' = Tail(uplink)
      /\ PP!Receive(m) /\ UNCHANGED <<watchVars, downlink, sent, push, spoken>>
  BY PhoneReceivesCarried, SamePhone DEF IInv, Carried, PhoneReceives
<1>2. /\ m \in WatchMessages
      /\ m.type = "TRANSCRIPT_CHUNK" /\ m.index + 1 = m.count /\ ~HasAsked(m.id) =>
           m.id \in Starts
      /\ m.type = "SESSION_BEGIN" => ~Begun(m.id)
  BY <1>1, FirstInLine
<1> HIDE DEF m
<1>3. PP!Takes(phone, phone', m) /\ PP!Holds(phone, phone')
  BY <1>1, <1>2, PhoneAssumptions, PP!ReceiveTakes
<1>4. m.type = "SESSION_BEGIN" /\ phone.inflight # PP!NoEntry
        /\ phone.inflight.msg.type # "FAILURE" => phone.inflight.msg.id # m.id
  BY <1>2, ToldAfterAsked
     DEF IInv, Answered, TellsTheTruth, PP!Tells, Begun, HasAsked
  \* A session that has not got its transcript has not asked.
<1>5. m.type = "TRANSCRIPT_CHUNK" /\ m.index + 1 = m.count
        /\ m.id = phone.id /\ phone.state = "RECEIVING_TRANSCRIPT" =>
      m.id \in Starts /\ ~HasAsked(m.id)
  <2>1. PP!Waiting(phone) => ~HasAsked(phone.id)
    BY <1>1 DEF Carried, BeginsOnce, HasAsked
  <2> QED
    BY <1>2, <2>1 DEF PP!Waiting
<1>6. ASSUME NEW S, Starts \ {r \in Starts : HasAsked(r)} \subseteq S, NEW C,
             PP!Aligned(phone, push, S, C)
      PROVE  PP!Aligned(phone', push, S, C)
  <2>1. m.type = "TRANSCRIPT_CHUNK" /\ m.index + 1 = m.count
          /\ m.id = phone.id /\ phone.state = "RECEIVING_TRANSCRIPT" => m.id \in S
    BY <1>5, <1>6
  <2> QED
    BY <1>1, <1>2, <1>4, <1>6, <2>1, PhoneAssumptions, PP!EventAligned
<1>7. PP!Aligned(phone', push, Starts, Chunks)
  BY <1>6 DEF Agreed, WatchReady
<1>8. WatchReady'
  <2>1. ASSUME NEW o \in TrueMessages, o.type # "FAILURE"
        PROVE  Starts \ {r \in Starts : HasAsked(r)} \subseteq Starts \ {o.id}
    BY <2>1, ToldAfterAsked
  <2> QED
    BY <1>1, <1>3, <1>6, <1>7, <2>1, PhoneKeepsComing
<1>9. PhoneReady'
  BY <1>1, <1>3, UplinkGoesOn DEF m
<1>10. Friendly'
  BY <1>1, PhoneFriendly
<1> QED
  BY <1>8, <1>9, <1>10 DEF Agreed

-----------------------------------------------------------------------------
(* Neither side is taken for a violator: what the phone does by itself.    *)

\* A session that remains expects what it did.
LEMMA RemainsReady ==
  ASSUME IInv, AsksOnce, Agreed, PP!Remains(phone, phone'),
         UNCHANGED <<watchVars, uplink, sent, spoken>>
  PROVE  PhoneReady'
<1>1. Starts' = Starts /\ outbox' = outbox /\ (\A r, k : Sends(r, k)' <=> Sends(r, k))
  BY WatchRests DEF watchVars
<1>2. \A r : HasAsked(r) => HasAsked(r)'
  BY DEF AsksOnce, HasAsked
<1>3. PP!Tidy(phone')
  BY PhoneAssumptions, PP!RemainsTidy DEF Agreed, PhoneReady
<1>4. \A r, k : Expects(phone, r, k) => Expects(phone', r, k)
  BY DEF Expects, PP!Remains, PP!Stopped
<1>5. \A i, r, k : After(i, r, k) => After(i, r, k)'
  BY <1>4 DEF After, Expects, Precedes
<1>6. UplinkFits'
  BY <1>1, <1>2, <1>5 DEF Agreed, PhoneReady, UplinkFits, Proper
<1>7. OutboxFits'
  BY <1>1, <1>5 DEF Agreed, PhoneReady, OutboxFits, Proper
<1> QED
  BY <1>3, <1>6, <1>7 DEF PhoneReady

LEMMA PhoneStepAgreed ==
  ASSUME IInv, Agreed, PhoneStep
  PROVE  Agreed'
<1>1. /\ Carried /\ PP!IInv /\ AsksOnce
      /\ UNCHANGED <<watchVars, uplink, downlink, sent, push, spoken>>
  BY PhoneEventCarried DEF IInv, Carried, PhoneStep, linkVars
<1>2. \/ PP!SocketOpens \/ PP!SocketCloses \/ PP!OnOpen
      \/ PP!OnErrorOrClose \/ PP!HandoffTimeout \/ PP!ResultTimeout
      \/ \E f \in [id : ReqIds \cup {NoId}, kind : P!FrameKinds, success : BOOLEAN,
                   response : Texts] : PP!OnFrame(f)
  <2>1. CASE \E f \in Results \cup Refusals : P!OnFrame(f)
    BY <1>1, <2>1, FrameType, SamePhone
  <2>2. CASE P!SocketOpens \/ P!OnOpen \/ P!SocketCloses \/ P!OnErrorOrClose
               \/ P!HandoffTimeout \/ P!ResultTimeout
    BY <2>2, SamePhone
  <2> QED
    BY <2>1, <2>2 DEF PhoneStep
<1>3. PP!Remains(phone, phone') /\ PP!Holds(phone, phone')
  BY <1>1, <1>2, PhoneAssumptions, PP!EventRemains
<1>4. \A S, C : PP!Aligned(phone, push, S, C) => PP!Aligned(phone', push, S, C)
  BY <1>1, <1>2, PhoneAssumptions, PP!EventAligned
<1>5. WatchReady'
  BY <1>1, <1>3, <1>4, PhoneKeepsComing DEF Agreed, WatchReady
<1>6. PhoneReady'
  BY <1>1, <1>3, RemainsReady
<1>7. Friendly'
  BY <1>1, PhoneFriendly
<1> QED
  BY <1>5, <1>6, <1>7 DEF Agreed

\* The outcome of its message reaches the phone, which goes on to the next one.
LEMMA PushDoneAgreed ==
  ASSUME IInv, Agreed, PushDone
  PROVE  Agreed'
<1>1. /\ Carried /\ PP!IInv /\ AsksOnce
      /\ UNCHANGED <<watchVars, uplink, downlink, sent, spoken>>
      /\ push \in {"delivered", "failed"} /\ push' = "idle"
      /\ PP!AppMessageDone(push = "delivered")
  BY PhoneEventCarried, SamePhone DEF IInv, Carried, PushDone
<1>2. (push = "delivered") \in BOOLEAN
  OBVIOUS
<1>3. PP!Remains(phone, phone')
  BY <1>1, <1>2, PhoneAssumptions, PP!DoneRemains
<1>4. PP!Aligned(phone', "idle", Starts, Chunks)
  BY <1>1, PhoneAssumptions, PP!CompletionAligned DEF Agreed, WatchReady
<1>5. Downlinked'
  BY <1>1 DEF Agreed, WatchReady, Downlinked, Coming
<1>6. WatchReady'
  BY <1>1, <1>4, <1>5, WatchRests DEF WatchReady
<1>7. PhoneReady'
  BY <1>1, <1>3, RemainsReady
<1>8. Friendly'
  BY <1>1, PhoneFriendly
<1> QED
  BY <1>6, <1>7, <1>8 DEF Agreed

\* Nothing is expected of a phone that starts anew, but the watch still is to
\* take what its predecessor left behind.
LEMMA PhoneRestartsAgreed ==
  ASSUME IInv, Agreed, PhoneRestarts
  PROVE  Agreed'
<1>1. /\ Carried /\ PP!IInv /\ phone'.requests = phone.requests
      /\ UNCHANGED <<watchVars, downlink, sent, spoken>>
      /\ uplink' \in {<<>>, uplink}
      /\ push' = IF push \in {"sent", "orphaned"} THEN "orphaned" ELSE "idle"
  BY PhoneRestartsCarried DEF IInv, Carried, PhoneRestarts
<1>2. PP!Shut(phone') /\ phone'.inflight = PP!NoEntry
  BY <1>1, PhoneAssumptions, OneProtocol, PP!RestartKeeps DEF PhoneRestarts
<1>3. /\ Starts' = Starts /\ Chunks' = Chunks /\ outbox' = outbox
      /\ \A r : Live(r)' <=> Live(r)
      /\ \A r, k : Sends(r, k)' <=> Sends(r, k)
  BY <1>1, WatchRests DEF watchVars
<1>4. push' \in {"idle", "orphaned"}
  BY <1>1
<1>5. PP!Tidy(phone') /\ \A S, C : PP!Aligned(phone', push', S, C)
  BY <1>2, <1>4, PhoneAssumptions, PP!IdleAligned
<1>6. Downlinked'
  <2>1. CASE push \notin {"sent", "orphaned"} /\ downlink = IF sent THEN <<Ack>> ELSE <<>>
    BY <1>1, <2>1 DEF Downlinked
  <2>2. ASSUME NEW m \in PhoneMessages, Coming(m),
               \/ ~sent /\ downlink = <<m>>
               \/ sent /\ downlink = <<Ack, m>>
               \/ /\ sent /\ downlink = <<m, Ack>>
                  /\ ~(m.type = "SEND_STARTED" /\ Live(m.id))
        PROVE  Downlinked'
    <3>1. Polite' = Polite
      BY DEF Polite
    <3>2. push' = "orphaned"
      BY <1>1, <2>2 DEF Coming
    <3>3. Coming(m)'
      BY <1>3, <1>5, <2>2, <3>1, <3>2 DEF Coming
    <3>4. \/ ~sent' /\ downlink' = <<m>>
          \/ sent' /\ downlink' = <<Ack, m>>
          \/ /\ sent' /\ downlink' = <<m, Ack>>
             /\ ~(m.type = "SEND_STARTED" /\ Live(m.id)')
      BY <1>1, <1>3, <2>2
    <3> QED
      BY <3>3, <3>4 DEF Downlinked
  <2> QED
    BY <2>1, <2>2 DEF Agreed, WatchReady, Downlinked
<1>7. PhoneReady'
  <2>1. \A r, k : Expects(phone', r, k)
    BY <1>2 DEF PP!Shut, PP!Stopped, Expects
  <2>2. \A r : HasAsked(r) <=> HasAsked(r)'
    BY <1>1 DEF HasAsked
  <2>3. CASE uplink' = uplink
    <3>1. \A i, r, k : After(i, r, k) => After(i, r, k)'
      BY <2>1, <2>3 DEF After, Expects, Precedes
    <3>2. UplinkFits'
      BY <1>1, <1>3, <2>2, <2>3, <3>1 DEF Agreed, PhoneReady, UplinkFits, Proper
    <3>3. OutboxFits'
      BY <1>1, <1>3, <2>3, <3>1 DEF Agreed, PhoneReady, OutboxFits, Proper
    <3> QED
      BY <1>5, <3>2, <3>3 DEF PhoneReady
  <2>4. CASE uplink' = <<>>
    <3>1. UplinkFits'
      BY <2>4 DEF UplinkFits
    <3>2. Len(uplink') = 0
      BY <2>4
    <3>3. \A r, k : After(Len(uplink), r, k)'
      BY <2>1, <3>2 DEF After, Expects
    <3>4. OutboxFits'
      BY <1>1, <1>3, <3>3 DEF Agreed, PhoneReady, OutboxFits, Proper
    <3> QED
      BY <1>5, <3>1, <3>4 DEF PhoneReady
  <2> QED
    BY <1>1, <2>3, <2>4
<1>8. Friendly'
  <2>1. Polite' = Polite /\ UNCHANGED <<terminalStatus, state, watchPhone, response>>
    BY <1>1 DEF Polite, watchVars
  <2>2. PP!Tells(phone', Polite)
    BY <1>2 DEF PP!Tells, PP!Shut
  <2> QED
    BY <1>1, <2>1, <2>2 DEF Agreed, Friendly
<1> QED
  BY <1>3, <1>5, <1>6, <1>7, <1>8 DEF Agreed, WatchReady

-----------------------------------------------------------------------------
(* Neither side is taken for a violator: what becomes of the phone's        *)
(* messages.                                                               *)

\* Only the message of the phone moves on: the phone is as ready as it was.
LEMMA OnlyThePush ==
  ASSUME IInv, Agreed, UNCHANGED <<watchVars, phone, uplink, sent, spoken>>
  PROVE  PhoneReady' /\ Friendly'
<1>1. AsksOnce /\ PP!Remains(phone, phone')
  BY DEF AsksOnce, PP!Remains
<1>2. Polite' = Polite /\ UNCHANGED <<terminalStatus, state, watchPhone, response>>
  BY DEF Polite, watchVars
<1>3. Friendly'
  BY <1>2 DEF Agreed, Friendly
<1> QED
  BY <1>1, <1>3, RemainsReady

\* The phone's transport sends the message that the watch awaits.
LEMMA PushAgreed ==
  ASSUME IInv, Agreed, Push
  PROVE  Agreed'
<1>1. /\ phone.inflight # PP!NoEntry /\ push = "idle" /\ push' = "sent"
      /\ downlink' = Append(downlink, phone.inflight.msg)
      /\ UNCHANGED <<watchVars, phone, uplink, sent, spoken>>
  BY OneProtocol DEF Push, phoneVars
<1>2. /\ Starts' = Starts /\ Chunks' = Chunks /\ Polite' = Polite
      /\ \A r : Live(r)' <=> Live(r)
  BY <1>1, WatchRests DEF Polite
<1>3. PP!Aligned(phone', push', Starts', Chunks')
  BY <1>1, <1>2, PhoneAssumptions, PP!FateAligned DEF Agreed, WatchReady
<1>4. PICK m : m = phone.inflight.msg
  OBVIOUS
<1>5. m \in Polite /\ PP!Awaited(m, Starts, Chunks)
  BY <1>1, <1>4
     DEF Agreed, Friendly, PP!Tells, WatchReady, PP!Aligned, PP!Lined, PP!Flying
<1>6. Coming(m)' /\ m \in PhoneMessages
  BY <1>1, <1>2, <1>4, <1>5 DEF Coming, Polite
<1>7. downlink = IF sent THEN <<Ack>> ELSE <<>>
  BY <1>1 DEF Agreed, WatchReady, Downlinked, Coming
<1>8. downlink' = IF sent THEN <<Ack, m>> ELSE <<m>>
  <2>1. Append(<<>>, m) = <<m>> /\ Append(<<Ack>>, m) = <<Ack, m>>
    BY Following
  <2> QED
    BY <1>1, <1>4, <1>7, <2>1
<1>9. Downlinked'
  BY <1>1, <1>6, <1>8 DEF Downlinked
<1> QED
  BY <1>1, <1>3, <1>9, OnlyThePush DEF Agreed, WatchReady

\* Its acknowledgement is lost.
LEMMA PushAckLostAgreed ==
  ASSUME IInv, Agreed, PushAckLost
  PROVE  Agreed'
<1>1. /\ push = "delivered" /\ push' = "failed"
      /\ UNCHANGED <<watchVars, phone, uplink, downlink, sent, spoken>>
  BY DEF PushAckLost, phoneVars
<1>2. Starts' = Starts /\ Chunks' = Chunks
  BY <1>1, WatchRests
<1>3. phone.inflight # PP!NoEntry
  BY <1>1 DEF Agreed, WatchReady, PP!Aligned, PP!Lined, PP!Flying
<1>4. PP!Aligned(phone', push', Starts', Chunks')
  BY <1>1, <1>2, <1>3, PhoneAssumptions, PP!FateAligned DEF Agreed, WatchReady
<1>5. Downlinked'
  BY <1>1 DEF Agreed, WatchReady, Downlinked, Coming
<1> QED
  BY <1>1, <1>4, <1>5, OnlyThePush DEF Agreed, WatchReady

\* The watch does not take its message, and halts or stays where it is.
LEMMA RefusedAgreed ==
  ASSUME IInv, Agreed, downlink # <<>>, Head(downlink) # Ack,
         downlink' = Tail(downlink), push' = Reported("failed"),
         WP!Halts, WP!Blameless, used' = used,
         UNCHANGED <<phone, uplink, sent, spoken>>
  PROVE  Agreed'
<1>1. /\ Coming(Head(downlink))
      /\ Tail(downlink) = IF sent THEN <<Ack>> ELSE <<>>
  BY Streams DEF Agreed, WatchReady
<1>2. push' \notin {"sent", "orphaned"}
  BY DEF Reported
<1>3. Downlinked'
  BY <1>1, <1>2 DEF Downlinked
<1>4. Grows
  BY HaltsGrows
<1>5. PP!Aligned(phone, push', Starts, Chunks)
  <2>1. \/ push' = "failed" /\ phone.inflight # PP!NoEntry
        \/ push' = "idle" /\ push = "orphaned"
    BY <1>1 DEF Coming, Reported
  <2> QED
    BY <2>1, PhoneAssumptions, PP!FateAligned DEF Agreed, WatchReady
<1>6. PP!Aligned(phone', push', Starts', Chunks')
  BY <1>4, <1>5, PhoneAssumptions, PP!AlignedMonotone DEF Grows
<1>7. Carried /\ Lasts
  BY DEF IInv, Lasts
<1>8. \A r, k : Sends(r, k)' => Sends(r, k)
  BY HaltsSends
<1>9. Proper(outbox)'
  BY DEF Proper, WP!Halts, Agreed, PhoneReady, OutboxFits
<1>10. PhoneReady'
  BY <1>4, <1>7, <1>8, <1>9, PhoneStaysReady DEF Agreed, Grows
<1> QED
  BY <1>3, <1>6, <1>10, HaltsFriendly DEF Agreed, WatchReady

LEMMA RestHalts ==
  ASSUME UNCHANGED watchVars
  PROVE  WP!Halts /\ WP!Blameless /\ used' = used
BY DEF watchVars, WP!Halts, WP!Blameless

LEMMA PushLostAgreed ==
  ASSUME IInv, Agreed, PushLost
  PROVE  Agreed'
<1>1. /\ downlink # <<>> /\ Head(downlink) # Ack
      /\ downlink' = Tail(downlink) /\ push' = Reported("failed")
      /\ UNCHANGED <<phone, uplink, sent, spoken>>
  BY DEF PushLost, phoneVars
<1>2. WP!Halts /\ WP!Blameless /\ used' = used
  <2>1. CASE UNCHANGED watchVars
    BY <2>1, RestHalts
  <2>2. CASE W!InboxDropped
    <3>1. WP!IInv /\ WP!InboxDropped
      BY <2>2, SameWatch DEF IInv, Carried
    <3> QED
      BY <3>1, WatchAssumptions, WP!UserAndTimersHalt DEF WP!InboxDropped
  <2> QED
    BY <2>1, <2>2 DEF PushLost
<1> QED
  BY <1>1, <1>2, RefusedAgreed

\* The chunk that the watch expects continues the result.
LEMMA TrueChunkContinues ==
  ASSUME IInv, Friendly, Live(reqId), NEW m \in TrueMessages,
         m.type = "SERVER_RESULT_CHUNK", m.id = reqId, ExpectsChunk(reqId, m.index)
  PROVE  WP!Continues(m)
<1> DEFINE t == spoken[reqId]
           r == WP!ResponseFor(m)
<1>1. /\ t \in Texts /\ Len(t) \in Nat /\ m.index \in Nat /\ m.index < Len(t)
      /\ m.count = Len(t) /\ m.total = Len(t) /\ m.text = <<t[m.index + 1]>>
      /\ m.success = TRUE /\ reqId \in ReqIds
  BY TrueChunk DEF IInv
<1>2. /\ state = "BRIDGING"
      /\ IF m.index = 0 THEN watchPhone = "AWAITING_RESULT"
                        ELSE watchPhone = "RECEIVING_RESULT" /\ response.next = m.index
  BY DEF ExpectsChunk
<1>3. Len(m.text) = 1
  <2>1. \A a : Len(<<a>>) = 1
    OBVIOUS
  <2> QED
    BY <1>1, <2>1
<1>4. /\ WP!ReceivingResult
      /\ watchPhone = "AWAITING_RESULT" => m.index = 0
      /\ watchPhone # "AWAITING_RESULT" => m.index # 0
  BY <1>2 DEF WP!ReceivingResult
<1>5. WP!ValidResultChunk(m)
  <2>1. Len(t) <= MaxResponse
    BY <1>1 DEF Friendly
  <2> QED
    BY <1>1, <2>1 DEF WP!ValidResultChunk
<1>6. /\ r.count = Len(t) /\ r.total = Len(t) /\ r.success = TRUE /\ r.next = m.index
      /\ Len(r.text) = m.index
  <2>1. CASE m.index = 0
    <3>1. r = [WP!NoResponse EXCEPT !.count = m.count, !.total = m.total,
                                    !.success = m.success]
      BY <1>2, <1>4, <1>5, <2>1 DEF WP!ResponseFor, WP!OpensResponse
    <3>2. /\ r.text = <<>> /\ r.next = 0 /\ r.count = m.count /\ r.total = m.total
          /\ r.success = m.success
      BY <3>1 DEF WP!NoResponse
    <3> QED
      BY <1>1, <2>1, <3>2
  <2>2. CASE m.index # 0
    <3>1. r = response
      BY <1>4, <2>2 DEF WP!ResponseFor, WP!OpensResponse
    <3>2. /\ response.count = Len(t) /\ response.total = Len(t)
          /\ response.text = SubSeq(t, 1, m.index) /\ response.next = m.index
      BY <1>2, <2>2 DEF IInv, Answered, HearsTheTruth
    <3>3. Len(SubSeq(t, 1, m.index)) = m.index
      <4> DEFINE k == m.index
      <4>1. t \in Seq(Pieces) /\ k \in Nat /\ k < Len(t)
        BY <1>1 DEF Texts
      <4> HIDE DEF t, k
      <4>2. Len(SubSeq(t, 1, k)) = k
        BY <4>1
      <4> QED
        BY <4>2 DEF k
    <3>4. response.success = TRUE
      <4>1. response.success \in BOOLEAN
        BY OneProtocol DEF IInv, Carried, WP!IInv, WP!TypeOK, WP!Responses
      <4>2. response.success
        BY <1>2, <2>2 DEF Friendly
      <4> QED
        BY <4>1, <4>2
    <3> QED
      BY <3>1, <3>2, <3>3, <3>4
  <2> QED
    BY <2>1, <2>2
<1>7. IF r.next + 1 = r.count THEN Len(r.text) + Len(m.text) = r.total
                              ELSE Len(r.text) + Len(m.text) < r.total
  <2> HIDE DEF r, t
  <2> QED
    BY <1>1, <1>3, <1>6
<1> QED
  BY <1>1, <1>4, <1>5, <1>6, <1>7 DEF WP!Continues

\* The watch takes no message of the phone for a violation.
LEMMA MessageExpected ==
  ASSUME IInv, Agreed, WP!Running, downlink # <<>>, Head(downlink) # Ack,
         NEW m \in TrueMessages, m = Head(downlink)
  PROVE  WP!Expected(m)
<1>1. /\ m \in Polite /\ PP!Awaited(m, Starts, Chunks)
      /\ sent /\ m.type = "SEND_STARTED" => ~Live(m.id)
  BY Streams DEF Agreed, WatchReady, Coming
<1>2. m.id \in ReqIds /\ m.type \in {"SEND_STARTED", "FAILURE", "SERVER_RESULT_CHUNK"}
  BY <1>1 DEF Polite, PhoneMessages
<1>3. ASSUME ~WP!Settled, WP!ForThisRequest(m)
      PROVE  Live(m.id) /\ m.id = reqId
  <2>1. m.id = reqId
    BY <1>2, <1>3, NoIdAssumption DEF WP!ForThisRequest
  <2>2. state \in WP!AppStates
    BY DEF IInv, Carried, WP!IInv, WP!TypeOK
  <2> QED
    BY <1>3, <2>1, <2>2 DEF WP!Settled, WP!Running, WP!AppStates, WP!Live, Live
<1>4. ASSUME Live(m.id), m.type = "SEND_STARTED"
      PROVE  state = "BRIDGING" /\ watchPhone = "AWAITING_SEND_START"
  BY <1>1, <1>4 DEF PP!Awaited, Starts, ExpectsStart, LastSent
<1>5. ASSUME Live(m.id), m.id = reqId, m.type = "SERVER_RESULT_CHUNK"
      PROVE  WP!Continues(m)
  <2>1. ExpectsChunk(m.id, m.index)
    BY <1>1, <1>5, InChunks DEF PP!Awaited
  <2> QED
    BY <1>5, <2>1, TrueChunkContinues DEF Agreed
<1>6. m.type = "FAILURE" =>
        m.status \in {"ERROR_SERVER", "ERROR_SERVER_RESULT_TIMEOUT", "ERROR_TRANSFER"}
  BY <1>1 DEF Polite, PP!Complaints
<1> QED
  BY <1>2, <1>3, <1>4, <1>5, <1>6, NoIdAssumption DEF WP!Expected

\* What the watch that takes message m expects after it.
Follows(m) ==
  /\ Starts \ {m.id} \subseteq Starts' /\ {c \in Chunks : c[1] # m.id} \subseteq Chunks'
  /\ IF m.type = "FAILURE" THEN Grows ELSE PP!Taken(m, Chunks')

\* A run that is over, or another one, expects whatever follows.
LEMMA HaltsFollows ==
  ASSUME Grows, used' = used, NEW m \in PhoneMessages, ~Live(m.id)',
         PP!Awaited(m, Starts, Chunks)
  PROVE  Follows(m)
<1>1. m.type # "FAILURE" => m.id \in used
  BY InChunks DEF PhoneMessages, PP!Awaited, Starts
<1>2. \A k : ExpectsChunk(m.id, k)'
  BY DEF ExpectsChunk
<1>3. m.type = "SERVER_RESULT_CHUNK" => m.index + 1 \in Nat
  BY DEF PhoneMessages
<1>4. m.type # "FAILURE" => PP!Taken(m, Chunks')
  BY <1>1, <1>2, <1>3, InChunks DEF PP!Taken, PhoneMessages
<1> QED
  BY <1>4 DEF Grows, Follows

\* The run of message m goes on and expects message k of its result.
LEMMA GoesOnFollows ==
  ASSUME WP!Live, UNCHANGED <<reqId, used>>, NEW m, m.id = reqId, m.type # "FAILURE",
         reqId \in used, PP!Taken(m, Chunks')
  PROVE  Follows(m)
<1>1. \A r : r # m.id => ~Live(r)'
  BY DEF Live
<1>2. \A r : r # m.id => ExpectsStart(r)' /\ \A k : ExpectsChunk(r, k)'
  BY <1>1 DEF ExpectsStart, ExpectsChunk
<1>3. Starts \ {m.id} \subseteq Starts'
  BY <1>2 DEF Starts
<1>4. {c \in Chunks : c[1] # m.id} \subseteq Chunks'
  <2> SUFFICES ASSUME NEW c \in Chunks, c[1] # m.id PROVE c \in Chunks'
    OBVIOUS
  <2>1. c[1] \in used' /\ c[2] \in Nat /\ c = <<c[1], c[2]>> /\ ExpectsChunk(c[1], c[2])'
    BY <1>2, InChunks
  <2> QED
    BY <2>1, InChunks
<1> QED
  BY <1>3, <1>4 DEF Follows

\* The watch takes message m of the phone and goes on, or its run is over.
LEMMA MessageTaken ==
  ASSUME IInv, Agreed, NEW m \in TrueMessages, WP!Expected(m), WP!InboxReceived(m),
         PP!Awaited(m, Starts, Chunks), UNCHANGED <<phone, sent, spoken>>
  PROVE  /\ used' = used /\ Follows(m) /\ Friendly'
         /\ \A r \in Starts : r \in Starts' \/ HasAsked(r)
         /\ \A r, k : Sends(r, k)' => Sends(r, k)
         /\ Proper(outbox)'
<1>1. /\ WP!IInv /\ Carried /\ m \in PhoneMessages /\ m.id \in ReqIds /\ Polite' = Polite
  BY DEF IInv, Carried, TrueMessages, PhoneMessages, Polite
<1>2. /\ WP!Blameless
      /\ \/ WP!Halts /\ (WP!Live' => ~WP!ForThisRequest(m))
         \/ WP!StartsToAwait(m)
         \/ WP!TakesPiece(m)
  BY <1>1, WatchAssumptions, WP!InboxHalts
<1>3. used' = used
  BY DEF WP!InboxReceived, WP!watchVars, WP!appVars
<1>4. CASE WP!Halts /\ (WP!Live' => ~WP!ForThisRequest(m))
  <2>1. Grows
    BY <1>3, <1>4, HaltsGrows
  <2>2. ~Live(m.id)'
    BY <1>4 DEF Live, WP!ForThisRequest, WP!Halts, WP!Live
  <2>3. Follows(m)
    BY <1>1, <1>3, <2>1, <2>2, HaltsFollows
  <2>4. \A r, k : Sends(r, k)' => Sends(r, k)
    BY <1>4, HaltsSends
  <2>5. Proper(outbox)'
    BY <1>4 DEF Proper, WP!Halts, Agreed, PhoneReady, OutboxFits
  <2>6. Friendly'
    BY <1>2, <1>4, HaltsFriendly DEF Agreed
  <2> QED
    BY <1>3, <2>1, <2>3, <2>4, <2>5, <2>6 DEF Grows
<1>5. CASE WP!StartsToAwait(m) \/ WP!TakesPiece(m)
  <2>1. /\ state = "BRIDGING" /\ WP!Live /\ UNCHANGED <<reqId, used, outbox>>
        /\ m.id = reqId /\ m.type # "FAILURE" /\ WP!Running
        /\ watchPhone' = "TRANSFERRING" => state' # "BRIDGING"
        /\ state' # "DICTATING"
    BY <1>1, <1>5, NoIdAssumption
       DEF WP!StartsToAwait, WP!TakesPiece, WP!ForThisRequest, WP!Live, WP!Running
  <2>2. reqId \in used /\ HasAsked(m.id)
    BY <1>1, <2>1, Phases, ToldAfterAsked
  <2>3. \A r : r # m.id => ~Live(r)'
    BY <2>1 DEF Live
  <2>4. \A r \in Starts : r \in Starts' \/ HasAsked(r)
    BY <1>3, <2>2, <2>3 DEF Starts, ExpectsStart
  <2>5. \A r, k : Sends(r, k)' => Sends(r, k)
    BY <2>1 DEF Sends, WP!Transferring, WP!Live
  <2>6. Proper(outbox)'
    BY <2>1 DEF Proper, Agreed, PhoneReady, OutboxFits
  <2>7. CASE WP!StartsToAwait(m)
    <3>1. m.type = "SEND_STARTED" /\ watchPhone' = "AWAITING_RESULT"
      BY <2>7 DEF WP!StartsToAwait
    <3>2. ExpectsChunk(m.id, 0)'
      BY <2>1, <2>7, <3>1 DEF ExpectsChunk, WP!StartsToAwait
    <3>3. PP!Taken(m, Chunks')
      BY <1>3, <2>1, <2>2, <3>1, <3>2, InChunks DEF PP!Taken
    <3>4. Friendly'
      BY <1>1, <1>2, <3>1 DEF Agreed, Friendly, WP!Blameless
    <3> QED
      BY <1>3, <2>1, <2>2, <2>4, <2>5, <2>6, <3>3, <3>4, GoesOnFollows
  <2>8. CASE WP!TakesPiece(m)
    <3>1. /\ m.type = "SERVER_RESULT_CHUNK" /\ WP!Continues(m) /\ response' = WP!Extended(m)
          /\ state' # "BRIDGING" \/ watchPhone' = "RECEIVING_RESULT"
      BY <2>8 DEF WP!TakesPiece
    <3>2. /\ m.index \in Nat /\ m.index < Len(spoken[reqId])
          /\ m.count = Len(spoken[reqId]) /\ m.total = Len(spoken[reqId])
          /\ m.text = <<spoken[reqId][m.index + 1]>> /\ m.success = TRUE
      BY <1>1, <2>1, <3>1, TrueChunk
    <3>3. response'.next = m.index + 1
      BY <1>1, <2>1, <3>1, <3>2, PieceExtends DEF IInv, Answered
    <3>4. response'.success = TRUE
      <4>1. m \in WP!ResultChunkMessages
        BY <1>1, <3>1, OneProtocol DEF PhoneMessages, WP!ResultChunkMessages
      <4> QED
        BY <1>1, <3>1, <3>2, <4>1, WatchAssumptions, WP!ExtendedResponse
    <3>5. ExpectsChunk(m.id, m.index + 1)'
      <4>1. m.index + 1 # 0
        BY <3>2
      <4> QED
        BY <2>1, <3>1, <3>3, <4>1 DEF ExpectsChunk, Live, WP!Live
    <3>6. PP!Taken(m, Chunks')
      <4>1. m.index + 1 \in Nat
        BY <3>2
      <4> QED
        BY <1>3, <2>1, <2>2, <3>1, <3>5, <4>1, InChunks DEF PP!Taken
    <3>7. Friendly'
      BY <1>1, <1>2, <3>4 DEF Agreed, Friendly, WP!Blameless
    <3> QED
      BY <1>3, <2>1, <2>2, <2>4, <2>5, <2>6, <3>6, <3>7, GoesOnFollows
  <2> QED
    BY <1>5, <2>7, <2>8
<1> QED
  BY <1>2, <1>4, <1>5

\* The phone's line is in order again once the watch has taken its message.
LEMMA TakenAligned ==
  ASSUME IInv, Agreed, NEW m, Coming(m), Follows(m), push' = Reported("delivered"),
         UNCHANGED phone
  PROVE  PP!Aligned(phone', push', Starts', Chunks')
<1>1. PP!Sound(phone) /\ PP!Aligned(phone, push, Starts, Chunks)
  BY DEF IInv, Carried, PP!IInv, Agreed, WatchReady
<1>2. CASE push = "sent"
  <2>1. phone.inflight # PP!NoEntry /\ phone.inflight.msg = m /\ push' = "delivered"
    BY <1>2 DEF Coming, Reported
  <2>2. CASE m.type = "FAILURE"
    <3>1. PP!Aligned(phone, "delivered", Starts, Chunks)
      BY <1>1, <2>1, <2>2, PhoneAssumptions, PP!FateAligned
    <3> QED
      BY <2>1, <2>2, <3>1, PhoneAssumptions, PP!AlignedMonotone DEF Follows, Grows
  <2>3. CASE m.type # "FAILURE"
    <3>1. /\ \A r \in Starts : r # m.id => r \in Starts'
          /\ \A c \in Chunks : c[1] # m.id => c \in Chunks'
          /\ PP!Taken(m, Chunks')
      BY <2>3 DEF Follows
    <3> QED
      BY <1>1, <1>2, <2>1, <2>3, <3>1, PhoneAssumptions, PP!DeliveredAligned
  <2> QED
    BY <2>2, <2>3
<1>3. CASE push = "orphaned"
  <2>1. push' = "idle"
    BY <1>3 DEF Reported
  <2>2. CASE m.type = "FAILURE"
    <3>1. PP!Aligned(phone, "idle", Starts, Chunks)
      BY <1>1, <1>3, PhoneAssumptions, PP!FateAligned
    <3> QED
      BY <2>1, <2>2, <3>1, PhoneAssumptions, PP!AlignedMonotone DEF Follows, Grows
  <2>3. CASE m.type # "FAILURE"
    <3>1. PP!Aligned(phone, push, Starts \ {m.id}, {c \in Chunks : c[1] # m.id})
      BY <1>3, <2>3 DEF Coming
    <3>2. PP!Aligned(phone, "idle", Starts \ {m.id}, {c \in Chunks : c[1] # m.id})
      BY <1>3, <3>1, PhoneAssumptions, PP!FateAligned
    <3> QED
      BY <2>1, <3>2, PhoneAssumptions, PP!AlignedMonotone DEF Follows
  <2> QED
    BY <2>2, <2>3
<1> QED
  BY <1>2, <1>3 DEF Coming

LEMMA PushArrivesAgreed ==
  ASSUME IInv, Agreed, PushArrives
  PROVE  Agreed'
<1>1. /\ downlink # <<>> /\ Head(downlink) # Ack /\ downlink' = Tail(downlink)
      /\ UNCHANGED <<phone, uplink, sent, spoken>>
  BY DEF PushArrives, phoneVars
<1>2. CASE UNCHANGED watchVars /\ push' = Reported("failed")
  BY <1>1, <1>2, RestHalts, RefusedAgreed
<1>3. CASE W!InboxReceived(Head(downlink)) /\ push' = Reported("delivered")
  <2>1. PICK m \in TrueMessages : m = Head(downlink)
    <3> DEFINE S == TrueMessages
    <3>1. downlink \in Seq(S \cup {Ack})
      BY DEF IInv, Answered, TellsTheTruth
    <3> HIDE DEF S
    <3>2. Head(downlink) \in S
      BY <1>1, <3>1
    <3> QED
      BY <3>2 DEF S
  <2>2. /\ Coming(m) /\ PP!Awaited(m, Starts, Chunks)
        /\ Tail(downlink) = IF sent THEN <<Ack>> ELSE <<>>
    BY <1>1, <2>1, Streams DEF Agreed, WatchReady, Coming
  <2>3. WP!InboxReceived(m) /\ WP!Running
    BY <1>3, <2>1, SameWatch DEF WP!InboxReceived
  <2>4. WP!Expected(m)
    BY <1>1, <2>1, <2>3, MessageExpected
  <2>5. /\ used' = used /\ Follows(m) /\ Friendly'
        /\ \A r \in Starts : r \in Starts' \/ HasAsked(r)
        /\ \A r, k : Sends(r, k)' => Sends(r, k)
        /\ Proper(outbox)'
    BY <1>1, <2>2, <2>3, <2>4, MessageTaken
  <2>6. PP!Aligned(phone', push', Starts', Chunks')
    BY <1>1, <1>3, <2>2, <2>5, TakenAligned
  <2>7. Downlinked'
    BY <1>1, <1>3, <2>2 DEF Downlinked, Reported
  <2>8. Carried /\ Lasts
    BY <1>1 DEF IInv, Lasts
  <2>9. PhoneReady'
    BY <1>1, <2>5, <2>8, PhoneStaysReady DEF Agreed
  <2> QED
    BY <2>5, <2>6, <2>7, <2>9 DEF Agreed, WatchReady
<1> QED
  BY <1>2, <1>3 DEF PushArrives

-----------------------------------------------------------------------------
(* Neither side is taken for a violator: the whole.                        *)

LEMMA NextAgreed ==
  ASSUME AnswersFit, IInv, Agreed, [Next]_vars
  PROVE  Agreed'
<1>1. Carried /\ Carried'
  BY NextCarried DEF IInv
<1>2. CASE UNCHANGED vars
  <2>1. UNCHANGED <<watchVars, phone, uplink, push, downlink, sent, spoken>>
    BY <1>2 DEF vars, phoneVars, linkVars
  <2> QED
    BY <1>1, <2>1, RestHalts, HaltsAgreed
<1>3. CASE WatchStep
  BY <1>1, <1>3, WatchStepAgreed
<1>4. CASE AppEnds \/ OutboxLost
  BY <1>1, <1>4, UndeliveredAgreed
<1>5. CASE Transmit \/ AckArrives
  BY <1>1, <1>5, TransmitAgreed, AckArrivesAgreed
<1>6. CASE PhoneReceives \/ PhoneStep \/ PhoneRestarts
  BY <1>1, <1>6, PhoneReceivesAgreed, PhoneStepAgreed, PhoneRestartsAgreed
<1>7. CASE Push \/ PushArrives \/ PushLost \/ PushAckLost \/ PushDone
  BY <1>7, PushAgreed, PushArrivesAgreed, PushLostAgreed, PushAckLostAgreed, PushDoneAgreed
<1> QED
  BY <1>2, <1>3, <1>4, <1>5, <1>6, <1>7 DEF Next, LinkStep

LEMMA InitAgreed == Init => Agreed
<1> SUFFICES ASSUME Init PROVE Agreed
  OBVIOUS
<1>1. /\ state = "OFF" /\ outbox = NoMsg /\ terminalStatus = "NORMAL"
      /\ uplink = <<>> /\ downlink = <<>> /\ ~sent /\ push = "idle"
      /\ spoken = [r \in ReqIds |-> <<>>]
  BY OneProtocol DEF Init, W!Init, W!NoMsg
<1>2. PP!Shut(phone) /\ phone.inflight = PP!NoEntry
  <2>1. phone = PP!Idle
    BY OneProtocol DEF Init, P!Init
  <2> QED
    BY <2>1 DEF PP!Idle, PP!Shut, PP!Stopped, PP!ServerShut
<1>3. PP!Tidy(phone) /\ PP!Aligned(phone, push, Starts, Chunks)
  BY <1>1, <1>2, PhoneAssumptions, PP!IdleAligned
<1>4. Downlinked
  BY <1>1 DEF Downlinked
<1>5. UplinkFits
  BY <1>1 DEF UplinkFits
<1>6. OutboxFits
  BY <1>1, MessageTypes DEF OutboxFits, Proper, Sends, WP!Live, WP!Transferring
<1>7. Friendly
  <2>1. PP!Tells(phone, Polite)
    BY <1>2 DEF PP!Tells, PP!Shut
  <2>2. \A r \in ReqIds : Len(spoken[r]) <= MaxResponse
    <3>1. Len(<<>>) = 0 /\ 0 <= MaxResponse
      BY SystemAssumption
    <3> QED
      BY <1>1, <3>1
  <2> QED
    BY <1>1, <2>1, <2>2 DEF Friendly
<1> QED
  BY <1>3, <1>4, <1>5, <1>6, <1>7 DEF Agreed, WatchReady, PhoneReady

\* Two correct ends never accuse each other, whatever is lost, late, refused or
\* restarted, and however their steps interleave.  The server answers a request
\* with its transcript, so no transcript may be longer than the response that
\* the watch has room for: the phone takes a longer answer for a violation, as
\* RejectsTheOversized has it.
THEOREM NobodyIsAccused ==
  ASSUME AnswersFit
  PROVE  Spec => []NoProtocolError
<1>1. Init => EIInv
  BY InitAnswered, InitAgreed DEF EIInv
<1>2. EIInv /\ [Next]_vars => EIInv'
  BY NextAnswered, NextAgreed DEF EIInv
<1>3. EIInv => NoProtocolError
  <2> SUFFICES ASSUME EIInv PROVE NoProtocolError
    OBVIOUS
  <2>1. \A m \in Polite : m # Failure(phone.id, "ERROR_PROTOCOL")
    BY DEF Polite, PP!Complaints, Failure
  <2>2. PP!NoEntry.msg # Failure(phone.id, "ERROR_PROTOCOL")
    BY DEF PP!NoEntry, PP!NoMsg, Failure
  <2>3. terminalStatus # "ERROR_PROTOCOL" /\ PP!Tells(phone, Polite)
    BY DEF EIInv, Agreed, Friendly
  <2> QED
    BY <2>1, <2>2, <2>3 DEF NoProtocolError, PP!Tells
<1> QED
  BY <1>1, <1>2, <1>3, PTL DEF Spec

-----------------------------------------------------------------------------
(* Identifiers.  System takes an identifier to be new in every run; what   *)
(* follows says for which runs it is: for every clock, every set of        *)
(* milliseconds and any number of launches.                                *)

\* A launch's record is made of one time, and determined by it.
Launched(l) ==
  /\ l.seconds \in Clock /\ l.milliseconds \in Milliseconds
  /\ l = [seconds |-> l.seconds, milliseconds |-> l.milliseconds,
          id |-> Identifier(l.seconds, l.milliseconds)]

Recorded ==
  /\ seconds \in Clock /\ milliseconds \in Milliseconds
  /\ \A l \in launches : Launched(l)

\* Times a window apart, or less, with the same low half are the same second:
\* the low half repeats after 65,536 seconds.
LEMMA LowHalfTellsSeconds ==
  ASSUME NEW s \in Nat, NEW t \in Nat,
         s <= t + 43200, t <= s + 43200, Low(s) = Low(t)
  PROVE  s = t
BY DEF Low

\* A value that is 0 or 1 needs a high half that milliseconds reach.
LEMMA SmallValueMeansEarly ==
  ASSUME NEW s \in Clock, NEW m \in Milliseconds, Value(s, m).high = 0
  PROVE  High(s) < 1000
<1>1. XorWords(High(s), m) = 0
  BY DEF Value
<1>2. High(s) = m
  BY <1>1, XorAssumption
<1>3. m \in 0 .. 999
  BY MillisecondsAssumption
<1> QED
  BY <1>2, <1>3

\* Within one second the high half tells the milliseconds, within a window
\* the low half tells the second: values do not repeat.
LEMMA ValueIsInjective ==
  ASSUME NEW s \in Clock, NEW m \in Milliseconds,
         NEW t \in Clock, NEW n \in Milliseconds,
         s <= t + 43200, t <= s + 43200, Value(s, m) = Value(t, n)
  PROVE  s = t /\ m = n
<1>1. Low(s) = Low(t) /\ XorWords(High(s), m) = XorWords(High(t), n)
  BY DEF Value
<1>2. s = t
  BY <1>1, LowHalfTellsSeconds, ClockAssumption
<1>3. XorWords(High(s), m) = XorWords(High(s), n)
  BY <1>1, <1>2
<1>4. m = n
  BY <1>3, XorAssumption
<1> QED
  BY <1>2, <1>4

\* The substitute for 0 is the one identifier two values share.
LEMMA IdentifierIsInjective ==
  ASSUME NEW s \in Clock, NEW m \in Milliseconds,
         NEW t \in Clock, NEW n \in Milliseconds,
         s <= t + 43200, t <= s + 43200, Identifier(s, m) = Identifier(t, n)
  PROVE  \/ s = t /\ m = n
         \/ Identifier(s, m) = One /\ High(s) < 1000 /\ High(t) < 1000
<1>1. CASE Value(s, m) = Value(t, n)
  BY <1>1, ValueIsInjective
<1>2. CASE Value(s, m) # Value(t, n)
  <2>1. \/ Value(s, m) = Zero /\ Value(t, n) = One
        \/ Value(s, m) = One /\ Value(t, n) = Zero
    BY <1>2 DEF Identifier
  <2>2. Value(s, m).high = 0 /\ Value(t, n).high = 0
    BY <2>1 DEF Zero, One
  <2>3. High(s) < 1000 /\ High(t) < 1000
    BY <2>2, SmallValueMeansEarly
  <2>4. Identifier(s, m) = One
    BY <2>1 DEF Identifier, Zero, One
  <2> QED
    BY <2>3, <2>4
<1> QED
  BY <1>1, <1>2

LEMMA InitRecorded == IdInit => Recorded
BY DEF IdInit, Recorded

LEMMA NextRecorded == Recorded /\ [IdNext]_idVars => Recorded'
<1> SUFFICES ASSUME Recorded, [IdNext]_idVars
             PROVE  Recorded'
  OBVIOUS
<1>1. CASE Tick
  BY <1>1 DEF Recorded, Tick, Launched
<1>2. CASE Generate
  <2> DEFINE new == [seconds |-> seconds, milliseconds |-> milliseconds,
                     id |-> Identifier(seconds, milliseconds)]
  <2>1. Launched(new)
    BY DEF Launched, Recorded
  <2>2. launches' = launches \cup {new} /\ UNCHANGED <<seconds, milliseconds>>
    BY <1>2 DEF Generate
  <2>3. \A l \in launches' : Launched(l)
    BY <2>1, <2>2 DEF Recorded
  <2> QED
    BY <2>2, <2>3 DEF Recorded
<1>3. CASE UNCHANGED idVars
  BY <1>3 DEF idVars, Recorded, Launched
<1> QED
  BY <1>1, <1>2, <1>3 DEF IdNext

\* Within twelve hours by the watch's clock no two runs share an identifier, but for identifier 1
\* on a clock that was never set.
THEOREM IdentifiersAreUnique == IdSpec => []UniqueInWindow
<1>1. Recorded => UniqueInWindow
  <2> SUFFICES ASSUME Recorded, NEW k \in launches, NEW l \in launches,
                      Near(k, l), k.id = l.id
               PROVE  \/ k = l
                      \/ k.id = One /\ High(k.seconds) < 1000 /\ High(l.seconds) < 1000
    BY DEF UniqueInWindow
  <2>1. /\ k.seconds \in Clock /\ k.milliseconds \in Milliseconds
        /\ k = [seconds |-> k.seconds, milliseconds |-> k.milliseconds,
                id |-> Identifier(k.seconds, k.milliseconds)]
    BY DEF Recorded, Launched
  <2>2. /\ l.seconds \in Clock /\ l.milliseconds \in Milliseconds
        /\ l = [seconds |-> l.seconds, milliseconds |-> l.milliseconds,
                id |-> Identifier(l.seconds, l.milliseconds)]
    BY DEF Recorded, Launched
  <2>3. k.id = Identifier(k.seconds, k.milliseconds)
    BY <2>1
  <2>4. l.id = Identifier(l.seconds, l.milliseconds)
    BY <2>2
  <2>5. \/ k.seconds = l.seconds /\ k.milliseconds = l.milliseconds
        \/ k.id = One /\ High(k.seconds) < 1000 /\ High(l.seconds) < 1000
    <3>1. k.seconds <= l.seconds + 43200 /\ l.seconds <= k.seconds + 43200
      BY DEF Near, Window
    <3>2. Identifier(k.seconds, k.milliseconds) = Identifier(l.seconds, l.milliseconds)
      BY <2>3, <2>4
    <3>3. /\ k.seconds \in Clock /\ k.milliseconds \in Milliseconds
          /\ l.seconds \in Clock /\ l.milliseconds \in Milliseconds
      BY <2>1, <2>2
    <3> QED
      BY <2>3, <3>1, <3>2, <3>3, IdentifierIsInjective
  <2> QED
    BY <2>1, <2>2, <2>5
<1> QED
  BY <1>1, InitRecorded, NextRecorded, PTL DEF IdSpec

=============================================================================
