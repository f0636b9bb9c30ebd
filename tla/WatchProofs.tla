----------------------------- MODULE WatchProofs -----------------------------
(***************************************************************************)
(* Proofs about the watchapp for every set of identifiers and pieces,      *)
(* every inbox, and every choice of what may fail.                         *)
(*                                                                         *)
(* No invariant of Watch is inductive alone: that a watchdog is armed needs *)
(* to know that the two bridge contexts agree, that the request can always *)
(* move on needs to know which message the outbox holds in which phase,    *)
(* and that this message has its type needs the bound on nextChunk.  Their *)
(* conjunction is inductive.                                               *)
(***************************************************************************)
EXTENDS Watch, TLAPS

IInv ==
  /\ TypeOK
  /\ WatchdogArmed
  /\ NeverStranded
  /\ BridgesAgree
  /\ OutboxMatchesPhase
  /\ ErrorCleansUp
  /\ ResultIsWhole

USE DEF Texts

-----------------------------------------------------------------------------
(* Messages.                                                               *)

\* Every message the watch posts is a watch message.
LEMMA SessionBeginType ==
  ASSUME NEW r \in ReqIds
  PROVE  /\ SessionBegin(r) \in WatchMessages
         /\ SessionBegin(r) # NoMsg
         /\ SessionBegin(r).type = "SESSION_BEGIN"
  BY DEF SessionBegin, WatchMessages, NoMsg

LEMMA SessionEndType ==
  ASSUME NEW r \in ReqIds, NEW s \in StatusCodes
  PROVE  /\ SessionEnd(r, s) \in WatchMessages
         /\ SessionEnd(r, s) # NoMsg
         /\ SessionEnd(r, s).type = "SESSION_END"
  BY DEF SessionEnd, WatchMessages, NoMsg

LEMMA TranscriptChunkType ==
  ASSUME NEW r \in ReqIds, NEW t \in Texts, NEW i \in Nat, i < Len(t)
  PROVE  /\ TranscriptChunk(r, i, t) \in WatchMessages
         /\ TranscriptChunk(r, i, t) # NoMsg
         /\ TranscriptChunk(r, i, t).type = "TRANSCRIPT_CHUNK"
<1>1. t[i + 1] \in Pieces /\ Len(t) \in Nat
  OBVIOUS
<1>2. <<t[i + 1]>> \in Seq(Pieces)
  BY <1>1
<1> QED
  BY <1>1, <1>2 DEF TranscriptChunk, WatchMessages, NoMsg

\* The empty response is a response.
LEMMA NoResponseType == NoResponse \in Responses /\ NoResponse.text = <<>>
  BY DEF NoResponse, Responses

-----------------------------------------------------------------------------
(* Entering and keeping the error state.                                   *)

\* Whatever the state in which prv_fail enters ERROR, the invariant holds.
LEMMA ErrorEntered ==
  ASSUME NEW id \in ReqIds, NEW ready \in BOOLEAN,
         NEW held \in WatchMessages \cup {NoMsg}, NEW status \in StatusCodes,
         held.type # "SESSION_END",
         EnterError(id, ready, held, status),
         timers' \subseteq {"exit"}, dialog' \in DialogPhases,
         reqId' = id, used' \subseteq ReqIds, appMessageReady' = ready,
         watchPhone' \in WatchPhoneStates, phoneServer' \in PhoneServerStates,
         beginDelivered' \in BOOLEAN,
         vibration' \in {"none", "success", "failure"}
  PROVE  IInv'
<1>1. SessionEnd(id, status) \in WatchMessages /\ SessionEnd(id, status) # NoMsg
  BY SessionEndType
<1>2. state' = "ERROR" /\ outbox' \in WatchMessages \cup {NoMsg}
      /\ sessionEndPending' \in BOOLEAN
  BY <1>1 DEF EnterError
<1>3. TypeOK'
  <2>1. transcript' \in Texts /\ response' \in Responses /\ nextChunk' = 0
    BY NoResponseType DEF EnterError
  <2>2. /\ state' \in AppStates /\ dictationActive' \in BOOLEAN
        /\ terminalStatus' \in StatusCodes /\ timers' \subseteq Timers
    BY DEF EnterError, AppStates, Timers
  <2> QED
    BY <1>2, <2>1, <2>2 DEF TypeOK
<1>4. ErrorCleansUp'
  BY <1>1 DEF ErrorCleansUp, EnterError
<1>5. WatchdogArmed' /\ NeverStranded' /\ BridgesAgree' /\ ResultIsWhole'
  BY <1>2 DEF WatchdogArmed, NeverStranded, BridgesAgree, ResultIsWhole, Running
<1>6. OutboxMatchesPhase'
  BY <1>2 DEF OutboxMatchesPhase, Running
<1> QED
  BY <1>3, <1>4, <1>5, <1>6 DEF IInv

\* ShowTerminalStatus leaves at most the exit timer.
LEMMA StatusShown ==
  ASSUME ShowTerminalStatus
  PROVE  timers' \subseteq {"exit"} /\ dialog' \in DialogPhases
  BY DEF ShowTerminalStatus, TerminalStatusVisible, DialogPhases

\* A request in progress has not sent its SESSION_END.
LEMMA UnsettledOutbox ==
  ASSUME IInv, Running, ~Settled
  PROVE  outbox.type # "SESSION_END"
<1>1. state \in {"DICTATING", "BRIDGING"} /\ reqId \in ReqIds
  BY DEF IInv, TypeOK, AppStates, Running, Settled, OutboxMatchesPhase
<1>2. outbox \in {NoMsg, SessionBegin(reqId), TranscriptChunk(reqId, nextChunk, transcript)}
  BY <1>1 DEF IInv, OutboxMatchesPhase
<1> QED
  BY <1>2 DEF NoMsg, SessionBegin, TranscriptChunk

\* prv_fail, called while the timers that are left are `armed` and the outbox
\* holds `held`, preserves the invariant: it enters ERROR or, the run having
\* settled, changes nothing.
LEMMA FailKeepsIInv ==
  ASSUME IInv, Running,
         NEW held \in {outbox, NoMsg}, NEW armed, armed \subseteq timers,
         NEW status \in StatusCodes,
         Settled => held = outbox,
         Fail(held, armed, status),
         UNCHANGED <<reqId, used, appMessageReady, beginDelivered>>,
         watchPhone' \in WatchPhoneStates, phoneServer' \in PhoneServerStates,
         vibration' \in {"none", "success", "failure"},
         Settled => vibration' = vibration
  PROVE  IInv'
<1>1. reqId \in ReqIds /\ TypeOK
  BY DEF IInv, OutboxMatchesPhase
<1>0. NoMsg.type # "SESSION_END"
  BY DEF NoMsg
<1>2. CASE ~Settled
  <2>1. EnterError(reqId, appMessageReady, held, status) /\ ShowTerminalStatus
    BY <1>2 DEF Fail
  <2>2. timers' \subseteq {"exit"} /\ dialog' \in DialogPhases
    BY <2>1, StatusShown
  <2>3. held \in WatchMessages \cup {NoMsg} /\ appMessageReady \in BOOLEAN
        /\ used' \subseteq ReqIds /\ beginDelivered' \in BOOLEAN
    BY <1>1 DEF TypeOK
  <2>4. held.type # "SESSION_END"
    BY <1>0, <1>1, <1>2, UnsettledOutbox
  <2> QED
    BY <1>1, <2>1, <2>2, <2>3, <2>4, ErrorEntered
<1>3. CASE Settled
  <2>1. /\ outbox' = outbox /\ timers' \subseteq timers
        /\ UNCHANGED <<state, terminalStatus, dictationActive, transcript,
                       nextChunk, response, sessionEndPending, dialog, vibration>>
    BY <1>3 DEF Fail
  <2>2. TypeOK'
    BY <1>1, <2>1 DEF TypeOK
  <2>3. /\ WatchdogArmed' /\ NeverStranded' /\ BridgesAgree'
        /\ OutboxMatchesPhase' /\ ErrorCleansUp' /\ ResultIsWhole'
    BY <1>3, <2>1
       DEF IInv, Settled, Running, WatchdogArmed, NeverStranded, BridgesAgree,
           OutboxMatchesPhase, ErrorCleansUp, ResultIsWhole
  <2> QED
    BY <2>2, <2>3 DEF IInv
<1> QED
  BY <1>2, <1>3

\* The status codes of both bridges' errors.
LEMMA StatusTypes ==
  /\ \A e \in {"CONNECTIVITY", "PROTOCOL", "TRANSFER", "SEND_START_TIMEOUT",
               "RESULT_TRANSFER_TIMEOUT"} : WatchPhoneStatus[e] \in StatusCodes
  /\ \A e \in {"PROTOCOL", "SERVER", "RESULT_TIMEOUT", "REQUEST_TIMEOUT"} :
       PhoneServerStatus[e] \in StatusCodes
  BY DEF WatchPhoneStatus, PhoneServerStatus, StatusCodes

WatchPhoneErrors ==
  {"CONNECTIVITY", "PROTOCOL", "TRANSFER", "SEND_START_TIMEOUT",
   "RESULT_TRANSFER_TIMEOUT"}

\* prv_watch_phone_fail preserves the invariant.
LEMMA WatchPhoneFailKeepsIInv ==
  ASSUME IInv, Running,
         NEW held \in {outbox, NoMsg}, NEW armed, armed \subseteq timers,
         NEW e \in WatchPhoneErrors,
         Settled => held = outbox,
         WatchPhoneFail(held, armed, e),
         UNCHANGED <<reqId, used, appMessageReady, beginDelivered>>,
         phoneServer' \in PhoneServerStates,
         vibration' \in {"none", "success", "failure"},
         Settled => vibration' = vibration
  PROVE  IInv'
<1>1. WatchPhoneStatus[e] \in StatusCodes
  BY StatusTypes DEF WatchPhoneErrors
<1>2. watchPhone' \in WatchPhoneStates /\ Fail(held, armed, WatchPhoneStatus[e])
  BY DEF WatchPhoneFail, WatchPhoneStates
<1> QED
  BY <1>1, <1>2, FailKeepsIInv

\* prv_phone_server_fail preserves the invariant.
LEMMA PhoneServerFailKeepsIInv ==
  ASSUME IInv, Running, NEW armed, armed \subseteq timers,
         NEW e \in {"PROTOCOL", "SERVER", "RESULT_TIMEOUT", "REQUEST_TIMEOUT"},
         PhoneServerFail(armed, e),
         UNCHANGED <<reqId, used, appMessageReady, beginDelivered, watchPhone,
                     vibration>>
  PROVE  IInv'
<1>1. PhoneServerStatus[e] \in StatusCodes
  BY StatusTypes
<1>2. phoneServer' \in PhoneServerStates /\ Fail(outbox, armed, PhoneServerStatus[e])
  BY DEF PhoneServerFail, PhoneServerStates
<1>3. watchPhone' \in WatchPhoneStates /\ vibration' \in {"none", "success", "failure"}
  BY DEF IInv, TypeOK
<1> QED
  BY <1>1, <1>2, <1>3, FailKeepsIInv

\* Only a failed run shows the transition to its status.
LEMMA NoTransition ==
  ASSUME IInv, state # "ERROR"
  PROVE  dialog # "error_transition"
  BY DEF IInv, WatchdogArmed

\* A step that only changes the screen and the exit timer of a settled run.
LEMMA ScreenChangeKeepsIInv ==
  ASSUME IInv, state \in {"ERROR", "DISPLAYING_RESULT"},
         timers' \subseteq timers \cup {"exit"},
         dialog' \in DialogPhases \ {"error_transition"},
         UNCHANGED <<appVars, bridgeVars, deliveryVars>>
  PROVE  IInv'
<1>1. timers' \subseteq {"exit"} /\ timers' \subseteq Timers
  BY DEF IInv, WatchdogArmed, Timers
<1>2. TypeOK'
  BY <1>1 DEF IInv, TypeOK, appVars, bridgeVars, deliveryVars
<1> QED
  BY <1>1, <1>2
     DEF IInv, WatchdogArmed, NeverStranded, BridgesAgree, OutboxMatchesPhase,
         ErrorCleansUp, ResultIsWhole, Running, appVars, bridgeVars, deliveryVars

\* The invariant depends on the variables only.
LEMMA StutterKeepsIInv == ASSUME IInv, UNCHANGED watchVars PROVE IInv'
  BY DEF IInv, TypeOK, WatchdogArmed, NeverStranded, BridgesAgree,
         OutboxMatchesPhase, ErrorCleansUp, ResultIsWhole, Running, watchVars,
         appVars, bridgeVars, deliveryVars, uiVars

-----------------------------------------------------------------------------
(* Launch and dictation.                                                   *)

LEMMA LaunchAbortedKeepsIInv ==
  ASSUME IInv, NEW r \in ReqIds, LaunchAborted(r)
  PROVE  IInv'
<1>1. /\ used' = used \cup {r}
      /\ UNCHANGED <<state, reqId, terminalStatus, dictationActive, vibration,
                     bridgeVars, deliveryVars, uiVars>>
  BY DEF LaunchAborted
<1>2. TypeOK'
  BY <1>1 DEF IInv, TypeOK, bridgeVars, deliveryVars, uiVars
<1> QED
  BY <1>1, <1>2
     DEF IInv, WatchdogArmed, NeverStranded, BridgesAgree, OutboxMatchesPhase,
         ErrorCleansUp, ResultIsWhole, Running, bridgeVars, deliveryVars, uiVars

LEMMA LaunchFailsKeepsIInv ==
  ASSUME IInv, NEW r \in ReqIds, NEW ready \in BOOLEAN, NEW bridged \in BOOLEAN,
         NEW held \in WatchMessages \cup {NoMsg}, NEW status \in StatusCodes,
         held.type # "SESSION_END", LaunchFails(r, ready, bridged, held, status),
         reqId' = r, used' = used \cup {r}, beginDelivered' = FALSE,
         vibration' = "none"
  PROVE  IInv'
<1>1. EnterError(r, ready, held, status) /\ appMessageReady' = ready
  BY DEF LaunchFails
<1>2. timers' \subseteq {"exit"} /\ dialog' \in DialogPhases
  BY StatusShown DEF LaunchFails
<1>3. watchPhone' \in WatchPhoneStates /\ phoneServer' \in PhoneServerStates
  BY DEF LaunchFails, WatchPhoneStates, PhoneServerStates
<1>4. used' \subseteq ReqIds
  BY DEF IInv, TypeOK
<1> QED
  BY <1>1, <1>2, <1>3, <1>4, ErrorEntered

LEMMA LaunchKeepsIInv ==
  ASSUME IInv, NEW r \in ReqIds, Launch(r)
  PROVE  IInv'
<1>0. /\ reqId' = r /\ used' = used \cup {r} /\ beginDelivered' = FALSE
      /\ vibration' = "none"
      /\ NoMsg.type # "SESSION_END" /\ SessionBegin(r).type # "SESSION_END"
  BY DEF Launch, NoMsg, SessionBegin
<1>1. ASSUME NEW e \in {"CONNECTIVITY", "TRANSFER"},
             LaunchFails(r, FALSE, FALSE, NoMsg, WatchPhoneStatus[e])
      PROVE  IInv'
  BY <1>0, <1>1, StatusTypes, LaunchFailsKeepsIInv
<1>2. CASE LaunchFails(r, TRUE, FALSE, NoMsg, "ERROR_DICTATION")
  <2>1. "ERROR_DICTATION" \in StatusCodes
    BY DEF StatusCodes
  <2> QED
    BY <1>0, <1>2, <2>1, LaunchFailsKeepsIInv
<1>3. ASSUME NEW e \in SendFailures,
             LaunchFails(r, TRUE, TRUE, NoMsg, WatchPhoneStatus[e])
      PROVE  IInv'
  <2>1. e \in {"CONNECTIVITY", "TRANSFER"}
    BY SendFailuresAssumption
  <2> QED
    BY <1>0, <1>3, <2>1, StatusTypes, LaunchFailsKeepsIInv
<1>4. CASE LaunchFails(r, TRUE, TRUE, SessionBegin(r), "ERROR_DICTATION")
  <2>1. "ERROR_DICTATION" \in StatusCodes
    BY DEF StatusCodes
  <2> QED
    BY <1>0, <1>4, <2>1, SessionBeginType, LaunchFailsKeepsIInv
<1>5. CASE state' = "DICTATING" /\ ~(\E e \in SendFailures : LaunchFails(r, TRUE, TRUE, NoMsg, WatchPhoneStatus[e]))
  <2>1. /\ appMessageReady' = TRUE /\ watchPhone' = "SESSION_BEGIN_PENDING"
        /\ phoneServer' = "PREPARING" /\ outbox' = SessionBegin(r)
        /\ dictationActive' = TRUE /\ terminalStatus' = "NORMAL"
        /\ sessionEndPending' = FALSE /\ transcript' = <<>> /\ nextChunk' = 0
        /\ response' = NoResponse /\ timers' = {} /\ dialog' = "progress"
    BY <1>5 DEF Launch, LaunchFails, EnterError
  <2>2. TypeOK'
    <3>1. used' \subseteq ReqIds
      BY <1>0 DEF IInv, TypeOK
    <3>2. response' \in Responses /\ transcript' \in Texts
      BY <2>1, NoResponseType
    <3> QED
      BY <1>0, <1>5, <2>1, <3>1, <3>2, SessionBeginType
         DEF TypeOK, AppStates, WatchPhoneStates, PhoneServerStates, StatusCodes,
             DialogPhases
  <2>3. WatchdogArmed'
    BY <1>5, <2>1 DEF WatchdogArmed, Watchdog, Running
  <2>4. /\ NeverStranded' /\ BridgesAgree' /\ OutboxMatchesPhase'
        /\ ErrorCleansUp' /\ ResultIsWhole'
    BY <1>0, <1>5, <2>1
       DEF NeverStranded, BridgesAgree, OutboxMatchesPhase, ErrorCleansUp,
           ResultIsWhole, Running
  <2> QED
    BY <2>2, <2>3, <2>4 DEF IInv
<1> QED
  BY <1>1, <1>2, <1>3, <1>4, <1>5 DEF Launch

\* Handing a chunk of the transcript to the outbox preserves the invariant.
LEMMA PostChunkKeepsIInv ==
  ASSUME IInv, state \in {"DICTATING", "BRIDGING"},
         NEW t \in Texts, NEW i \in Nat, i < Len(t),
         timers = {}, phoneServer = "PREPARING", PostChunk(t, i),
         UNCHANGED <<reqId, used, vibration, phoneServer, appMessageReady>>,
         beginDelivered' = TRUE
  PROVE  IInv'
<1>1. reqId \in ReqIds /\ TypeOK
  BY DEF IInv, OutboxMatchesPhase, Running
<1>2. CASE \E e \in SendFailures : WatchPhoneFail(NoMsg, timers, e)
  <2>1. PICK e \in SendFailures : WatchPhoneFail(NoMsg, timers, e)
    BY <1>2
  <2>2. e \in {"CONNECTIVITY", "TRANSFER"} /\ WatchPhoneStatus[e] \in StatusCodes
    BY SendFailuresAssumption, StatusTypes
  <2>3. /\ EnterError(reqId, appMessageReady, NoMsg, WatchPhoneStatus[e])
        /\ ShowTerminalStatus /\ watchPhone' \in WatchPhoneStates
    BY <2>1 DEF WatchPhoneFail, Fail, Settled, WatchPhoneStates
  <2>4. timers' \subseteq {"exit"} /\ dialog' \in DialogPhases
    BY <2>3, StatusShown
  <2>5. /\ phoneServer' \in PhoneServerStates /\ used' \subseteq ReqIds
        /\ vibration' \in {"none", "success", "failure"}
        /\ appMessageReady \in BOOLEAN
    BY <1>1 DEF TypeOK
  <2> QED
    BY <1>1, <2>2, <2>3, <2>4, <2>5, ErrorEntered DEF NoMsg
<1>3. CASE ~(\E e \in SendFailures : WatchPhoneFail(NoMsg, timers, e))
  <2>1. /\ outbox' = TranscriptChunk(reqId, i, t) /\ transcript' = t
        /\ nextChunk' = i /\ state' = "BRIDGING"
        /\ watchPhone' = "TRANSFERRING" /\ dictationActive' = FALSE
        /\ dialog' = "progress"
        /\ UNCHANGED <<timers, response, sessionEndPending, terminalStatus>>
    BY <1>3 DEF PostChunk
  <2>2. outbox' \in WatchMessages /\ outbox' # NoMsg
    BY <1>1, <2>1, TranscriptChunkType
  <2>3. TypeOK'
    BY <1>1, <2>1, <2>2
       DEF TypeOK, AppStates, WatchPhoneStates, PhoneServerStates, DialogPhases
  <2>4. WatchdogArmed'
    BY <2>1 DEF WatchdogArmed, Watchdog, Running
  <2>5. BridgesAgree'
    BY <2>1 DEF BridgesAgree
  <2>6. NeverStranded' /\ OutboxMatchesPhase' /\ ErrorCleansUp' /\ ResultIsWhole'
    BY <1>1, <2>1, <2>2
       DEF NeverStranded, OutboxMatchesPhase, ErrorCleansUp, ResultIsWhole, Running
  <2> QED
    BY <2>3, <2>4, <2>5, <2>6 DEF IInv
<1> QED
  BY <1>2, <1>3

LEMMA DictationFailsKeepsIInv ==
  ASSUME IInv, NEW s \in StatusCodes, DictationFails(s)
  PROVE  IInv'
<1>1. /\ Running /\ ~Settled /\ Fail(outbox, timers, s)
      /\ UNCHANGED <<reqId, used, vibration, bridgeVars>>
  BY DEF DictationFails, Running, Settled
<1>2. /\ UNCHANGED <<reqId, used, appMessageReady, beginDelivered>>
      /\ watchPhone' \in WatchPhoneStates /\ phoneServer' \in PhoneServerStates
      /\ vibration' \in {"none", "success", "failure"}
  BY <1>1 DEF bridgeVars, IInv, TypeOK
<1> QED
  BY <1>1, <1>2, FailKeepsIInv

\* The transcript either leaves at once or waits for SESSION_BEGIN, which is
\* then still in the outbox.
LEMMA DictationSucceedsKeepsIInv ==
  ASSUME IInv, NEW t \in Transcripts, DictationSucceeds(t)
  PROVE  IInv'
<1>1. t \in Texts /\ Len(t) \in Nat /\ 0 < Len(t)
  BY TranscriptsAssumption DEF Texts
<1>2. /\ state = "DICTATING" /\ timers = {} /\ phoneServer = "PREPARING"
      /\ reqId \in ReqIds /\ TypeOK
  BY DEF DictationSucceeds, IInv, WatchdogArmed, Watchdog, OutboxMatchesPhase, Running
<1>3. CASE FirstChunkMayGo
  <2>1. PostChunk(t, 0) /\ beginDelivered' = TRUE
    BY <1>2, <1>3 DEF DictationSucceeds, FirstChunkMayGo, TypeOK
  <2>2. UNCHANGED <<reqId, used, vibration, phoneServer, appMessageReady>>
    BY DEF DictationSucceeds
  <2> QED
    BY <1>1, <1>2, <2>1, <2>2, PostChunkKeepsIInv
<1>4. CASE ~FirstChunkMayGo
  <2>1. /\ state' = "BRIDGING" /\ watchPhone' = "TRANSFERRING"
        /\ dictationActive' = FALSE /\ transcript' = t /\ nextChunk' = 0
        /\ dialog' = "progress"
        /\ UNCHANGED <<timers, response, outbox, sessionEndPending, terminalStatus,
                       reqId, used, vibration, phoneServer, appMessageReady,
                       beginDelivered>>
    BY <1>4 DEF DictationSucceeds
  <2>2. ~beginDelivered /\ outbox = SessionBegin(reqId) /\ outbox # NoMsg
    BY <1>2, <1>4, SessionBeginType DEF FirstChunkMayGo, IInv, OutboxMatchesPhase
  <2>3. TypeOK'
    BY <1>1, <1>2, <2>1 DEF TypeOK, AppStates, WatchPhoneStates, DialogPhases
  <2>4. WatchdogArmed' /\ BridgesAgree'
    BY <1>2, <2>1 DEF WatchdogArmed, Watchdog, BridgesAgree, Running
  <2>5. NeverStranded' /\ OutboxMatchesPhase' /\ ErrorCleansUp' /\ ResultIsWhole'
    BY <1>1, <1>2, <2>1, <2>2
       DEF NeverStranded, OutboxMatchesPhase, ErrorCleansUp, ResultIsWhole, Running
  <2> QED
    BY <2>3, <2>4, <2>5 DEF IInv
<1> QED
  BY <1>3, <1>4

-----------------------------------------------------------------------------
(* The outbox callbacks.                                                   *)

\* In ERROR a callback of the outbox sends the SESSION_END that is owed.
LEMMA TrySendSessionEndKeepsIInv ==
  ASSUME IInv, state = "ERROR", TrySendSessionEnd,
         UNCHANGED <<state, terminalStatus, dictationActive, watchPhone,
                     beginDelivered, uiVars, reqId, used, vibration, phoneServer,
                     appMessageReady>>
  PROVE  IInv'
<1>1. reqId \in ReqIds /\ TypeOK /\ ErrorCleansUp /\ WatchdogArmed
  BY DEF IInv, OutboxMatchesPhase, Running
<1>2. SessionEnd(reqId, terminalStatus) \in WatchMessages
      /\ SessionEnd(reqId, terminalStatus) # NoMsg
  BY <1>1, SessionEndType DEF TypeOK
<1>3. /\ outbox' \in WatchMessages \cup {NoMsg}
      /\ sessionEndPending' \in BOOLEAN
      /\ ~(sessionEndPending' /\ appMessageReady)
      /\ UNCHANGED <<transcript, nextChunk, response>>
  BY <1>1, <1>2 DEF TrySendSessionEnd, TypeOK
<1>4. TypeOK'
  BY <1>1, <1>3 DEF TypeOK, uiVars
<1>5. WatchdogArmed' /\ NeverStranded' /\ BridgesAgree' /\ ResultIsWhole'
  BY <1>1 DEF WatchdogArmed, NeverStranded, BridgesAgree, ResultIsWhole, Running, uiVars
<1>6. OutboxMatchesPhase' /\ ErrorCleansUp'
  BY <1>1, <1>3 DEF OutboxMatchesPhase, ErrorCleansUp
<1> QED
  BY <1>4, <1>5, <1>6 DEF IInv

\* Running, SESSION_BEGIN occupies the outbox of an unsettled request only
\* while it has not been delivered.
LEMMA BeginSentKeepsIInv ==
  ASSUME IInv, Running, outbox # NoMsg, BeginSent,
         UNCHANGED <<reqId, used, vibration, phoneServer, appMessageReady>>
  PROVE  IInv'
<1>1. /\ reqId \in ReqIds /\ TypeOK /\ outbox.type = "SESSION_BEGIN"
      /\ state \in {"DICTATING", "BRIDGING"} /\ beginDelivered' = TRUE
  BY DEF IInv, OutboxMatchesPhase, BeginSent, Running, TypeOK, AppStates
<1>2. CASE state = "BRIDGING"
  <2>1. watchPhone = "TRANSFERRING" /\ nextChunk < Len(transcript)
    BY <1>2 DEF IInv, OutboxMatchesPhase
  <2>2. timers = {} /\ phoneServer = "PREPARING"
    BY <1>2, <2>1 DEF IInv, WatchdogArmed, Watchdog, BridgesAgree
  <2>3. PostChunk(transcript, nextChunk)
    BY <1>2, <2>1 DEF BeginSent
  <2>4. transcript \in Texts /\ nextChunk \in Nat
    BY <1>1 DEF TypeOK
  <2> QED
    BY <1>1, <1>2, <2>1, <2>2, <2>3, <2>4, PostChunkKeepsIInv
<1>3. CASE state = "DICTATING"
  <2>1. /\ phoneServer = "PREPARING" /\ ~beginDelivered
        /\ watchPhone = "SESSION_BEGIN_PENDING" /\ timers = {} /\ dictationActive
    BY <1>1, <1>3
       DEF IInv, OutboxMatchesPhase, TypeOK, WatchdogArmed, Watchdog, NeverStranded
  <2>2. /\ outbox' = NoMsg /\ watchPhone' = "READY"
        /\ UNCHANGED <<state, terminalStatus, dictationActive, transcript, nextChunk,
                       response, sessionEndPending, timers, dialog>>
    BY <1>3, <2>1 DEF BeginSent, uiVars
  <2>3. TypeOK'
    BY <1>1, <2>2 DEF TypeOK, WatchPhoneStates
  <2>4. WatchdogArmed' /\ BridgesAgree'
    BY <1>3, <2>1, <2>2, NoTransition DEF WatchdogArmed, Watchdog, BridgesAgree, Running
  <2>5. NeverStranded' /\ OutboxMatchesPhase' /\ ErrorCleansUp' /\ ResultIsWhole'
    BY <1>1, <1>3, <2>1, <2>2
       DEF NeverStranded, OutboxMatchesPhase, ErrorCleansUp, ResultIsWhole, Running
  <2> QED
    BY <2>3, <2>4, <2>5 DEF IInv
<1> QED
  BY <1>1, <1>2, <1>3

\* An unsettled request is transferring its transcript whenever a chunk is in
\* the outbox: the callback posts the next chunk or starts the watchdog.
LEMMA ChunkSentKeepsIInv ==
  ASSUME IInv, Running, outbox # NoMsg, ChunkSent,
         UNCHANGED <<reqId, used, vibration, phoneServer, appMessageReady>>
  PROVE  IInv'
<1>1. /\ reqId \in ReqIds /\ TypeOK /\ outbox.type = "TRANSCRIPT_CHUNK"
      /\ state \in {"DICTATING", "BRIDGING"} /\ beginDelivered' = beginDelivered
  BY DEF IInv, OutboxMatchesPhase, ChunkSent, Running, TypeOK, AppStates
<1>2. /\ state = "BRIDGING" /\ watchPhone = "TRANSFERRING" /\ beginDelivered
      /\ nextChunk < Len(transcript)
  <2>1. outbox # SessionBegin(reqId)
    BY <1>1, SessionBeginType
  <2> QED
    BY <1>1, <2>1 DEF IInv, OutboxMatchesPhase
<1>3. timers = {} /\ phoneServer = "PREPARING" /\ ~Settled
  BY <1>2 DEF IInv, WatchdogArmed, Watchdog, BridgesAgree, Settled
<1>4. /\ transcript \in Texts /\ nextChunk + 1 \in Nat
      /\ appMessageReady \in BOOLEAN /\ beginDelivered \in BOOLEAN
      /\ vibration' \in {"none", "success", "failure"}
      /\ phoneServer' \in PhoneServerStates /\ beginDelivered' = TRUE
  BY <1>1, <1>2 DEF TypeOK
<1>5. CASE nextChunk + 1 < Len(transcript)
  <2>1. PostChunk(transcript, nextChunk + 1)
    BY <1>2, <1>5 DEF ChunkSent
  <2> QED
    BY <1>1, <1>2, <1>3, <1>4, <1>5, <2>1, PostChunkKeepsIInv
<1>6. CASE ~(nextChunk + 1 < Len(transcript)) /\ WatchPhoneFail(NoMsg, timers, "TRANSFER")
  BY <1>1, <1>3, <1>4, <1>6, WatchPhoneFailKeepsIInv DEF WatchPhoneErrors
<1>7. CASE /\ ~(nextChunk + 1 < Len(transcript))
           /\ ~WatchPhoneFail(NoMsg, timers, "TRANSFER")
  <2>1. /\ watchPhone' = "AWAITING_SEND_START" /\ timers' = timers \cup {"send_start"}
        /\ outbox' = NoMsg /\ transcript' = <<>> /\ nextChunk' = 0
        /\ UNCHANGED <<state, terminalStatus, dictationActive, response,
                       sessionEndPending, dialog>>
    BY <1>2, <1>7 DEF ChunkSent, AwaitSendStart
  <2>2. timers' = {"send_start"}
    BY <1>3, <2>1
  <2>3. TypeOK'
    BY <1>1, <2>1, <2>2 DEF TypeOK, WatchPhoneStates, Timers
  <2>4. WatchdogArmed' /\ BridgesAgree'
    BY <1>2, <1>3, <2>1, <2>2, NoTransition
       DEF WatchdogArmed, Watchdog, BridgesAgree, Running
  <2>5. NeverStranded' /\ OutboxMatchesPhase' /\ ErrorCleansUp' /\ ResultIsWhole'
    BY <1>1, <1>2, <1>4, <2>1, <2>2
       DEF NeverStranded, OutboxMatchesPhase, ErrorCleansUp, ResultIsWhole, Running
  <2> QED
    BY <2>3, <2>4, <2>5 DEF IInv
<1> QED
  BY <1>5, <1>6, <1>7

LEMMA OutboxSentKeepsIInv ==
  ASSUME IInv, OutboxSent
  PROVE  IInv'
<1>1. /\ Running /\ outbox # NoMsg
      /\ UNCHANGED <<reqId, used, vibration, phoneServer, appMessageReady>>
  BY DEF OutboxSent
<1>2. CASE state = "ERROR" /\ TrySendSessionEnd
           /\ UNCHANGED <<state, terminalStatus, dictationActive, watchPhone,
                          beginDelivered, uiVars>>
  BY <1>1, <1>2, TrySendSessionEndKeepsIInv
<1>3. CASE BeginSent
  BY <1>1, <1>3, BeginSentKeepsIInv
<1>4. CASE ChunkSent
  BY <1>1, <1>4, ChunkSentKeepsIInv
<1> QED
  BY <1>2, <1>3, <1>4 DEF OutboxSent

\* A message that could not be delivered ends the request, or is given up
\* when it was the SESSION_END.
LEMMA OutboxFailedKeepsIInv ==
  ASSUME IInv, OutboxFailed
  PROVE  IInv'
<1>1. /\ Running /\ outbox # NoMsg /\ TypeOK
      /\ UNCHANGED <<reqId, used, vibration, phoneServer, appMessageReady,
                     beginDelivered>>
      /\ phoneServer' \in PhoneServerStates
      /\ vibration' \in {"none", "success", "failure"}
  BY DEF OutboxFailed, IInv, TypeOK
<1>2. CASE state = "ERROR" /\ outbox.type # "SESSION_END"
  <2>1. /\ TrySendSessionEnd
        /\ UNCHANGED <<state, terminalStatus, dictationActive, watchPhone, uiVars>>
    BY <1>2 DEF OutboxFailed
  <2> QED
    BY <1>1, <1>2, <2>1, TrySendSessionEndKeepsIInv
<1>3. CASE state = "ERROR" /\ outbox.type = "SESSION_END"
  <2>1. /\ outbox' = NoMsg
        /\ UNCHANGED <<sessionEndPending, transcript, nextChunk, response, state,
                       terminalStatus, dictationActive, watchPhone, timers, dialog>>
    BY <1>3 DEF OutboxFailed, uiVars
  <2> QED
    BY <1>1, <1>3, <2>1
       DEF IInv, TypeOK, WatchdogArmed, NeverStranded, BridgesAgree,
           OutboxMatchesPhase, ErrorCleansUp, ResultIsWhole, Running
<1>4. CASE state # "ERROR"
  <2>1. ~Settled
    BY <1>1, <1>4 DEF Settled, IInv, OutboxMatchesPhase
  <2>2. PICK e \in {"CONNECTIVITY", "TRANSFER"} : WatchPhoneFail(NoMsg, timers, e)
    BY <1>4 DEF OutboxFailed
  <2> QED
    BY <1>1, <2>1, <2>2, WatchPhoneFailKeepsIInv DEF WatchPhoneErrors
<1> QED
  BY <1>2, <1>3, <1>4

-----------------------------------------------------------------------------
(* The inbox callbacks.                                                    *)

\* SEND_STARTED moves the request on, or fails it with or without arming the
\* exit timer.
LEMMA SendStartedKeepsIInv ==
  ASSUME IInv, Running, ~Settled, SendStartedReceived,
         UNCHANGED <<reqId, used, appMessageReady, beginDelivered, vibration>>
  PROVE  IInv'
<1>1. /\ reqId \in ReqIds /\ TypeOK
      /\ vibration' \in {"none", "success", "failure"}
  BY DEF IInv, OutboxMatchesPhase, TypeOK
<1>2. CASE state # "BRIDGING" \/ watchPhone # "AWAITING_SEND_START"
           \/ phoneServer # "PREPARING"
  <2>1. WatchPhoneFail(outbox, timers, "PROTOCOL") /\ UNCHANGED phoneServer
    BY <1>2 DEF SendStartedReceived
  <2>2. phoneServer' \in PhoneServerStates
    BY <1>1, <2>1 DEF TypeOK
  <2> QED
    BY <1>1, <2>1, <2>2, WatchPhoneFailKeepsIInv DEF WatchPhoneErrors
<1>3. CASE state = "BRIDGING" /\ watchPhone = "AWAITING_SEND_START"
           /\ phoneServer = "PREPARING"
  <2>1. outbox = NoMsg /\ beginDelivered /\ timers = {"send_start"}
    BY <1>3 DEF IInv, OutboxMatchesPhase, WatchdogArmed, Watchdog
  <2>2. phoneServer' = "AWAITING_RESULT"
    BY <1>3 DEF SendStartedReceived
  <2>3. CASE watchPhone' = "AWAITING_RESULT"
    <3>1. /\ timers' = {"request"} /\ dialog' = "progress"
          /\ UNCHANGED <<state, terminalStatus, dictationActive, outbox,
                         sessionEndPending, transcript, nextChunk, response>>
      BY <1>3, <2>1, <2>3 DEF SendStartedReceived, deliveryVars
    <3>2. TypeOK'
      BY <1>1, <2>2, <2>3, <3>1
         DEF TypeOK, WatchPhoneStates, PhoneServerStates, Timers, DialogPhases
    <3>3. WatchdogArmed' /\ BridgesAgree'
      BY <1>3, <2>2, <2>3, <3>1 DEF WatchdogArmed, Watchdog, BridgesAgree, Running
    <3>4. NeverStranded' /\ OutboxMatchesPhase' /\ ErrorCleansUp' /\ ResultIsWhole'
      BY <1>1, <1>3, <2>1, <2>3, <3>1
         DEF NeverStranded, OutboxMatchesPhase, ErrorCleansUp, ResultIsWhole, Running
    <3> QED
      BY <3>2, <3>3, <3>4 DEF IInv
  <2>4. CASE watchPhone' # "AWAITING_RESULT"
    <3>1. /\ watchPhone' = "FAILED"
          /\ EnterError(reqId, appMessageReady, outbox, "ERROR_TRANSFER")
          /\ timers' \subseteq {"exit"} /\ dialog' \in DialogPhases
      BY <1>3, <2>4 DEF SendStartedReceived, DialogPhases
    <3>2. /\ "ERROR_TRANSFER" \in StatusCodes /\ outbox.type # "SESSION_END"
          /\ outbox \in WatchMessages \cup {NoMsg}
          /\ watchPhone' \in WatchPhoneStates /\ phoneServer' \in PhoneServerStates
          /\ used' \subseteq ReqIds /\ beginDelivered' \in BOOLEAN
          /\ appMessageReady \in BOOLEAN
      BY <1>1, <2>1, <2>2, <3>1
         DEF StatusCodes, NoMsg, WatchPhoneStates, PhoneServerStates, TypeOK
    <3> QED
      BY <1>1, <3>1, <3>2, ErrorEntered
  <2> QED
    BY <2>3, <2>4
<1> QED
  BY <1>2, <1>3

ResultChunkMessages ==
  [type : {"SERVER_RESULT_CHUNK"}, id : ReqIds, index : Nat,
   count : Nat, total : Nat, text : Texts, success : BOOLEAN]

\* A chunk that continues its response yields a response whose metadata is
\* the chunk's own, one chunk longer than the one it extends.
LEMMA ExtendedResponse ==
  ASSUME IInv, NEW m \in ResultChunkMessages, Continues(m)
  PROVE  /\ Extended(m) \in Responses
         /\ Extended(m).count = m.count /\ Extended(m).total = m.total
         /\ Extended(m).success = m.success
         /\ Extended(m).next = ResponseFor(m).next + 1
         /\ Len(Extended(m).text) = Len(ResponseFor(m).text) + Len(m.text)
<1>1. response \in Responses
  BY DEF IInv, TypeOK
<1>2. ResponseFor(m) \in Responses
  <2>1. m.count \in Nat /\ m.total \in Nat /\ m.success \in BOOLEAN
    BY DEF ResultChunkMessages
  <2>2. [NoResponse EXCEPT !.count = m.count, !.total = m.total,
                           !.success = m.success] \in Responses
    BY <2>1, NoResponseType DEF Responses
  <2> QED
    BY <1>1, <2>2 DEF ResponseFor
<1>3. /\ m.text \in Seq(Pieces) /\ ResponseFor(m).text \in Seq(Pieces)
  BY <1>2 DEF ResultChunkMessages, Responses, Texts
<1>4. /\ ResponseFor(m).text \o m.text \in Seq(Pieces)
      /\ Len(ResponseFor(m).text \o m.text)
           = Len(ResponseFor(m).text) + Len(m.text)
  BY <1>3
<1>5. /\ ResponseFor(m).count = m.count /\ ResponseFor(m).total = m.total
      /\ ResponseFor(m).success = m.success /\ ResponseFor(m).next \in Nat
  BY <1>2 DEF Continues, Responses
<1> DEFINE t == ResponseFor(m).text \o m.text
           n == ResponseFor(m).next + 1
<1>6. Extended(m) = [ResponseFor(m) EXCEPT !.text = t, !.next = n]
  BY DEF Extended
<1>7. t \in Texts /\ n \in Nat
  BY <1>4, <1>5 DEF Texts
<1>8. /\ Extended(m) \in Responses /\ Extended(m).text = t /\ Extended(m).next = n
      /\ Extended(m).count = ResponseFor(m).count
      /\ Extended(m).total = ResponseFor(m).total
      /\ Extended(m).success = ResponseFor(m).success
  <2> HIDE DEF t, n
  <2> QED
    BY <1>2, <1>6, <1>7 DEF Responses
<1> QED
  BY <1>4, <1>5, <1>8

\* A result chunk extends the response, completes it or fails the request.
LEMMA ResultChunkKeepsIInv ==
  ASSUME IInv, Running, ~Settled, NEW m \in ResultChunkMessages,
         ResultChunkReceived(m),
         UNCHANGED <<reqId, used, appMessageReady, beginDelivered>>
  PROVE  IInv'
<1> DEFINE r == Extended(m)
           armed == timers \ (IF OpensResponse(m) THEN {"request"} ELSE {})
<1>1. /\ reqId \in ReqIds /\ TypeOK
      /\ vibration' \in {"none", "success", "failure"}
      /\ phoneServer' \in PhoneServerStates
  BY DEF IInv, OutboxMatchesPhase, TypeOK, ResultChunkReceived, PhoneServerAfter,
         PhoneServerStates
<1>2. armed \subseteq timers
  OBVIOUS
<1>3. ASSUME NEW e \in {"PROTOCOL", "TRANSFER"}, WatchPhoneFail(outbox, armed, e)
      PROVE  IInv'
  BY <1>1, <1>2, <1>3, WatchPhoneFailKeepsIInv DEF WatchPhoneErrors
<1>4. CASE Continues(m) /\ ~WatchPhoneFail(outbox, armed, "TRANSFER")
  <2>1. /\ state = "BRIDGING" /\ watchPhone \in {"AWAITING_RESULT", "RECEIVING_RESULT"}
        /\ outbox = NoMsg /\ beginDelivered
    BY <1>4 DEF Continues, ReceivingResult, IInv, OutboxMatchesPhase
  <2>2. phoneServer' = "COMPLETE" /\ armed \subseteq {"result_chunk"}
    <3>1. CASE OpensResponse(m)
      <4>1. watchPhone = "AWAITING_RESULT" /\ timers = {"request"}
        BY <2>1, <3>1 DEF OpensResponse, IInv, WatchdogArmed, Watchdog
      <4> QED
        BY <3>1, <4>1 DEF ResultChunkReceived, PhoneServerAfter
    <3>2. CASE ~OpensResponse(m)
      <4>1. watchPhone = "RECEIVING_RESULT"
        BY <1>4, <2>1, <3>2 DEF OpensResponse, Continues
      <4>2. timers = {"result_chunk"} /\ phoneServer = "COMPLETE"
        BY <2>1, <4>1 DEF IInv, WatchdogArmed, Watchdog, BridgesAgree
      <4> QED
        BY <3>2, <4>2 DEF ResultChunkReceived, PhoneServerAfter
    <3> QED
      BY <3>1, <3>2
  <2>3. r \in Responses /\ response' = r
        /\ UNCHANGED <<terminalStatus, dictationActive, outbox, sessionEndPending,
                       transcript, nextChunk>>
    BY <1>4, ExtendedResponse DEF ResultChunkReceived
  <2>4. CASE r.next # r.count
    <3>1. /\ watchPhone' = "RECEIVING_RESULT" /\ timers' = {"result_chunk"}
          /\ UNCHANGED <<state, dialog>>
      BY <1>4, <2>2, <2>4 DEF ResultChunkReceived
    <3>2. TypeOK'
      BY <1>1, <2>3, <3>1 DEF TypeOK, WatchPhoneStates, Timers
    <3>3. WatchdogArmed' /\ BridgesAgree'
      BY <2>1, <2>2, <3>1, NoTransition
         DEF WatchdogArmed, Watchdog, BridgesAgree, Running
    <3>4. NeverStranded' /\ OutboxMatchesPhase' /\ ErrorCleansUp' /\ ResultIsWhole'
      BY <1>1, <2>1, <2>3, <3>1
         DEF NeverStranded, OutboxMatchesPhase, ErrorCleansUp, ResultIsWhole, Running
    <3> QED
      BY <3>2, <3>3, <3>4 DEF IInv
  <2>5. CASE r.next = r.count
    <3>1. /\ watchPhone' = "COMPLETE" /\ timers' = {"exit"}
          /\ state' = "DISPLAYING_RESULT" /\ dialog' = "result"
          /\ vibration' = IF r.success THEN "success" ELSE "failure"
      BY <1>4, <2>2, <2>5 DEF ResultChunkReceived
    <3>2. TypeOK'
      BY <1>1, <2>3, <3>1 DEF TypeOK, AppStates, WatchPhoneStates, Timers, DialogPhases
    <3>3. ResultIsWhole'
      <4>1. ResponseFor(m).count = m.count /\ ResponseFor(m).total = m.total
            /\ m.total <= MaxResponse
        BY <1>4 DEF Continues, ValidResultChunk
      <4>2. ResponseFor(m).next + 1 = ResponseFor(m).count
        BY <1>4, <2>5, <4>1, ExtendedResponse
      <4>3. Len(r.text) = r.total /\ r.total <= MaxResponse
        BY <1>4, <4>1, <4>2, ExtendedResponse DEF Continues
      <4> QED
        BY <2>3, <2>5, <3>1, <4>3 DEF ResultIsWhole
    <3>4. /\ WatchdogArmed' /\ NeverStranded' /\ BridgesAgree'
          /\ OutboxMatchesPhase' /\ ErrorCleansUp'
      BY <1>1, <2>1, <2>3, <3>1
         DEF WatchdogArmed, NeverStranded, BridgesAgree, OutboxMatchesPhase,
             ErrorCleansUp, Running
    <3> QED
      BY <3>2, <3>3, <3>4 DEF IInv
  <2> QED
    BY <2>4, <2>5
<1>5. CASE ~Continues(m)
  <2>1. WatchPhoneFail(outbox, armed, "PROTOCOL")
    BY <1>5 DEF ResultChunkReceived
  <2> QED
    BY <1>3, <2>1
<1> QED
  BY <1>3, <1>4, <1>5

LEMMA FailureKeepsIInv ==
  ASSUME IInv, Running, ~Settled, NEW s \in StatusCodes, FailureReceived(s),
         UNCHANGED <<reqId, used, appMessageReady, beginDelivered, vibration>>
  PROVE  IInv'
<1>1. /\ TypeOK /\ vibration' \in {"none", "success", "failure"}
  BY DEF IInv, TypeOK
<1>2. CASE \E e \in {"SERVER", "RESULT_TIMEOUT", "PROTOCOL"} :
             PhoneServerFail(timers, e) /\ UNCHANGED watchPhone
  BY <1>2, PhoneServerFailKeepsIInv
<1>3. CASE \E e \in {"CONNECTIVITY", "TRANSFER", "PROTOCOL"} :
             WatchPhoneFail(outbox, timers, e) /\ UNCHANGED phoneServer
  <2>1. PICK e \in {"CONNECTIVITY", "TRANSFER", "PROTOCOL"} :
          WatchPhoneFail(outbox, timers, e) /\ UNCHANGED phoneServer
    BY <1>3
  <2>2. phoneServer' \in PhoneServerStates
    BY <1>1, <2>1 DEF TypeOK
  <2> QED
    BY <1>1, <2>1, <2>2, WatchPhoneFailKeepsIInv DEF WatchPhoneErrors
<1> QED
  BY <1>2, <1>3 DEF FailureReceived

\* What the inbox handler tells apart has the fields it reads.
LEMMA InboxTypes ==
  ASSUME NEW m \in Inbox
  PROVE  /\ m.id = NoId \/ m.id \in ReqIds
         /\ m.type = "SERVER_RESULT_CHUNK" => m \in ResultChunkMessages
         /\ m.type = "FAILURE" => m.status \in StatusCodes
<1>1. m \in InboxMessages
  BY InboxAssumption
<1>2. \/ m \in [type : {"SEND_STARTED"}, id : ReqIds]
      \/ m \in [type : {"FAILURE"}, id : ReqIds, status : StatusCodes]
      \/ m \in ResultChunkMessages
      \/ m \in [type : {"BAD_HEADER", "MALFORMED"}, id : ReqIds]
      \/ m \in [type : {"NO_REQUEST_ID"}, id : {NoId}]
  BY <1>1 DEF InboxMessages, PhoneMessages, ResultChunkMessages
<1> QED
  BY <1>2 DEF ResultChunkMessages

\* A message is ignored or handled by the handler of its type.
LEMMA InboxReceivedKeepsIInv ==
  ASSUME IInv, NEW m \in Inbox, InboxReceived(m)
  PROVE  IInv'
<1>1. /\ Running /\ TypeOK
  BY DEF InboxReceived, IInv
<1>2. CASE Settled \/ ~ForThisRequest(m)
  <2>1. UNCHANGED watchVars
    BY <1>2 DEF InboxReceived
  <2> QED
    BY <2>1, StutterKeepsIInv
<1>3. CASE ~Settled /\ ForThisRequest(m)
  <2>1. UNCHANGED <<reqId, used, appMessageReady, beginDelivered>>
    BY <1>3 DEF InboxReceived
  <2>2. ASSUME UNCHANGED <<phoneServer, vibration>>
        PROVE  /\ phoneServer' \in PhoneServerStates
               /\ vibration' \in {"none", "success", "failure"}
    BY <1>1, <2>2 DEF TypeOK
  <2>3. CASE Fail(outbox, timers, "ERROR_PROTOCOL")
             /\ UNCHANGED <<watchPhone, phoneServer, vibration>>
    <3>1. watchPhone' \in WatchPhoneStates /\ "ERROR_PROTOCOL" \in StatusCodes
      BY <1>1, <2>3 DEF TypeOK, StatusCodes
    <3> QED
      BY <1>1, <2>1, <2>2, <2>3, <3>1, FailKeepsIInv
  <2>4. CASE WatchPhoneFail(outbox, timers, "PROTOCOL")
             /\ UNCHANGED <<phoneServer, vibration>>
    BY <1>1, <2>1, <2>2, <2>4, WatchPhoneFailKeepsIInv DEF WatchPhoneErrors
  <2>5. CASE SendStartedReceived /\ UNCHANGED vibration
    BY <1>1, <1>3, <2>1, <2>5, SendStartedKeepsIInv
  <2>6. CASE m.type = "FAILURE" /\ FailureReceived(m.status) /\ UNCHANGED vibration
    BY <1>1, <1>3, <2>1, <2>6, InboxTypes, FailureKeepsIInv
  <2>7. CASE m.type = "SERVER_RESULT_CHUNK" /\ ResultChunkReceived(m)
    BY <1>1, <1>3, <2>1, <2>7, InboxTypes, ResultChunkKeepsIInv
  <2>8. CASE NoMemoryForResponse(m)
    <3>1. WatchPhoneFail(outbox, timers, "TRANSFER")
          /\ UNCHANGED <<phoneServer, vibration>>
      BY <2>8 DEF NoMemoryForResponse
    <3> QED
      BY <1>1, <2>1, <2>2, <3>1, WatchPhoneFailKeepsIInv DEF WatchPhoneErrors
  <2> QED
    BY <1>3, <2>3, <2>4, <2>5, <2>6, <2>7, <2>8 DEF InboxReceived
<1> QED
  BY <1>2, <1>3

LEMMA InboxDroppedKeepsIInv ==
  ASSUME IInv, InboxDropped
  PROVE  IInv'
<1>1. /\ Running /\ WatchPhoneFail(outbox, timers, "TRANSFER")
      /\ UNCHANGED <<reqId, used, vibration, phoneServer, appMessageReady,
                     beginDelivered>>
  BY DEF InboxDropped
<1>2. phoneServer' \in PhoneServerStates /\ vibration' \in {"none", "success", "failure"}
  BY <1>1 DEF IInv, TypeOK
<1> QED
  BY <1>1, <1>2, WatchPhoneFailKeepsIInv DEF WatchPhoneErrors

-----------------------------------------------------------------------------
(* Timers, buttons and the end of the app.                                 *)

\* Only a running app has timers.
LEMMA TimersRun == ASSUME IInv, timers # {} PROVE Running
  BY DEF IInv, WatchdogArmed

LEMMA TimerFiresKeepsIInv ==
  ASSUME IInv, TimerFires
  PROVE  IInv'
<1>1. Running /\ TypeOK
  BY TimersRun
     DEF IInv, TimerFires, TranscriptDeliveryTimeout, WsRequestTimeout,
         ResultChunkTimeout, ExitTimeout
<1>2. CASE TranscriptDeliveryTimeout
  <2>1. /\ WatchPhoneFail(outbox, timers \ {"send_start"}, "SEND_START_TIMEOUT")
        /\ UNCHANGED <<reqId, used, vibration, phoneServer, appMessageReady,
                       beginDelivered>>
    BY <1>2 DEF TranscriptDeliveryTimeout
  <2>2. phoneServer' \in PhoneServerStates /\ vibration' \in {"none", "success", "failure"}
    BY <1>1, <2>1 DEF TypeOK
  <2> QED
    BY <1>1, <2>1, <2>2, WatchPhoneFailKeepsIInv DEF WatchPhoneErrors
<1>3. CASE WsRequestTimeout
  <2>1. /\ PhoneServerFail(timers \ {"request"}, "REQUEST_TIMEOUT")
        /\ UNCHANGED <<reqId, used, vibration, watchPhone, appMessageReady,
                       beginDelivered>>
    BY <1>3 DEF WsRequestTimeout
  <2> QED
    BY <1>1, <2>1, PhoneServerFailKeepsIInv
<1>4. CASE ResultChunkTimeout
  <2>1. /\ WatchPhoneFail(outbox, timers \ {"result_chunk"}, "RESULT_TRANSFER_TIMEOUT")
        /\ UNCHANGED <<reqId, used, vibration, phoneServer, appMessageReady,
                       beginDelivered>>
    BY <1>4 DEF ResultChunkTimeout
  <2>2. phoneServer' \in PhoneServerStates /\ vibration' \in {"none", "success", "failure"}
    BY <1>1, <2>1 DEF TypeOK
  <2> QED
    BY <1>1, <2>1, <2>2, WatchPhoneFailKeepsIInv DEF WatchPhoneErrors
<1>5. CASE ExitTimeout
  <2>1. state \in {"ERROR", "DISPLAYING_RESULT"}
    BY <1>1, <1>5
       DEF ExitTimeout, IInv, WatchdogArmed, Watchdog, Running, TypeOK, AppStates
  <2>2. /\ timers' = timers \ {"exit"}
        /\ dialog' \in DialogPhases \ {"error_transition"}
        /\ UNCHANGED <<appVars, bridgeVars, deliveryVars>>
    BY <1>5 DEF ExitTimeout, DialogPhases
  <2> QED
    BY <2>1, <2>2, ScreenChangeKeepsIInv
<1> QED
  BY <1>2, <1>3, <1>4, <1>5 DEF TimerFires

LEMMA ClickKeepsIInv ==
  ASSUME IInv, Click
  PROVE  IInv'
<1>1. CASE BackClick
  <2>1. /\ Running /\ ~Settled /\ Fail(outbox, timers, "CANCELLED")
        /\ UNCHANGED <<reqId, used, vibration, watchPhone, phoneServer,
                       appMessageReady, beginDelivered>>
        /\ "CANCELLED" \in StatusCodes
    BY <1>1 DEF BackClick, bridgeVars, StatusCodes
  <2>2. /\ watchPhone' \in WatchPhoneStates /\ phoneServer' \in PhoneServerStates
        /\ vibration' \in {"none", "success", "failure"}
    BY <2>1 DEF IInv, TypeOK
  <2> QED
    BY <2>1, <2>2, FailKeepsIInv
<1>2. CASE ResultButtonDown \/ ResultBackClick
  <2>1. /\ state = "DISPLAYING_RESULT" /\ timers' = timers \ {"exit"}
        /\ UNCHANGED <<appVars, bridgeVars, deliveryVars>>
        /\ dialog' \in {dialog, "closed"}
    BY <1>2 DEF ResultButtonDown, ResultBackClick
  <2>2. dialog' \in DialogPhases \ {"error_transition"}
    BY <2>1, NoTransition DEF IInv, TypeOK, DialogPhases
  <2> QED
    BY <2>1, <2>2, ScreenChangeKeepsIInv
<1> QED
  BY <1>1, <1>2 DEF Click

\* The error state is entered before its status is on the screen.
LEMMA TransitionCompleteKeepsIInv ==
  ASSUME IInv, TransitionComplete
  PROVE  IInv'
<1>1. state = "ERROR"
  BY DEF IInv, WatchdogArmed, TransitionComplete
<1>2. timers' \subseteq {"exit"} /\ dialog' \in DialogPhases \ {"error_transition"}
  BY DEF TransitionComplete, TerminalStatusVisible, DialogPhases
<1> QED
  BY <1>1, <1>2, ScreenChangeKeepsIInv DEF TransitionComplete

LEMMA DeinitKeepsIInv ==
  ASSUME IInv, Deinit
  PROVE  IInv'
<1>1. /\ state' = "OFF" /\ timers' = {} /\ dialog' = "closed"
      /\ dictationActive' = FALSE /\ transcript' = <<>> /\ nextChunk' = 0
      /\ response' = NoResponse /\ outbox' = NoMsg
      /\ UNCHANGED <<reqId, used, terminalStatus, vibration, watchPhone, phoneServer,
                     appMessageReady, beginDelivered, sessionEndPending>>
  BY DEF Deinit, bridgeVars
<1>2. response' \in Responses /\ transcript' \in Texts
  BY <1>1, NoResponseType
<1>3. TypeOK'
  BY <1>1, <1>2 DEF IInv, TypeOK, AppStates, DialogPhases
<1> QED
  BY <1>1, <1>3
     DEF IInv, WatchdogArmed, NeverStranded, BridgesAgree, OutboxMatchesPhase,
         ErrorCleansUp, ResultIsWhole, Running

-----------------------------------------------------------------------------
(* The invariant.                                                          *)

LEMMA InitEstablishesIInv == Init => IInv
<1> SUFFICES ASSUME Init PROVE IInv
  OBVIOUS
<1>1. TypeOK
  <2>1. transcript \in Texts /\ response \in Responses /\ used \subseteq ReqIds
    BY NoResponseType DEF Init
  <2>2. terminalStatus \in StatusCodes /\ dialog \in DialogPhases
    BY DEF Init, StatusCodes, DialogPhases
  <2>3. /\ state \in AppStates /\ watchPhone \in WatchPhoneStates
        /\ phoneServer \in PhoneServerStates /\ timers \subseteq Timers
    BY DEF Init, AppStates, WatchPhoneStates, PhoneServerStates, Timers
  <2> QED
    BY <2>1, <2>2, <2>3 DEF Init, TypeOK
<1>2. /\ state = "OFF" /\ timers = {} /\ dialog = "closed" /\ outbox = NoMsg
  BY DEF Init
<1>3. WatchdogArmed /\ NeverStranded
  BY <1>2 DEF WatchdogArmed, NeverStranded, Running
<1>4. BridgesAgree /\ OutboxMatchesPhase
  BY <1>2 DEF BridgesAgree, OutboxMatchesPhase, Running
<1>5. ErrorCleansUp /\ ResultIsWhole
  BY <1>2 DEF ErrorCleansUp, ResultIsWhole
<1> QED
  BY <1>1, <1>3, <1>4, <1>5 DEF IInv

LEMMA NextKeepsIInv == IInv /\ [Next]_watchVars => IInv'
<1> SUFFICES ASSUME IInv, [Next]_watchVars PROVE IInv'
  OBVIOUS
<1>1. ASSUME NEW r \in ReqIds, LaunchAborted(r) PROVE IInv'
  BY <1>1, LaunchAbortedKeepsIInv
<1>2. ASSUME NEW r \in ReqIds, Launch(r) PROVE IInv'
  BY <1>2, LaunchKeepsIInv
<1>3. ASSUME NEW s \in StatusCodes, DictationFails(s) PROVE IInv'
  BY <1>3, DictationFailsKeepsIInv
<1>4. ASSUME NEW t \in Transcripts, DictationSucceeds(t) PROVE IInv'
  BY <1>4, DictationSucceedsKeepsIInv
<1>5. ASSUME NEW m \in Inbox, InboxReceived(m) PROVE IInv'
  BY <1>5, InboxReceivedKeepsIInv
<1>6. CASE InboxDropped
  BY <1>6, InboxDroppedKeepsIInv
<1>7. CASE OutboxSent
  BY <1>7, OutboxSentKeepsIInv
<1>8. CASE OutboxFailed
  BY <1>8, OutboxFailedKeepsIInv
<1>9. CASE TimerFires
  BY <1>9, TimerFiresKeepsIInv
<1>10. CASE TransitionComplete
  BY <1>10, TransitionCompleteKeepsIInv
<1>11. CASE Click
  BY <1>11, ClickKeepsIInv
<1>12. CASE Deinit
  BY <1>12, DeinitKeepsIInv
<1>13. CASE UNCHANGED watchVars
  BY <1>13, StutterKeepsIInv
<1> QED
  BY <1>1, <1>2, <1>3, <1>4, <1>5, <1>6, <1>7, <1>8, <1>9, <1>10, <1>11, <1>12,
     <1>13 DEF Next, DictationStatus

\* The inductive invariant holds in every state of every run of the watchapp.
THEOREM InvariantHolds == Spec => []IInv
  BY InitEstablishesIInv, NextKeepsIInv, PTL DEF Spec

\* Every variable keeps its type: no callback stores an error code, a phase
\* or a message outside the sets main.c declares.
THEOREM TypesHold == Spec => []TypeOK
<1>1. IInv => TypeOK
  BY DEF IInv
<1> QED
  BY <1>1, InvariantHolds, PTL

\* Whatever the phone sends and whatever the firmware refuses, the timers
\* armed during a request are exactly the watchdog of its phase.
THEOREM WatchdogAlwaysArmed == Spec => []WatchdogArmed
<1>1. IInv => WatchdogArmed
  BY DEF IInv
<1> QED
  BY <1>1, InvariantHolds, PTL

\* A request in progress always has a pending callback that moves it on.
THEOREM RequestNeverStranded == Spec => []NeverStranded
<1>1. IInv => NeverStranded
  BY DEF IInv
<1> QED
  BY <1>1, InvariantHolds, PTL

\* The watch/phone and phone/server contexts never contradict each other.
THEOREM ContextsAgree == Spec => []BridgesAgree
<1>1. IInv => BridgesAgree
  BY DEF IInv
<1> QED
  BY <1>1, InvariantHolds, PTL

\* The outbox holds exactly the message of the phase the request is in, and
\* the next chunk is always one of the transcript.
THEOREM OutboxHoldsPhaseMessage == Spec => []OutboxMatchesPhase
<1>1. IInv => OutboxMatchesPhase
  BY DEF IInv
<1> QED
  BY <1>1, InvariantHolds, PTL

\* After any failure nothing of the request is kept, and the SESSION_END owed
\* to the phone has a callback left that sends it.
THEOREM ErrorAlwaysCleansUp == Spec => []ErrorCleansUp
<1>1. IInv => ErrorCleansUp
  BY DEF IInv
<1> QED
  BY <1>1, InvariantHolds, PTL

\* For every response limit, every chunk sequence and every order of arrival,
\* a displayed result is complete and within the limit.
THEOREM DisplayedResultIsWhole == Spec => []ResultIsWhole
<1>1. IInv => ResultIsWhole
  BY DEF IInv
<1> QED
  BY <1>1, InvariantHolds, PTL

-----------------------------------------------------------------------------
(* The outcome of a run is final.                                          *)

\* prv_fail returns at once when the run has settled.
LEMMA SettledFail ==
  ASSUME NEW held, NEW armed, NEW status, Settled, Fail(held, armed, status)
  PROVE  UNCHANGED <<state, terminalStatus, response>>
  BY DEF Fail

\* No step but the end of the app changes what a settled run settled on.
LEMMA OutcomeKeptByNext ==
  ASSUME IInv, [Next]_watchVars
  PROVE  [OutcomeKept]_watchVars
<1> SUFFICES ASSUME Settled, state' # "OFF"
             PROVE  UNCHANGED <<state, reqId, terminalStatus, response>>
  BY DEF OutcomeKept, Settled
<1> USE DEF Settled
<1>1. ASSUME NEW held, NEW armed, NEW e, WatchPhoneFail(held, armed, e)
      PROVE  UNCHANGED <<state, terminalStatus, response>>
  BY <1>1, SettledFail DEF WatchPhoneFail
<1>2. ASSUME NEW armed, NEW e, PhoneServerFail(armed, e)
      PROVE  UNCHANGED <<state, terminalStatus, response>>
  BY <1>2, SettledFail DEF PhoneServerFail
<1>3. ASSUME NEW r \in ReqIds, LaunchAborted(r) \/ Launch(r) PROVE FALSE
  BY <1>3 DEF LaunchAborted, Launch
<1>4. CASE DictationStatus
  BY <1>4 DEF DictationStatus, DictationFails, DictationSucceeds
<1>5. ASSUME NEW m \in Inbox, InboxReceived(m)
      PROVE  UNCHANGED <<state, reqId, terminalStatus, response>>
  BY <1>5 DEF InboxReceived, watchVars, appVars, deliveryVars
<1>6. CASE InboxDropped
  BY <1>1, <1>6 DEF InboxDropped
<1>7. CASE OutboxSent
  <2>1. state = "ERROR" /\ UNCHANGED reqId
    BY <1>7 DEF OutboxSent, IInv, OutboxMatchesPhase
  <2> QED
    BY <1>7, <2>1 DEF OutboxSent, BeginSent, ChunkSent, TrySendSessionEnd
<1>8. CASE OutboxFailed
  <2>1. state = "ERROR" /\ UNCHANGED reqId
    BY <1>8 DEF OutboxFailed, IInv, OutboxMatchesPhase
  <2> QED
    BY <1>8, <2>1 DEF OutboxFailed, TrySendSessionEnd
<1>9. CASE TimerFires
  BY <1>1, <1>2, <1>9
     DEF TimerFires, TranscriptDeliveryTimeout, WsRequestTimeout,
         ResultChunkTimeout, ExitTimeout, appVars, deliveryVars
<1>10. CASE TransitionComplete
  BY <1>10 DEF TransitionComplete, appVars, deliveryVars
<1>11. CASE Click
  BY <1>11 DEF Click, BackClick, ResultButtonDown, ResultBackClick, appVars, deliveryVars
<1>12. CASE Deinit
  BY <1>12 DEF Deinit
<1>13. CASE UNCHANGED watchVars
  BY <1>13 DEF watchVars, appVars, deliveryVars
<1> QED
  BY <1>3, <1>4, <1>5, <1>6, <1>7, <1>8, <1>9, <1>10, <1>11, <1>12, <1>13 DEF Next

\* Once a run has settled on an error or a result, no late message, timer or
\* callback changes its outcome while the app is open.
THEOREM OutcomeIsFinal == Spec => TerminalIsFinal
  BY InvariantHolds, OutcomeKeptByNext, PTL DEF Spec, TerminalIsFinal

-----------------------------------------------------------------------------
(* The order of what the watch sends.                                      *)

\* Failing posts SESSION_END or nothing, and nothing at all once settled.
LEMMA FailPosts ==
  ASSUME NEW held, NEW armed, NEW status, Fail(held, armed, status)
  PROVE  /\ outbox' \in {held, NoMsg} \/ outbox'.type = "SESSION_END"
         /\ Settled => outbox' = held
<1>1. SessionEnd(reqId, status).type = "SESSION_END"
  BY DEF SessionEnd
<1> QED
  BY <1>1 DEF Fail, EnterError

\* So do the failures of either bridge.
LEMMA BridgeFailurePosts ==
  /\ \A held, armed, e : WatchPhoneFail(held, armed, e) =>
       /\ outbox' \in {held, NoMsg} \/ outbox'.type = "SESSION_END"
       /\ Settled => outbox' = held
  /\ \A armed, e : PhoneServerFail(armed, e) =>
       /\ outbox' \in {outbox, NoMsg} \/ outbox'.type = "SESSION_END"
       /\ Settled => outbox' = outbox
  BY FailPosts DEF WatchPhoneFail, PhoneServerFail

\* A message from the phone makes the watch post SESSION_END or nothing.
LEMMA InboxReceivedPosts ==
  ASSUME NEW m \in Inbox, InboxReceived(m)
  PROVE  /\ outbox' \in {outbox, NoMsg} \/ outbox'.type = "SESSION_END"
         /\ Settled => outbox' = outbox
<1>1. CASE Settled \/ ~ForThisRequest(m)
  BY <1>1 DEF InboxReceived, watchVars, deliveryVars
<1>2. CASE ~Settled /\ ForThisRequest(m)
  <2>1. CASE Fail(outbox, timers, "ERROR_PROTOCOL")
    BY <2>1, FailPosts
  <2>2. CASE WatchPhoneFail(outbox, timers, "PROTOCOL")
    BY <2>2, BridgeFailurePosts
  <2>3. CASE SendStartedReceived
    <3>1. SessionEnd(reqId, "ERROR_TRANSFER").type = "SESSION_END"
      BY DEF SessionEnd
    <3> QED
      BY <1>2, <2>3, <3>1, BridgeFailurePosts
         DEF SendStartedReceived, EnterError, deliveryVars
  <2>4. CASE FailureReceived(m.status)
    BY <2>4, BridgeFailurePosts DEF FailureReceived
  <2>5. CASE ResultChunkReceived(m) \/ NoMemoryForResponse(m)
    BY <1>2, <2>5, BridgeFailurePosts DEF ResultChunkReceived, NoMemoryForResponse
  <2> QED
    BY <1>2, <2>1, <2>2, <2>3, <2>4, <2>5 DEF InboxReceived
<1> QED
  BY <1>1, <1>2

\* A step that neither posts a chunk nor follows SESSION_END is in order.
LEMMA QuietInOrder ==
  ASSUME IInv, outbox' \in {outbox, NoMsg} \/ outbox'.type \in {"SESSION_BEGIN", "SESSION_END"},
         state = "ERROR" =>
           \/ outbox' \in {outbox, NoMsg}
           \/ outbox.type # "SESSION_END" /\ outbox # NoMsg
  PROVE  ChunkFollowsPredecessor /\ NothingFollowsEnd
<1>1. NoMsg.type # "TRANSCRIPT_CHUNK" /\ NoMsg.type # "SESSION_END"
  BY DEF NoMsg
<1>2. ChunkFollowsPredecessor
  BY <1>1 DEF ChunkFollowsPredecessor
<1>3. state # "ERROR" => outbox.type # "SESSION_END"
  <2>1. SessionBegin(reqId).type # "SESSION_END"
    BY DEF SessionBegin
  <2>2. TranscriptChunk(reqId, nextChunk, transcript).type # "SESSION_END"
    BY DEF TranscriptChunk
  <2> QED
    BY <1>1, <2>1, <2>2 DEF IInv, TypeOK, OutboxMatchesPhase, AppStates
<1>4. NothingFollowsEnd
  BY <1>3 DEF NothingFollowsEnd
<1> QED
  BY <1>2, <1>4

\* Outside an error the outbox holds no SESSION_END that could be followed.
LEMMA ChunkInOrder ==
  ASSUME IInv, state # "ERROR", ChunkFollowsPredecessor
  PROVE  ChunkFollowsPredecessor /\ NothingFollowsEnd
<1>1. NoMsg.type # "SESSION_END" /\ SessionBegin(reqId).type # "SESSION_END"
  BY DEF NoMsg, SessionBegin
<1>2. TranscriptChunk(reqId, nextChunk, transcript).type # "SESSION_END"
  BY DEF TranscriptChunk
<1>3. outbox.type # "SESSION_END"
  BY <1>1, <1>2 DEF IInv, TypeOK, OutboxMatchesPhase, AppStates
<1> QED
  BY <1>3 DEF NothingFollowsEnd

\* PostChunk posts the chunk it is given, SESSION_END or nothing.
LEMMA PostChunkPosts ==
  ASSUME NEW t, NEW i, PostChunk(t, i)
  PROVE  outbox' = TranscriptChunk(reqId, i, t) \/ outbox' = NoMsg
           \/ outbox'.type = "SESSION_END"
  BY BridgeFailurePosts DEF PostChunk

LEMMA DictationInOrder ==
  ASSUME IInv, DictationStatus
  PROVE  ChunkFollowsPredecessor /\ NothingFollowsEnd
<1>1. state = "DICTATING"
  BY DEF DictationStatus, DictationFails, DictationSucceeds
<1>2. ASSUME NEW s \in StatusCodes, DictationFails(s)
      PROVE  ChunkFollowsPredecessor /\ NothingFollowsEnd
  BY <1>1, <1>2, FailPosts, QuietInOrder DEF DictationFails
<1>3. ASSUME NEW t \in Transcripts, DictationSucceeds(t), ~FirstChunkMayGo
      PROVE  ChunkFollowsPredecessor /\ NothingFollowsEnd
  BY <1>1, <1>3, QuietInOrder DEF DictationSucceeds
<1>4. ASSUME NEW t \in Transcripts, DictationSucceeds(t), FirstChunkMayGo
      PROVE  ChunkFollowsPredecessor /\ NothingFollowsEnd
  <2>1. outbox = NoMsg /\ beginDelivered' = TRUE /\ PostChunk(t, 0)
    BY <1>4 DEF DictationSucceeds, FirstChunkMayGo, IInv, TypeOK
  <2>2. NoMsg.type # "TRANSCRIPT_CHUNK" /\ TranscriptChunk(reqId, 0, t).index = 0
    BY DEF NoMsg, TranscriptChunk
  <2>3. ChunkFollowsPredecessor
    BY <2>1, <2>2, PostChunkPosts DEF ChunkFollowsPredecessor
  <2> QED
    BY <1>1, <2>3, ChunkInOrder
<1> QED
  BY <1>2, <1>3, <1>4 DEF DictationStatus

\* A chunk differs from the one before it in its index and its text only.
LEMMA SuccessorChunk ==
  ASSUME reqId \in ReqIds, transcript \in Texts, nextChunk \in Nat,
         nextChunk + 1 < Len(transcript),
         outbox = TranscriptChunk(reqId, nextChunk, transcript),
         outbox' = TranscriptChunk(reqId, nextChunk + 1, transcript)
  PROVE  /\ outbox'.index # 0
         /\ outbox' = [outbox EXCEPT !.index = @ + 1, !.text = outbox'.text]
<1> DEFINE Chunks == [type : {"TRANSCRIPT_CHUNK"}, id : ReqIds, index : Nat,
                      count : Nat, total : Nat, text : Texts]
           c == outbox
           d == outbox'
           e == [c EXCEPT !.index = @ + 1, !.text = d.text]
<1>1. /\ <<transcript[nextChunk + 1]>> \in Texts
      /\ <<transcript[nextChunk + 1 + 1]>> \in Texts
      /\ Len(transcript) \in Nat
  OBVIOUS
<1>2. c \in Chunks /\ d \in Chunks
  BY <1>1 DEF TranscriptChunk
<1>3. /\ c.index = nextChunk /\ d.index = nextChunk + 1
      /\ d.id = c.id /\ d.count = c.count /\ d.total = c.total
  BY DEF TranscriptChunk
<1>4. /\ e.id = c.id /\ e.index = nextChunk + 1
      /\ e.count = c.count /\ e.total = c.total /\ e.text = d.text
      /\ e \in Chunks
  BY <1>2, <1>3
<1>5. \A x, y \in Chunks :
        /\ x.id = y.id /\ x.index = y.index /\ x.count = y.count
        /\ x.total = y.total /\ x.text = y.text
        => x = y
  OBVIOUS
<1>6. d = e
  <2> HIDE DEF e, Chunks
  <2> QED
    BY <1>2, <1>3, <1>4, <1>5
<1> QED
  BY <1>3, <1>6

LEMMA OutboxSentInOrder ==
  ASSUME IInv, OutboxSent
  PROVE  ChunkFollowsPredecessor /\ NothingFollowsEnd
<1>1. CASE state = "ERROR"
  <2>1. TrySendSessionEnd
    BY <1>1 DEF OutboxSent, BeginSent, ChunkSent
  <2>2. SessionEnd(reqId, terminalStatus).type = "SESSION_END"
    BY DEF SessionEnd
  <2>3. outbox # NoMsg
    BY DEF OutboxSent
  <2> QED
    BY <1>1, <2>1, <2>2, <2>3, QuietInOrder
       DEF TrySendSessionEnd, IInv, ErrorCleansUp
<1>2. CASE BeginSent
  <2>1. state # "ERROR" /\ outbox.type = "SESSION_BEGIN" /\ beginDelivered'
    BY <1>2 DEF BeginSent
  <2>2. CASE state = "BRIDGING" /\ watchPhone = "TRANSFERRING"
    <3>1. PostChunk(transcript, nextChunk)
      BY <1>2, <2>2 DEF BeginSent
    <3>2. TranscriptChunk(reqId, nextChunk, transcript).type = "TRANSCRIPT_CHUNK"
          /\ TranscriptChunk(reqId, nextChunk, transcript).index = nextChunk
      BY DEF TranscriptChunk
    <3>3. outbox = SessionBegin(reqId) /\ nextChunk = 0
      BY <2>1, <2>2, <3>2 DEF IInv, OutboxMatchesPhase
    <3>4. NoMsg.type # "TRANSCRIPT_CHUNK"
      BY DEF NoMsg
    <3>5. ChunkFollowsPredecessor
      BY <2>1, <3>1, <3>2, <3>3, <3>4, PostChunkPosts DEF ChunkFollowsPredecessor
    <3> QED
      BY <2>1, <3>5, ChunkInOrder
  <2>3. CASE ~(state = "BRIDGING" /\ watchPhone = "TRANSFERRING")
    BY <1>2, <2>1, <2>3, QuietInOrder DEF BeginSent
  <2> QED
    BY <2>2, <2>3
<1>3. CASE ChunkSent
  <2>1. state # "ERROR" /\ outbox.type = "TRANSCRIPT_CHUNK"
        /\ beginDelivered' = beginDelivered
    BY <1>3 DEF ChunkSent
  <2>2. CASE /\ state = "BRIDGING" /\ watchPhone = "TRANSFERRING"
             /\ nextChunk + 1 < Len(transcript)
    <3>1. PostChunk(transcript, nextChunk + 1)
      BY <1>3, <2>2 DEF ChunkSent
    <3>2. SessionBegin(reqId).type # "TRANSCRIPT_CHUNK" /\ NoMsg.type # "TRANSCRIPT_CHUNK"
      BY DEF SessionBegin, NoMsg
    <3>3. beginDelivered /\ outbox = TranscriptChunk(reqId, nextChunk, transcript)
      BY <2>1, <2>2, <3>2 DEF IInv, OutboxMatchesPhase
    <3>4. nextChunk \in Nat /\ transcript \in Texts /\ reqId \in ReqIds
      BY <2>1 DEF IInv, TypeOK, OutboxMatchesPhase, Running, OutboxSent
    <3>5. ASSUME outbox' = TranscriptChunk(reqId, nextChunk + 1, transcript)
          PROVE  /\ outbox'.index # 0
                 /\ outbox' = [outbox EXCEPT !.index = @ + 1, !.text = outbox'.text]
      BY <2>2, <3>3, <3>4, <3>5, SuccessorChunk
    <3>6. ChunkFollowsPredecessor
      BY <2>1, <3>1, <3>2, <3>3, <3>5, PostChunkPosts DEF ChunkFollowsPredecessor
    <3> QED
      BY <2>1, <3>6, ChunkInOrder
  <2>3. CASE ~(/\ state = "BRIDGING" /\ watchPhone = "TRANSFERRING"
               /\ nextChunk + 1 < Len(transcript))
    <3>1. outbox' = NoMsg \/ outbox'.type = "SESSION_END"
      BY <1>3, <2>1, <2>3, BridgeFailurePosts DEF ChunkSent, AwaitSendStart
    <3> QED
      BY <2>1, <3>1, QuietInOrder
  <2> QED
    BY <2>2, <2>3
<1> QED
  BY <1>1, <1>2, <1>3 DEF OutboxSent

LEMMA OutboxFailedInOrder ==
  ASSUME IInv, OutboxFailed
  PROVE  ChunkFollowsPredecessor /\ NothingFollowsEnd
<1>1. outbox # NoMsg
  BY DEF OutboxFailed
<1>2. SessionEnd(reqId, terminalStatus).type = "SESSION_END"
  BY DEF SessionEnd
<1>3. CASE state = "ERROR"
  BY <1>1, <1>2, <1>3, QuietInOrder DEF OutboxFailed, TrySendSessionEnd
<1>4. CASE state # "ERROR"
  BY <1>4, BridgeFailurePosts, QuietInOrder DEF OutboxFailed
<1> QED
  BY <1>3, <1>4

\* Every step keeps the order.
LEMMA InOrderByNext ==
  ASSUME IInv, [Next]_watchVars
  PROVE  [ChunkFollowsPredecessor /\ NothingFollowsEnd]_watchVars
<1> SUFFICES ASSUME Next PROVE ChunkFollowsPredecessor /\ NothingFollowsEnd
  OBVIOUS
<1> USE DEF Settled
<1>1. ASSUME NEW r \in ReqIds, LaunchAborted(r) \/ Launch(r)
      PROVE  ChunkFollowsPredecessor /\ NothingFollowsEnd
  <2>1. state = "OFF" /\ SessionBegin(r).type = "SESSION_BEGIN"
        /\ \A s : SessionEnd(r, s).type = "SESSION_END"
    BY <1>1 DEF LaunchAborted, Launch, SessionBegin, SessionEnd
  <2>2. CASE LaunchAborted(r)
    BY <2>1, <2>2, QuietInOrder DEF LaunchAborted, deliveryVars
  <2>3. CASE Launch(r)
    <3>1. outbox' \in {outbox, NoMsg} \/ outbox'.type \in {"SESSION_BEGIN", "SESSION_END"}
      BY <2>1, <2>3 DEF Launch, LaunchFails, EnterError
    <3> QED
      BY <2>1, <3>1, QuietInOrder
  <2> QED
    BY <1>1, <2>2, <2>3
<1>2. CASE DictationStatus
  BY <1>2, DictationInOrder
<1>3. ASSUME NEW m \in Inbox, InboxReceived(m)
      PROVE  ChunkFollowsPredecessor /\ NothingFollowsEnd
  BY <1>3, InboxReceivedPosts, QuietInOrder
<1>4. CASE InboxDropped
  BY <1>4, BridgeFailurePosts, QuietInOrder DEF InboxDropped
<1>5. CASE OutboxSent
  BY <1>5, OutboxSentInOrder
<1>6. CASE OutboxFailed
  BY <1>6, OutboxFailedInOrder
<1>7. CASE TimerFires
  <2>1. /\ outbox' \in {outbox, NoMsg} \/ outbox'.type = "SESSION_END"
        /\ Settled => outbox' = outbox
    BY <1>7, BridgeFailurePosts
       DEF TimerFires, TranscriptDeliveryTimeout, WsRequestTimeout,
           ResultChunkTimeout, ExitTimeout, deliveryVars
  <2> QED
    BY <2>1, QuietInOrder
<1>8. CASE TransitionComplete
  BY <1>8, QuietInOrder DEF TransitionComplete, deliveryVars
<1>9. CASE Click
  <2>1. /\ outbox' \in {outbox, NoMsg} \/ outbox'.type = "SESSION_END"
        /\ Settled => outbox' = outbox
    BY <1>9, FailPosts
       DEF Click, BackClick, ResultButtonDown, ResultBackClick, deliveryVars
  <2> QED
    BY <2>1, QuietInOrder
<1>10. CASE Deinit
  BY <1>10, QuietInOrder DEF Deinit
<1> QED
  BY <1>1, <1>2, <1>3, <1>4, <1>5, <1>6, <1>7, <1>8, <1>9, <1>10 DEF Next

\* Whatever is refused, late or dropped, the phone is told everything of a
\* request in order: SESSION_BEGIN, each chunk of the transcript after the
\* delivery of the one before it, and SESSION_END last and at most once.
THEOREM EverythingSentInOrder == Spec => SendsInOrder
  BY InvariantHolds, InOrderByNext, PTL DEF Spec, SendsInOrder

-----------------------------------------------------------------------------
(* What a step means for the phone.                                        *)

\* The request sends, or waits to send, its transcript.
Transferring == state = "BRIDGING" /\ watchPhone = "TRANSFERRING"

\* It was sent to the server, as far as the watch knows.
Awaiting == state = "BRIDGING" /\ watchPhone \in {"AWAITING_RESULT", "RECEIVING_RESULT"}

\* The outbox keeps its message, or is emptied, or a message of this run is
\* posted: its SESSION_END or the next chunk.
Posts ==
  \/ outbox' \in {outbox, NoMsg}
  \/ outbox'.type = "SESSION_END" /\ outbox'.id = reqId
  \/ Transferring' /\ outbox' = TranscriptChunk(reqId, nextChunk', transcript')

\* What a callback keeps if it does not take the run further: the run and its
\* texts, as long as it does not fail.
Steady ==
  /\ UNCHANGED <<reqId, used>>
  /\ \/ UNCHANGED state
     \/ state' = "ERROR" /\ state \in {"DICTATING", "BRIDGING"}
  /\ Transferring' => Transferring /\ UNCHANGED transcript
  /\ Awaiting' => Awaiting /\ UNCHANGED <<watchPhone, response>>
  /\ state' = "DISPLAYING_RESULT" => UNCHANGED response
  /\ Posts

\* An empty outbox may be filled, a full one is not touched.
Waits == outbox # NoMsg => UNCHANGED outbox

\* Failing keeps what it finds in the outbox, or posts SESSION_END.
LEMMA FailSteady ==
  ASSUME Running, state \in AppStates,
         NEW held \in {outbox, NoMsg}, NEW armed, NEW status,
         Fail(held, armed, status), UNCHANGED <<reqId, used>>
  PROVE  Steady /\ (held # NoMsg => outbox' = held)
  BY DEF Fail, EnterError, SessionEnd, Running, AppStates, Settled, Transferring, Awaiting,
         Posts, Steady

LEMMA BridgeFailureSteady ==
  ASSUME Running, state \in AppStates, UNCHANGED <<reqId, used>>
  PROVE  /\ \A held \in {outbox, NoMsg} : \A armed, e : WatchPhoneFail(held, armed, e) =>
              Steady /\ (held # NoMsg => outbox' = held)
         /\ \A armed, e : PhoneServerFail(armed, e) => Steady /\ Waits
  BY FailSteady DEF WatchPhoneFail, PhoneServerFail, Waits

\* The phone says that it sent the request.
StartsToAwait(m) ==
  /\ m.type = "SEND_STARTED" /\ ForThisRequest(m)
  /\ state = "BRIDGING" /\ watchPhone' = "AWAITING_RESULT"
  /\ UNCHANGED <<reqId, used, state, outbox>>

\* A piece of the result arrives, the last one perhaps.
TakesPiece(m) ==
  /\ m.type = "SERVER_RESULT_CHUNK" /\ ForThisRequest(m)
  /\ state = "BRIDGING" /\ Continues(m) /\ response' = Extended(m)
  /\ IF response'.next = response'.count
       THEN state' = "DISPLAYING_RESULT"
       ELSE state' = "BRIDGING" /\ watchPhone' = "RECEIVING_RESULT"
  /\ UNCHANGED <<reqId, used, outbox>>

\* A message from the phone takes the run further, or changes nothing of it
\* but to fail it.
LEMMA InboxSteady ==
  ASSUME IInv, NEW m, InboxReceived(m)
  PROVE  Waits /\ (Steady \/ StartsToAwait(m) \/ TakesPiece(m))
<1>1. Running /\ state \in AppStates
  BY DEF InboxReceived, IInv, TypeOK
<1>2. CASE Settled \/ ~ForThisRequest(m)
  BY <1>1, <1>2
     DEF InboxReceived, watchVars, appVars, bridgeVars, deliveryVars, Steady, Waits, Posts,
         Running, Transferring, Awaiting
<1>3. CASE ~Settled /\ ForThisRequest(m)
  <2>1. UNCHANGED <<reqId, used>>
    BY <1>3 DEF InboxReceived
  <2>2. ASSUME NEW armed, NEW e,
               WatchPhoneFail(outbox, armed, e) \/ PhoneServerFail(armed, e)
        PROVE  Steady /\ Waits
    BY <1>1, <2>1, <2>2, BridgeFailureSteady DEF Waits
  <2>3. CASE Fail(outbox, timers, "ERROR_PROTOCOL")
    BY <1>1, <2>1, <2>3, FailSteady DEF Waits
  <2>4. CASE m.type = "SEND_STARTED" /\ SendStartedReceived
    <3>1. CASE WatchPhoneFail(outbox, timers, "PROTOCOL")
      BY <2>2, <3>1
    <3>2. CASE watchPhone' = "FAILED" /\ EnterError(reqId, appMessageReady, outbox, "ERROR_TRANSFER")
      BY <1>1, <1>3, <2>1, <3>2
         DEF EnterError, SessionEnd, Steady, Waits, Posts, Running, AppStates, Settled,
             Transferring, Awaiting
    <3>3. CASE watchPhone' = "AWAITING_RESULT" /\ state = "BRIDGING" /\ UNCHANGED <<state, outbox>>
      BY <1>3, <2>1, <2>4, <3>3 DEF StartsToAwait, Waits
    <3> QED
      BY <2>4, <3>1, <3>2, <3>3 DEF SendStartedReceived, deliveryVars
  <2>5. CASE FailureReceived(m.status)
    BY <2>2, <2>5 DEF FailureReceived
  <2>6. CASE m.type = "SERVER_RESULT_CHUNK" /\ ResultChunkReceived(m)
    <3>1. CASE \E armed, e : WatchPhoneFail(outbox, armed, e)
      BY <2>2, <3>1
    <3>2. CASE ~ \E armed, e : WatchPhoneFail(outbox, armed, e)
      BY <1>3, <2>1, <2>6, <3>2
         DEF ResultChunkReceived, Continues, ReceivingResult, TakesPiece, Waits
    <3> QED
      BY <3>1, <3>2
  <2>7. CASE NoMemoryForResponse(m)
    BY <2>2, <2>7 DEF NoMemoryForResponse
  <2> QED
    BY <1>3, <2>2, <2>3, <2>4, <2>5, <2>6, <2>7 DEF InboxReceived
<1> QED
  BY <1>2, <1>3

\* The timers, the buttons, the screen and a full inbox change nothing of the
\* run but to fail it.
LEMMA UserAndTimersSteady ==
  ASSUME IInv, TimerFires \/ TransitionComplete \/ Click \/ InboxDropped
  PROVE  Steady /\ Waits
<1>1. Running /\ state \in AppStates /\ UNCHANGED <<reqId, used>>
  <2>1. timers # {} => Running
    BY TimersRun
  <2>2. dialog = "error_transition" => Running
    BY DEF IInv, WatchdogArmed, Running
  <2> QED
    BY <2>1, <2>2
       DEF TimerFires, TranscriptDeliveryTimeout, WsRequestTimeout, ResultChunkTimeout,
           ExitTimeout, TransitionComplete, Click, BackClick, ResultButtonDown,
           ResultBackClick, InboxDropped, appVars, Running, IInv, TypeOK
<1>2. CASE \E armed, e : WatchPhoneFail(outbox, armed, e) \/ PhoneServerFail(armed, e)
  BY <1>1, <1>2, BridgeFailureSteady DEF Waits
<1>3. CASE ExitTimeout \/ TransitionComplete \/ ResultButtonDown \/ ResultBackClick
  BY <1>1, <1>3
     DEF ExitTimeout, TransitionComplete, ResultButtonDown, ResultBackClick, appVars,
         bridgeVars, deliveryVars, Steady, Waits, Posts, Transferring, Awaiting
<1>4. CASE BackClick
  BY <1>1, <1>4, FailSteady DEF BackClick, Waits
<1> QED
  BY <1>2, <1>3, <1>4
     DEF TimerFires, TranscriptDeliveryTimeout, WsRequestTimeout, ResultChunkTimeout, Click,
         InboxDropped

LEMMA DictationFailsSteady ==
  ASSUME IInv, NEW s, DictationFails(s)
  PROVE  Steady /\ Waits
  BY FailSteady DEF DictationFails, Running, IInv, TypeOK, Waits

\* PostChunk posts the chunk it is given, which the transcript then holds.
LEMMA PostChunkFacts ==
  ASSUME NEW t, NEW i, PostChunk(t, i), state \in {"DICTATING", "BRIDGING"},
         UNCHANGED <<reqId, used>>
  PROVE  /\ Posts /\ state' \in {"BRIDGING", "ERROR"}
         /\ Transferring' => transcript' = t
         /\ ~Awaiting'
         /\ outbox' \in {NoMsg, TranscriptChunk(reqId, i, t)} \/ outbox'.type = "SESSION_END"
  BY DEF PostChunk, WatchPhoneFail, Fail, EnterError, SessionEnd, Settled, Posts,
         Transferring, Awaiting

\* The outcome of a message changes nothing of the run either, and never
\* brings another SESSION_BEGIN.
LEMMA OutboxSteady ==
  ASSUME IInv, OutboxSent \/ OutboxFailed
  PROVE  Steady /\ outbox'.type # "SESSION_BEGIN"
<1>1. Running /\ state \in AppStates /\ UNCHANGED <<reqId, used>> /\ reqId \in ReqIds
  BY DEF OutboxSent, OutboxFailed, IInv, TypeOK, OutboxMatchesPhase
<1>2. NoMsg.type # "SESSION_BEGIN"
      /\ \A i, t : TranscriptChunk(reqId, i, t).type # "SESSION_BEGIN"
      /\ \A s : SessionEnd(reqId, s).type # "SESSION_BEGIN"
  BY DEF NoMsg, TranscriptChunk, SessionEnd
<1>3. CASE state = "ERROR"
  <2>1. /\ UNCHANGED state
        /\ outbox' = NoMsg \/ \E s : outbox' = SessionEnd(reqId, s)
    BY <1>3 DEF OutboxSent, OutboxFailed, BeginSent, ChunkSent, TrySendSessionEnd
  <2> QED
    BY <1>1, <1>2, <1>3, <2>1 DEF Steady, Posts, Transferring, Awaiting, SessionEnd
<1>4. CASE \E e : WatchPhoneFail(NoMsg, timers, e) /\ state # "ERROR"
  <2>1. outbox' = NoMsg \/ \E s : outbox' = SessionEnd(reqId, s)
    BY <1>1, <1>4 DEF WatchPhoneFail, Fail, EnterError
  <2> QED
    BY <1>1, <1>2, <1>4, <2>1, BridgeFailureSteady
<1>5. CASE BeginSent
  <2>1. CASE Transferring
    BY <1>1, <1>2, <1>5, <2>1, PostChunkFacts DEF BeginSent, PostChunk, WatchPhoneFail, Fail,
       EnterError, Settled, Transferring, Steady
  <2>2. CASE ~Transferring
    BY <1>1, <1>2, <1>5, <2>2 DEF BeginSent, Transferring, Awaiting, Steady, Posts
  <2> QED
    BY <2>1, <2>2
<1>6. CASE ChunkSent
  <2>1. CASE Transferring /\ nextChunk + 1 < Len(transcript)
    BY <1>1, <1>2, <1>6, <2>1, PostChunkFacts DEF ChunkSent, Transferring, Steady
  <2>2. CASE Transferring /\ ~(nextChunk + 1 < Len(transcript))
    BY <1>1, <1>2, <1>4, <1>6, <2>2
       DEF ChunkSent, AwaitSendStart, Transferring, Awaiting, Steady, Posts
  <2>3. CASE ~Transferring
    BY <1>4, <1>6, <2>3 DEF ChunkSent, Transferring
  <2> QED
    BY <2>1, <2>2, <2>3
<1> QED
  BY <1>3, <1>4, <1>5, <1>6 DEF OutboxSent, OutboxFailed

\* Dictation ends with the transcript that the request then sends.
LEMMA DictationSucceedsSteady ==
  ASSUME IInv, NEW t \in Transcripts, DictationSucceeds(t)
  PROVE  /\ UNCHANGED <<reqId, used>> /\ Posts
         /\ state = "DICTATING" /\ state' \in {"BRIDGING", "ERROR"}
         /\ Transferring' => transcript' = t
         /\ ~Awaiting' /\ Waits
  BY PostChunkFacts DEF DictationSucceeds, FirstChunkMayGo, Transferring, Awaiting, Posts, Waits

\* A run starts with nothing in the outbox and puts in SESSION_BEGIN, or
\* SESSION_END if it fails at once.
LEMMA LaunchSteady ==
  ASSUME IInv, NEW r \in ReqIds, LaunchAborted(r) \/ Launch(r)
  PROVE  /\ state = "OFF" /\ r \notin used /\ used' = used \cup {r} /\ outbox = NoMsg
         /\ \/ UNCHANGED <<state, outbox>>
            \/ /\ state' \in {"DICTATING", "ERROR"} /\ reqId' = r
               /\ \/ outbox' \in {NoMsg, SessionBegin(r)}
                  \/ outbox'.type = "SESSION_END" /\ outbox'.id = r
  BY DEF LaunchAborted, Launch, LaunchFails, EnterError, SessionEnd, IInv, OutboxMatchesPhase,
         deliveryVars

-----------------------------------------------------------------------------
(* How a run goes on, and what it takes for a violation of the protocol.   *)

Live == state \in {"DICTATING", "BRIDGING"}

\* The run halts, or stays where it is: either way no chunk is posted.
Halts ==
  \/ ~Live' /\ (UNCHANGED outbox \/ outbox'.type # "TRANSCRIPT_CHUNK")
  \/ UNCHANGED <<state, reqId, watchPhone, response, outbox, transcript, nextChunk,
                 beginDelivered>>

\* The phone is not accused of a violation.
Blameless == UNCHANGED terminalStatus \/ terminalStatus' # "ERROR_PROTOCOL"

LEMMA FailHalts ==
  ASSUME Running, state \in AppStates,
         NEW held \in {outbox, NoMsg}, NEW armed, NEW status,
         Fail(held, armed, status)
  PROVE  Halts /\ (status # "ERROR_PROTOCOL" => Blameless)
<1>1. NoMsg.type # "TRANSCRIPT_CHUNK" /\ \A s : SessionEnd(reqId, s).type # "TRANSCRIPT_CHUNK"
  BY DEF NoMsg, SessionEnd
<1>2. CASE Settled
  BY <1>1, <1>2 DEF Fail, Settled, Halts, Live, Blameless
<1>3. CASE ~Settled
  <2>1. /\ state' = "ERROR" /\ terminalStatus' = status
        /\ outbox' \in {held, NoMsg} \/ \E s : outbox' = SessionEnd(reqId, s)
    BY <1>3 DEF Fail, EnterError
  <2> QED
    BY <1>1, <2>1 DEF Halts, Live, Blameless
<1> QED
  BY <1>2, <1>3

LEMMA BridgeFailureHalts ==
  ASSUME Running, state \in AppStates
  PROVE  /\ \A held \in {outbox, NoMsg} : \A armed :
              \A e \in WatchPhoneErrors : WatchPhoneFail(held, armed, e) =>
                Halts /\ (e # "PROTOCOL" => Blameless)
         /\ \A armed :
              \A e \in {"PROTOCOL", "SERVER", "RESULT_TIMEOUT", "REQUEST_TIMEOUT"} :
                PhoneServerFail(armed, e) => Halts /\ (e # "PROTOCOL" => Blameless)
<1>1. /\ \A e \in WatchPhoneErrors \ {"PROTOCOL"} : WatchPhoneStatus[e] # "ERROR_PROTOCOL"
      /\ \A e \in {"SERVER", "RESULT_TIMEOUT", "REQUEST_TIMEOUT"} :
           PhoneServerStatus[e] # "ERROR_PROTOCOL"
  BY DEF WatchPhoneErrors, WatchPhoneStatus, PhoneServerStatus
<1>2. ASSUME NEW held \in {outbox, NoMsg}, NEW armed, NEW e \in WatchPhoneErrors,
             WatchPhoneFail(held, armed, e)
      PROVE  Halts /\ (e # "PROTOCOL" => Blameless)
  BY <1>1, <1>2, FailHalts DEF WatchPhoneFail
<1>3. ASSUME NEW armed,
             NEW e \in {"PROTOCOL", "SERVER", "RESULT_TIMEOUT", "REQUEST_TIMEOUT"},
             PhoneServerFail(armed, e)
      PROVE  Halts /\ (e # "PROTOCOL" => Blameless)
  BY <1>1, <1>3, FailHalts DEF PhoneServerFail
<1> QED
  BY <1>2, <1>3

\* The timers, the buttons, the screen and a full inbox.
LEMMA UserAndTimersHalt ==
  ASSUME IInv, TimerFires \/ TransitionComplete \/ Click \/ InboxDropped
  PROVE  Halts /\ Blameless
<1>1. Running /\ state \in AppStates
  <2>1. timers # {} => Running
    BY TimersRun
  <2>2. dialog = "error_transition" => Running
    BY DEF IInv, WatchdogArmed, Running
  <2> QED
    BY <2>1, <2>2
       DEF TimerFires, TranscriptDeliveryTimeout, WsRequestTimeout, ResultChunkTimeout,
           ExitTimeout, TransitionComplete, Click, BackClick, ResultButtonDown,
           ResultBackClick, InboxDropped, Running, IInv, TypeOK
<1>2. CASE \E armed : \/ \E e \in WatchPhoneErrors \ {"PROTOCOL"} : WatchPhoneFail(outbox, armed, e)
                      \/ PhoneServerFail(armed, "REQUEST_TIMEOUT")
  BY <1>1, <1>2, BridgeFailureHalts
<1>3. CASE ExitTimeout \/ TransitionComplete \/ ResultButtonDown \/ ResultBackClick
  BY <1>3
     DEF ExitTimeout, TransitionComplete, ResultButtonDown, ResultBackClick, appVars,
         bridgeVars, deliveryVars, Halts, Blameless
<1>4. CASE BackClick
  BY <1>1, <1>4, FailHalts DEF BackClick
<1>5. {"SEND_START_TIMEOUT", "RESULT_TRANSFER_TIMEOUT", "TRANSFER"}
        \subseteq WatchPhoneErrors \ {"PROTOCOL"}
  BY DEF WatchPhoneErrors
<1> QED
  BY <1>2, <1>3, <1>4, <1>5
     DEF TimerFires, TranscriptDeliveryTimeout, WsRequestTimeout, ResultChunkTimeout, Click,
         InboxDropped

LEMMA DictationFailsHalts ==
  ASSUME IInv, NEW s, DictationFails(s)
  PROVE  Halts /\ Blameless
  BY FailHalts DEF DictationFails, Running, IInv, TypeOK

\* A message that was not delivered ends the run, as the end of the app does.
LEMMA UndeliveredHalts ==
  ASSUME IInv, OutboxFailed \/ Deinit
  PROVE  ~Live' /\ outbox'.type # "TRANSCRIPT_CHUNK" /\ Blameless
<1>1. Running /\ state \in AppStates
  BY DEF OutboxFailed, Deinit, IInv, TypeOK
<1>2. NoMsg.type # "TRANSCRIPT_CHUNK" /\ \A s : SessionEnd(reqId, s).type # "TRANSCRIPT_CHUNK"
  BY DEF NoMsg, SessionEnd
<1>3. CASE OutboxFailed /\ state = "ERROR"
  <2>1. UNCHANGED <<state, terminalStatus>>
    BY <1>3 DEF OutboxFailed
  <2>2. outbox' = NoMsg \/ \E s : outbox' = SessionEnd(reqId, s)
    BY <1>3 DEF OutboxFailed, TrySendSessionEnd
  <2> QED
    BY <1>2, <1>3, <2>1, <2>2 DEF Live, Blameless
<1>4. CASE OutboxFailed /\ state # "ERROR"
  <2>1. PICK e \in {"CONNECTIVITY", "TRANSFER"} : WatchPhoneFail(NoMsg, timers, e)
    BY <1>4 DEF OutboxFailed
  <2>2. e \in WatchPhoneErrors /\ e # "PROTOCOL"
    BY DEF WatchPhoneErrors
  <2>3. Blameless
    BY <1>1, <2>1, <2>2, BridgeFailureHalts
  <2>4. ~Settled
    BY <1>4 DEF OutboxFailed, IInv, OutboxMatchesPhase, Settled
  <2>5. /\ state' = "ERROR"
        /\ outbox' = NoMsg \/ \E s : outbox' = SessionEnd(reqId, s)
    BY <2>1, <2>4 DEF WatchPhoneFail, Fail, EnterError
  <2> QED
    BY <1>2, <2>3, <2>5 DEF Live
<1>5. CASE Deinit
  BY <1>2, <1>5 DEF Deinit, Live, Blameless
<1> QED
  BY <1>3, <1>4, <1>5

\* What the phone may tell a request that the watch takes for correct.
Expected(m) ==
  /\ m.type \in {"SEND_STARTED", "FAILURE", "SERVER_RESULT_CHUNK"} /\ m.id # NoId
  /\ ~Settled /\ ForThisRequest(m) =>
       /\ m.type = "SEND_STARTED" =>
            state = "BRIDGING" /\ watchPhone = "AWAITING_SEND_START"
       /\ m.type = "FAILURE" =>
            m.status \in {"ERROR_SERVER", "ERROR_SERVER_RESULT_TIMEOUT", "ERROR_TRANSFER"}
       /\ m.type = "SERVER_RESULT_CHUNK" => Continues(m)

LEMMA InboxHalts ==
  ASSUME IInv, NEW m, InboxReceived(m), Expected(m)
  PROVE  /\ Blameless
         /\ \/ Halts /\ (Live' => ~ForThisRequest(m))
            \/ StartsToAwait(m)
            \/ TakesPiece(m)
<1>1. Running /\ state \in AppStates
  BY DEF InboxReceived, IInv, TypeOK
<1>2. CASE Settled \/ ~ForThisRequest(m)
  BY <1>2 DEF InboxReceived, watchVars, appVars, bridgeVars, deliveryVars, Halts, Blameless,
              Settled, Live, ForThisRequest
<1>3. CASE ~Settled /\ ForThisRequest(m)
  <2>1. UNCHANGED <<reqId, used>>
    BY <1>3 DEF InboxReceived
  <2>2. ASSUME NEW armed,
               \/ \E e \in WatchPhoneErrors \ {"PROTOCOL"} : WatchPhoneFail(outbox, armed, e)
               \/ \E e \in {"SERVER", "RESULT_TIMEOUT"} : PhoneServerFail(armed, e)
        PROVE  Halts /\ Blameless /\ ~Live'
    <3>1. Halts /\ Blameless
      BY <1>1, <2>2, BridgeFailureHalts
    <3>2. state' = "ERROR"
      BY <1>3, <2>2 DEF WatchPhoneFail, PhoneServerFail, Fail, EnterError
    <3> QED
      BY <3>1, <3>2 DEF Live
  <2>3. {"TRANSFER"} \subseteq WatchPhoneErrors \ {"PROTOCOL"}
    BY DEF WatchPhoneErrors
  <2>4. CASE m.type = "SEND_STARTED" /\ SendStartedReceived
    <3>1. state = "BRIDGING" /\ watchPhone = "AWAITING_SEND_START" /\ phoneServer = "PREPARING"
      BY <1>3, <2>4 DEF Expected, IInv, BridgesAgree
    <3>2. CASE EnterError(reqId, appMessageReady, outbox, "ERROR_TRANSFER")
      <4>1. NoMsg.type # "TRANSCRIPT_CHUNK"
            /\ \A s : SessionEnd(reqId, s).type # "TRANSCRIPT_CHUNK"
        BY DEF NoMsg, SessionEnd
      <4>2. /\ state' = "ERROR" /\ terminalStatus' = "ERROR_TRANSFER"
            /\ outbox' \in {outbox, NoMsg} \/ \E s : outbox' = SessionEnd(reqId, s)
        BY <3>2 DEF EnterError
      <4> QED
        BY <4>1, <4>2 DEF Halts, Live, Blameless
    <3>3. CASE /\ watchPhone' = "AWAITING_RESULT"
               /\ UNCHANGED <<state, terminalStatus, deliveryVars>>
      BY <1>3, <2>1, <2>4, <3>1, <3>3 DEF StartsToAwait, deliveryVars, Blameless
    <3> QED
      BY <2>4, <3>1, <3>2, <3>3 DEF SendStartedReceived, deliveryVars
  <2>5. CASE m.type = "FAILURE" /\ FailureReceived(m.status)
    <3>1. m.status \in {"ERROR_SERVER", "ERROR_SERVER_RESULT_TIMEOUT", "ERROR_TRANSFER"}
      BY <1>3, <2>5 DEF Expected
    <3>2. \/ PhoneServerFail(timers, "SERVER") \/ PhoneServerFail(timers, "RESULT_TIMEOUT")
          \/ WatchPhoneFail(outbox, timers, "TRANSFER")
      BY <2>5, <3>1 DEF FailureReceived
    <3> QED
      BY <2>2, <2>3, <3>2
  <2>6. CASE m.type = "SERVER_RESULT_CHUNK" /\ ResultChunkReceived(m)
    <3>1. Continues(m)
      BY <1>3, <2>6 DEF Expected
    <3>2. CASE \E armed : WatchPhoneFail(outbox, armed, "TRANSFER")
      BY <2>2, <2>3, <3>2
    <3>3. CASE ~ \E armed : WatchPhoneFail(outbox, armed, "TRANSFER")
      BY <1>3, <2>1, <2>6, <3>1, <3>3
         DEF ResultChunkReceived, Continues, ReceivingResult, TakesPiece, Blameless
    <3> QED
      BY <3>2, <3>3
  <2>7. CASE NoMemoryForResponse(m)
    BY <2>2, <2>3, <2>7 DEF NoMemoryForResponse
  <2> QED
    BY <1>3, <2>4, <2>5, <2>6, <2>7 DEF InboxReceived, Expected
<1> QED
  BY <1>2, <1>3

\* Chunk i of t is in the outbox of a request that sends it.
PostsChunk(t, i) ==
  /\ Transferring' /\ transcript' = t /\ nextChunk' = i
  /\ outbox' = TranscriptChunk(reqId, i, t)

LEMMA PostChunkHalts ==
  ASSUME IInv, Live, NEW t, NEW i, PostChunk(t, i)
  PROVE  /\ Blameless
         /\ PostsChunk(t, i) \/ (~Live' /\ outbox'.type # "TRANSCRIPT_CHUNK")
<1>1. CASE \E e \in SendFailures : WatchPhoneFail(NoMsg, timers, e)
  <2>1. PICK e \in SendFailures : WatchPhoneFail(NoMsg, timers, e)
    BY <1>1
  <2>2. Running /\ state \in AppStates /\ ~Settled
    BY DEF Live, Running, IInv, TypeOK, Settled
  <2>3. e \in WatchPhoneErrors /\ e # "PROTOCOL"
    BY SendFailuresAssumption DEF WatchPhoneErrors
  <2>4. Blameless
    BY <2>1, <2>2, <2>3, BridgeFailureHalts
  <2>5. /\ state' = "ERROR"
        /\ outbox' = NoMsg \/ \E s : outbox' = SessionEnd(reqId, s)
    BY <2>1, <2>2 DEF WatchPhoneFail, Fail, EnterError
  <2>6. NoMsg.type # "TRANSCRIPT_CHUNK" /\ \A s : SessionEnd(reqId, s).type # "TRANSCRIPT_CHUNK"
    BY DEF NoMsg, SessionEnd
  <2> QED
    BY <2>4, <2>5, <2>6 DEF Live
<1>2. CASE ~ \E e \in SendFailures : WatchPhoneFail(NoMsg, timers, e)
  BY <1>2 DEF PostChunk, PostsChunk, Transferring, Blameless
<1> QED
  BY <1>1, <1>2

\* Delivery of a message takes the transcript one chunk further, or ends the
\* run.
LEMMA DeliveredCases ==
  ASSUME IInv, OutboxSent
  PROVE  /\ Blameless /\ UNCHANGED <<reqId, used>>
         /\ \/ ~Live' /\ outbox'.type # "TRANSCRIPT_CHUNK"
            \/ /\ state = "DICTATING" /\ outbox = SessionBegin(reqId)
               /\ UNCHANGED state /\ outbox' = NoMsg
            \/ /\ Transferring /\ outbox = SessionBegin(reqId) /\ nextChunk = 0
               /\ PostsChunk(transcript, 0)
            \/ /\ Transferring /\ outbox = TranscriptChunk(reqId, nextChunk, transcript)
               /\ nextChunk + 1 < Len(transcript)
               /\ PostsChunk(transcript, nextChunk + 1)
            \/ /\ Transferring /\ outbox = TranscriptChunk(reqId, nextChunk, transcript)
               /\ nextChunk + 1 = Len(transcript) /\ outbox' = NoMsg
               /\ UNCHANGED state /\ watchPhone' = "AWAITING_SEND_START"
<1>1. Running /\ state \in AppStates /\ UNCHANGED <<reqId, used>> /\ outbox # NoMsg
  BY DEF OutboxSent, IInv, TypeOK
<1>2. /\ NoMsg.type # "TRANSCRIPT_CHUNK" /\ SessionBegin(reqId).type = "SESSION_BEGIN"
      /\ \A s : SessionEnd(reqId, s).type # "TRANSCRIPT_CHUNK"
      /\ \A t, i : TranscriptChunk(reqId, i, t).type = "TRANSCRIPT_CHUNK"
  BY DEF NoMsg, SessionBegin, SessionEnd, TranscriptChunk
<1>3. CASE state = "ERROR"
  <2>1. /\ UNCHANGED <<state, terminalStatus>>
        /\ outbox' = NoMsg \/ \E s : outbox' = SessionEnd(reqId, s)
    BY <1>3 DEF OutboxSent, BeginSent, ChunkSent, TrySendSessionEnd
  <2> QED
    BY <1>1, <1>2, <1>3, <2>1 DEF Live, Blameless
<1>4. state # "ERROR" => state = "DICTATING" \/ Transferring
  BY <1>1 DEF IInv, OutboxMatchesPhase, AppStates, Transferring, Running
<1>5. CASE state # "ERROR" /\ BeginSent
  <2>1. CASE Transferring
    <3>1. outbox = SessionBegin(reqId) /\ nextChunk = 0
      BY <1>2, <1>5, <2>1 DEF BeginSent, Transferring, IInv, OutboxMatchesPhase
    <3>2. PostChunk(transcript, 0) /\ Live
      BY <1>5, <2>1, <3>1 DEF BeginSent, Transferring, Live
    <3> QED
      BY <1>1, <2>1, <3>1, <3>2, PostChunkHalts
  <2>2. CASE state = "DICTATING"
    <3>1. outbox = SessionBegin(reqId)
      BY <1>1, <2>2 DEF IInv, OutboxMatchesPhase
    <3>2. UNCHANGED <<state, terminalStatus>> /\ outbox' = NoMsg
      BY <1>5, <2>2 DEF BeginSent
    <3> QED
      BY <1>1, <2>2, <3>1, <3>2 DEF Blameless
  <2> QED
    BY <1>4, <1>5, <2>1, <2>2
<1>6. CASE state # "ERROR" /\ ChunkSent
  <2>1. Transferring
    BY <1>2, <1>4, <1>6 DEF ChunkSent, IInv, OutboxMatchesPhase
  <2>2. /\ outbox = TranscriptChunk(reqId, nextChunk, transcript)
        /\ nextChunk < Len(transcript) /\ nextChunk \in Nat /\ Len(transcript) \in Nat
    BY <1>2, <1>6, <2>1 DEF ChunkSent, Transferring, IInv, OutboxMatchesPhase, TypeOK
  <2>3. CASE nextChunk + 1 < Len(transcript)
    <3>1. PostChunk(transcript, nextChunk + 1) /\ Live
      BY <1>6, <2>1, <2>3 DEF ChunkSent, Transferring, Live
    <3> QED
      BY <1>1, <2>1, <2>2, <2>3, <3>1, PostChunkHalts
  <2>4. CASE ~ (nextChunk + 1 < Len(transcript))
    <3>1. nextChunk + 1 = Len(transcript)
      BY <2>2, <2>4
    <3>2. AwaitSendStart
      BY <1>6, <2>1, <2>4 DEF ChunkSent, Transferring
    <3>3. CASE WatchPhoneFail(NoMsg, timers, "TRANSFER")
      <4>1. "TRANSFER" \in WatchPhoneErrors /\ ~Settled
        BY <2>1 DEF WatchPhoneErrors, Transferring, Settled
      <4>2. Blameless
        BY <1>1, <3>3, <4>1, BridgeFailureHalts
      <4>3. /\ state' = "ERROR"
            /\ outbox' = NoMsg \/ \E s : outbox' = SessionEnd(reqId, s)
        BY <3>3, <4>1 DEF WatchPhoneFail, Fail, EnterError
      <4> QED
        BY <1>1, <1>2, <4>2, <4>3 DEF Live
    <3>4. CASE ~WatchPhoneFail(NoMsg, timers, "TRANSFER")
      <4>1. /\ watchPhone' = "AWAITING_SEND_START" /\ outbox' = NoMsg
            /\ UNCHANGED <<state, terminalStatus>>
        BY <3>2, <3>4 DEF AwaitSendStart
      <4> QED
        BY <1>1, <2>1, <2>2, <3>1, <4>1 DEF Blameless
    <3> QED
      BY <3>3, <3>4
  <2> QED
    BY <2>3, <2>4
<1> QED
  BY <1>3, <1>5, <1>6 DEF OutboxSent

\* The transcript is there: its first chunk goes, or waits for SESSION_BEGIN.
LEMMA DictationCases ==
  ASSUME IInv, NEW t, DictationSucceeds(t)
  PROVE  /\ Blameless /\ UNCHANGED <<reqId, used>> /\ state = "DICTATING"
         /\ \/ ~Live' /\ outbox'.type # "TRANSCRIPT_CHUNK"
            \/ beginDelivered /\ PostsChunk(t, 0)
            \/ Transferring' /\ UNCHANGED outbox /\ outbox = SessionBegin(reqId)
<1>1. state = "DICTATING" /\ Live /\ UNCHANGED <<reqId, used>>
  BY DEF DictationSucceeds, Live
<1>2. CASE FirstChunkMayGo
  BY <1>1, <1>2, PostChunkHalts DEF DictationSucceeds, FirstChunkMayGo
<1>3. CASE ~FirstChunkMayGo
  <2>1. outbox = SessionBegin(reqId)
    BY <1>1, <1>3 DEF FirstChunkMayGo, IInv, OutboxMatchesPhase
  <2> QED
    BY <1>1, <1>3, <2>1 DEF DictationSucceeds, Transferring, Blameless
<1> QED
  BY <1>2, <1>3

\* A run that starts has sent nothing.
LEMMA LaunchCases ==
  ASSUME IInv, NEW r \in ReqIds, LaunchAborted(r) \/ Launch(r)
  PROVE  /\ Blameless /\ r \notin used /\ used' = used \cup {r} /\ state = "OFF"
         /\ \/ Halts
            \/ /\ state' = "DICTATING" /\ reqId' = r /\ ~beginDelivered'
               /\ outbox'.type # "TRANSCRIPT_CHUNK"
<1>1. /\ NoMsg.type # "TRANSCRIPT_CHUNK" /\ SessionBegin(r).type # "TRANSCRIPT_CHUNK"
      /\ \A s : SessionEnd(r, s).type # "TRANSCRIPT_CHUNK"
  BY DEF NoMsg, SessionBegin, SessionEnd
<1>2. state = "OFF" /\ r \notin used /\ used' = used \cup {r}
  BY DEF LaunchAborted, Launch
<1>3. CASE LaunchAborted(r)
  BY <1>2, <1>3 DEF LaunchAborted, bridgeVars, deliveryVars, Halts, Blameless
<1>4. ASSUME NEW ready, NEW bridged, NEW held \in {NoMsg, SessionBegin(r)}, NEW status,
             LaunchFails(r, ready, bridged, held, status), status # "ERROR_PROTOCOL"
      PROVE  Halts /\ Blameless
  <2>1. /\ state' = "ERROR" /\ terminalStatus' = status
        /\ outbox' \in {held, NoMsg} \/ \E s : outbox' = SessionEnd(r, s)
    BY <1>4 DEF LaunchFails, EnterError
  <2> QED
    BY <1>1, <1>4, <2>1 DEF Halts, Live, Blameless
<1>5. CASE Launch(r)
  <2>1. \A e \in {"CONNECTIVITY", "TRANSFER"} \cup SendFailures :
          WatchPhoneStatus[e] # "ERROR_PROTOCOL"
    BY SendFailuresAssumption DEF WatchPhoneStatus
  <2>2. \/ \E ready, bridged, held, status :
             /\ LaunchFails(r, ready, bridged, held, status) /\ status # "ERROR_PROTOCOL"
             /\ held \in {NoMsg, SessionBegin(r)}
        \/ /\ state' = "DICTATING" /\ outbox' = SessionBegin(r)
           /\ terminalStatus' = "NORMAL" /\ reqId' = r /\ beginDelivered' = FALSE
    BY <1>5, <2>1 DEF Launch
  <2> QED
    BY <1>1, <1>2, <1>4, <2>2 DEF Blameless
<1> QED
  BY <1>2, <1>3, <1>5

=============================================================================
