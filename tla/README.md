# TLA+ models of the dictation-to-WebSocket Pebble app

These modules model the program in `src/`: a watchapp that dictates a
transcript, PebbleKit JS on the phone that forwards it to a WebSocket server,
the Python server, and the messages between them. TLC checks the models on small
instances; TLAPS proves the safety of the watchapp, of PebbleKit JS, of the two
joined by a link that delays and loses, of the message dialog and of the Python
server, the deadlines of both ends, the transfers of texts byte by byte, and the
uniqueness of request identifiers, for every instance. Paths below are relative
to the repository root, line numbers are those of `src/c/main.c` unless a file
is named.

## 1. The system

| Component | State it keeps | Operations | Correct when |
|---|---|---|---|
| Watchapp, `src/c/main.c` | `AppState`, two bridge contexts with their state and timers, the outbox message, the transcript and its chunk cursor, the response under assembly, terminal status | launch, dictation callback, outbox sent/failed, inbox received/dropped, four timers, buttons, deinit | every run settles and closes; each wait has its watchdog and only that one; what is displayed is whole; a failed run cleans up and tells the phone |
| Message dialog, `src/c/message_dialog.c` | layers, animations, the completion callback of the current transition | create, show status, show result, end or cancel a transition, destroy | a completion runs exactly when its own status is visible; the latest status is visible in the end; nothing of a cancelled transition survives |
| Coordinator, `src/pkjs/index.js` | `activeSession`, the AppMessage transport | `appmessage` listener, `startSession` | a new SESSION_BEGIN replaces the session and nothing of the old one leaks into it |
| Bridge session, `bridge_session.js` | `state`, `terminal`, the assembler, both bridges | handle a watch message, a server event, a delivery failure; fail; close | forwards one whole transcript and one terminal outcome |
| Watch bridge and transport, `watch_bridge.js` | queue, `busy`, owners, the result chunks being forwarded | enqueue, cancel, pump, completions | one message in flight, in order, none for a closed session |
| WebSocket bridge, `websocket_bridge.js`, and `bridge_timer.js` | `state`, socket, transcript, frames held back, handoff and result timers | open, set transcript, try send, handle frame, fail, close | the transcript is sent once, as soon as the socket is open, and only an awaited frame counts |
| Protocol helpers, `protocol.js` | the transcript assembler | parse, assemble, classify frames, split results | accept exactly the chunks of one complete message |
| Python server, `dictation_websocket_server.py` | a task per connection, exchanges and their futures, the queue and the set `pending` of the iterator | read and dispatch a frame, take, respond, cancel, close | one reply per request, in order, as the application decided; closing ends |

The watch and the phone interact by AppMessage only: SESSION_BEGIN,
TRANSCRIPT_CHUNK and SESSION_END upwards; SEND_STARTED, FAILURE and
SERVER_RESULT_CHUNK downwards, every one with the request identifier of the
run. Each side allows itself one unacknowledged message. The watch runs one
callback at a time in `app_event_loop`, the phone one JavaScript handler at a
time, so interleavings are those of callbacks, messages and timers.

What is hard: dictation and the delivery of SESSION_BEGIN end in either order;
SEND_STARTED races the watchdog that waits for it; the outbox is busy when a run
fails and SESSION_END is owed; the app is killed and started again while
messages and completions of the previous run are still on their way; a host
call throws, or a frame arrives, inside `send()`; a message is delivered but
its acknowledgement is lost; every allocation and timer registration may fail;
PebbleKit JS itself is ended; the watch and the phone time the same wait from
different moments; the watch counts text in bytes and the phone in UTF-16 code
units; a second status cuts into the transition of the first; the iterator is
closed while frames are read.
`PROJECT.json` lists each of these at its line.

## 2. The modules

| Module | What it is |
|---|---|
| `Protocol` | message shapes, status codes, division of a result into chunks |
| `Watch` | the watchapp against an arbitrary phone |
| `Phone` | PebbleKit JS against an arbitrary watch and server |
| `System` | `Watch` and `Phone`, each an INSTANCE, joined by the AppMessage link, with a server that answers or refuses |
| `Dictation` | abstract specification `System` implements: what a run of the app promises, without messages, timers or sessions |
| `Deadlines` | the durations of both ends' timers on a link of bounded delay |
| `Dialog` | `message_dialog.c` for any caller |
| `StatusScreen` | abstract specification `Dialog` implements: what its caller is told, and when |
| `Server` | the Python server, its clients and the application it serves |
| `Answering` | abstract specification `Server` implements: requests, decisions and replies, without tasks and futures |
| `Utf8` | the two programs' UTF-8 and UTF-16 operations, and what well-formed means by definition |
| `TranscriptTransfer` | a transcript from dictation to the phone's assembler, byte by byte |
| `ResultTransfer` | a response from its frame to the watch's buffer, in code units and bytes |
| `TextTransfer` | abstract specification both transfers implement |
| `RequestId` | the generation of request identifiers |
| `WatchProofs`, `PhoneProofs`, `SystemProofs`, `DeadlinesProofs`, `DialogProofs`, `ServerProofs`, `TranscriptProofs`, `ResultProofs` | theorems about the modules named; `SystemProofs` also about `RequestId` |
| `MC...` | the finite sets TLC uses for the module named |

**Pieces.** Text is a sequence of *pieces*; a piece is the whole code points one
chunk carries. TOTAL_BYTES counts pieces, and a text of `n` pieces travels as
`n` chunks (an empty response as one). Every comparison the code makes between
chunk index, chunk count, bytes so far and announced bytes is kept; how many
bytes a code point takes is not. `TranscriptTransfer` and `ResultTransfer` show
that the code finds such pieces.

**Watch.** One action per callback: `Launch` is `prv_init`, with one disjunct for
each of its failure exits; `DictationStatus`, `OutboxSent`, `OutboxFailed`,
`InboxReceived`, `InboxDropped`, `BackClick`, `ResultButtonDown`,
`ResultBackClick` and `Deinit` are the functions of those names;
`TranscriptDeliveryTimeout`, `WsRequestTimeout`, `ResultChunkTimeout` and
`ExitTimeout` are the timer callbacks. `Fail` is `prv_fail` with all it does:
cancel timers, free the data, stop dictation, send or owe SESSION_END, show the
status. A failing call is a disjunct enabled by `MayFail` or `SendFailures`.
`timers` is the set of AppTimer handles that are not NULL. `dialog` abstracts
`message_dialog.c` to what decides about exit: whether the terminal status is in
transition, visible, or the result is shown, or the window stack was popped.

**Phone.** The handlers call back and forth between four objects, so the state is
one record `phone` and each method an operator from that record to the next,
applied in the order of the calls (`SessionFail`, `ServerClose`, `Enqueue`,
`Pump`, ...). An action is an event: `Receive`, the socket's events, the two
timers, the completion of `sendAppMessage`. The argument `x` of an operator is
the set of host calls that throw in this handler; `f` is a frame delivered
inside `send()`. A session is identified by `serial`, which stands for object
identity in the comparisons of owners. `heard` and `phone.requests` are history.

**System.** The link keeps order, acknowledges a watch message on arrival, and
carries acknowledgements and the phone's messages in one stream to the watch;
so the acknowledgement of the last chunk precedes the SEND_STARTED it causes.
The code relies on this: SEND_STARTED in state TRANSFERRING is a protocol error
(809-814). Messages and acknowledgements may be lost; the sender is
then told that sending failed. The exit timer may outrun a message in the
outbox, and PebbleKit JS may be ended and started again (`PhoneRestarts`); both
count as losses. The phone outlives the app: `AppEnds` forgets the watch's
outbox, whatever is in `uplink`, the phone's session and its queue stay.

**Dictation.** A run listens, puts at most one question to the server, exactly
what was said, and shows the answer to that question or fails. The refinement
maps `phase` to the watchapp's `state`, `run` to `reqId`, `asked` to the frames
the phone passed to `send()`, `said` to the history `spoken`, and `shown` to the
response on display. A question may reach the server after its run ended, so
`Ask` is a separate step of any run that spoke.

**Deadlines.** In the modules above a timer may fire whenever it is armed. Here
`countdown` holds the time left to every armed timer and every message under
way, `Tick` takes one unit off all of them, and a timer fires at 0. The module
begins when the last transcript chunk reaches the phone and ends when the watch
settles; its actions are those of `Watch` and `Phone` without the failures that
no duration is about.

**Dialog.** Each function of `message_dialog.h` is an action, `SlidOut` and
`SlidIn` are the animation handler at the end of either half of a transition.
`ran` records which calls' completions ran. `StatusScreen` is what `Watch`
relies on in its `dialog` phases: a status that is not replaced is visible in
the end, and its completion runs at that moment.

**Server.** asyncio switches tasks only at an await, so an action is what a task
does from one await to the next: `ReadFrame` is `handle_frame` up to the await of
the application, `Resume` what follows, `Take` and `Respond` are the application
with an exchange, `Close` the `finally` block of `dictation_messages` up to
`wait_closed`, or `close()` of a server with a callback. The `websockets`
library is external. `future` is `DictationExchange._response`; `late` records
the exchanges created after the cancellation.

**Transfers.** `Grow`, `CountChunk` and `NoChunk` are single turns of the loops of
`prv_next_chunk_length` and `prv_prepare_chunks`, `SplitUtf8` of the loop of that
name; the comparisons of `prv_utf8_codepoint_size` and `utf8ByteLength` are kept
number by number, while `WellFormed`, `ToUtf8` and `ToUtf16` say by definition
what Unicode means. A transfer delivers the text whole, as a growing prefix of
whole characters, or refuses it before the receiver has any of it.

**RequestId.** A word is the pair of its 16-bit halves, the exclusive or a
constant operator with the two properties the argument needs. The clock may be
set at any time.

## 3. The runs

| Run | Question | Bounds |
|---|---|---|
| `watch` | is the watchapp consistent against any phone, with every failure allowed? Does every run settle, and every error that is shown close? | 2 identifiers, up to 3 chunks each way, chunk fields one beyond every limit |
| `watch_stuck` | does every error close? No: section 5 | 1 identifier, 2 chunks |
| `phone` | does the phone keep session, socket, timers and transport consistent, against any watch and server, with host calls that throw? Does it end its sessions and let go of the server? | 2 sessions, 2 identifiers, 2 chunks, responses up to 3 pieces |
| `system_restart` | does a run ask only what was said in it and show only its own answer, when the app may end at any moment and everything is delayed? Do the ends ever wait for each other? Does the system implement `Dictation`? | 2 runs, transcripts of 1 and 2 chunks, 1 loss |
| `system_faults` | do losses make one correct end accuse the other, or duplicate a request? Without loss, is the phone released however the run ends? | 1 run, 2 losses |
| `deadlines` | which side's timer settles a run, and when? | units of 250 ms, link delays up to 1.25 s, 3 result chunks |
| `dialog` | what becomes of a status that is replaced, cut off or refused? Does the dialog implement `StatusScreen`? | 4 calls, 2 texts |
| `server` | is every dictation decided once, told in order, and answered? Does closing end? Does the server implement `Answering`? | 2 clients, 2 frames each and 3 in all |
| `server_late` | does closing the iterator always end? No: section 5 | 1 client, 1 frame |
| `transcript_bytes` | does a transcript arrive whole, or is it refused before the first chunk? | every string of 2 bytes, and of 3 or 4 around the decoder's comparisons; sentences of up to 3 characters of all sizes; chunks of 0 to 5 bytes |
| `result_units` | the same of a response; are chunks full, and does the watch take what the phone takes? | every string of 2 code units around the comparisons, up to 5 units of every kind; limit 11 bytes, chunks of 4 |
| `request_id` | do two runs ever share an identifier? | 2 launches, clocks around every wrap |

*Why these are enough.* Three chunks are the least with a first, a middle and a
last one. The watch's state does not depend on the content of text, so one piece
value serves; two identifiers give messages for this run and another. On the
phone a session is only ever compared with its successor, so two suffice; two
sessions with one identifier are a repeated SESSION_BEGIN. In the system two
runs with different transcripts show any mixing; two losses allow a message and
its acknowledgement, or both directions. Identifiers are only compared, so the
runs of `System` may be exchanged (`Symmetry`); the status of a failed dictation
is only passed on, so `system_restart` takes one of them (`DictationErrors`). In
`Deadlines` the durations are the real ones, and 250 ms divides them all; 1.25 s
is the longest delay for which a completion and the next chunk fit the watch's
three seconds, so what `PhoneDecides` says of chunks is a statement about links
of that quality. In the transfers the limits are scaled down so that every
character size can straddle a chunk boundary and the total limit is met, missed
and exceeded by one; the byte and code-unit values are the real ones. Uniqueness
of identifiers relates two launches. Two clients are the least whose frames
interleave. The watch's allocations and sends and the phone's host calls fail in
`watch` and `phone`, where the other end is arbitrary, not in the runs of
`System`. `MaxSessions`, `MaxLosses`, `MaxChunks`, `MaxCalls`, `MaxFrames`,
`MaxTotal`, `MaxLaunches` and `Delay` bound the environment; they are not limits
of the code.

*What the properties say.* On the watch, `WatchdogArmed`: the armed timers are
exactly the watchdog of the phase; `NeverStranded`: something pending will move
a request on; `BridgesAgree` and `OutboxMatchesPhase`: both bridge contexts and
the outbox tell one story; `ErrorCleansUp`: a failed run keeps nothing and its
owed SESSION_END waits only for an earlier message; `ResultIsWhole`: no partial
result is displayed; `SendsInOrder`, `TerminalIsFinal`: what a step may not do;
`RunsEnd`: what must happen.

On the phone, `BridgesAgree`, `NoTranscriptLeftBehind` (no lost wake-up between
`setTranscript` and `onopen`), `OutgoingWellFormed` (SEND_STARTED before one
terminal message, no idle queue), `OneWholeRequest`, `LateCompletionHarmless`,
`SessionsEnd`. In the system, `OneExactRequestPerRun`, `NoProtocolError`,
`AwaitsOnlyWhatWasSent`, `NobodyWaitsInVain` (without loss, a waiting request
always has a step other than a time-out that takes it further: the two ends
never deadlock), `PhoneReleased`, and the refinement, by which a run shows
nothing but the answer to its own question.

In `Deadlines`, `PhoneDecides`: without loss the watch shows what the phone
reports, except for a late hand-over. The watch's 62 seconds never overtake the
phone's 60; both sides give the hand-over two seconds from different moments,
and a phone that hands over in the time left after one delay is never given up
on. `SettlesInTime` holds whether messages are lost or not. In the dialog,
`AtRest`, and the refinement: a completion runs once, for the latest status, when
that is on the screen. In the server, `NothingForgotten` (the set `pending` is
exactly what tasks wait for), `CloseEndsUnlessLate`, `DictationsAnswered`, and the
refinement. In the transfers, `RefusesTheUnsendable`, `ChunksAreWhole`,
`ChunksAreFull`, `RejectsTheOversized`, and the refinement: two loops over the
text agree on the number of chunks, and the lengths the two programs compute
agree. `UniqueInWindow` is the requirement on identifiers; the watch's own clock
measures its twelve hours, and a clock set by more than that between two launches
is not covered. That no identifier is 0 is the guard in 287-289, and no property. In
`System`, `Dialog`, `Server`, `Deadlines` and the transfers the type invariant is
a conjunct of another invariant.

Deadlock is checked for the phone, the dialog, the transfers, the identifiers
and the deadlines. It is not for the watch, the system and the server: after the
last identifier is used and the app has ended, or the server has closed, nothing
more need happen.

## 4. Fairness

*Watch*: weak fairness of the dictation callback, of the outbox callbacks (the
firmware reports every message as sent or failed), of each timer, of the end of
a transition, and of `prv_deinit` once the window stack is empty. Nothing is
assumed of the phone, the user, or the outcome of any of these callbacks: a
silent phone is allowed, and that is the point of `RunsEnd`.

*Phone*: weak fairness of the two timers. The second half of `SessionsEnd` adds,
as its hypothesis `CallsBack`, that `sendAppMessage` calls one of its callbacks,
which the host promises; the code has no timer of its own against a missing one.
Its first half, that the server is let go of, does without. Socket, server and
watch may fall silent.

*System*: the watch's and the phone's, and that the link eventually carries what
it does not lose. `PhoneReleased` speaks of executions in which nothing is
lost, and the exit timer counts as a loss when it outruns a message in the
outbox: the app may then end with SESSION_END unsent, and the phone, which has
no timer while it receives a transcript, keeps its session until the next
SESSION_BEGIN.

*Dialog*: a scheduled animation ends. *Server*: asyncio runs every task that is
ready, and the library ends its closing handshakes (it has a timeout for them);
that the application takes and answers exchanges is the hypothesis
`ApplicationAnswers` of `DictationsAnswered` and of the second half of
`CloseEndsUnlessLate`. *Transfers*: code runs on, and AppMessage delivers; its
failures are in `Watch`, `Phone` and `System`. `Deadlines` needs no fairness:
its properties are about clock values.

## 5. Where the code and its documents differ

Two differences are runs that TLC finds violated:

- `watch_stuck`: if the request timer cannot be registered on SEND_STARTED,
  the handler fails the request and then, without returning, sets the status
  "Thinking..." (825-830). That cancels the transition whose completion arms the
  exit timer: the app stays in ERROR. The Back handler does nothing in that
  state (1025-1034), so only the system can end the app. `RunsEnd` says
  that every other error does close.
- `server_late`: closing the iterator cancels what is pending and then awaits
  `wait_closed()` (`dictation_websocket_server.py` 442-446). A dictation read
  after the cancellation creates an exchange that nobody can take or cancel; its
  handler never returns and neither does `wait_closed()`.

Others the models contain, without a run of their own:

- The result vibration is played before the result is shown (634); if the view
  or the exit timer cannot be created the run ends in an error that has
  vibrated, which section 6.1 of the specification excludes.
- `prv_inbox_dropped` (884-888) sets the watch/phone bridge to FAILED even when
  the result is on display and `prv_fail` ignores the failure.
- A transcript completed while the socket is closing waits for `onclose` or the
  handoff timeout (`websocket_bridge.js` 97-104); section 9.1 says it fails
  immediately. So `NoTranscriptLeftBehind` excepts a closing socket; that the wait
  has its timer and ends is `BridgesAgree` and `SessionsEnd`.
- A response with U+0000 satisfies section 9.3 and is forwarded by the phone,
  but the watch requires `strlen` to be the whole chunk (590): the run fails.
  `ImplementsTransfer` excepts such responses, and no others.
- `respond(success, response)` wraps its first argument, so
  `respond(ServerResult(...))`, as README.md:84 and a test write it, makes a
  result whose `success` is no boolean; the client gets `invalid_handler_result`.
- README.md:15 gives the server 20 seconds; the code (`index.js` 10) and section
  10.2 of the specification wait 60.

## 6. What is proved

TLC checks a small instance, these theorems hold of every one.

| Module | Theorem | Statement |
|---|---|---|
| `WatchProofs` | `InvariantHolds` | the inductive invariant `IInv` |
| | `TypesHold` | `TypeOK` |
| | `WatchdogAlwaysArmed` | `WatchdogArmed` |
| | `RequestNeverStranded` | `NeverStranded` |
| | `ContextsAgree` | `BridgesAgree` |
| | `OutboxHoldsPhaseMessage` | `OutboxMatchesPhase` |
| | `ErrorAlwaysCleansUp` | `ErrorCleansUp` |
| | `DisplayedResultIsWhole` | `ResultIsWhole` |
| | `EverythingSentInOrder` | `SendsInOrder`, an action property |
| | `OutcomeIsFinal` | `TerminalIsFinal`, an action property |
| `PhoneProofs` | `Invariance` | the inductive invariant `IInv` |
| | `TypeCorrect` | `TypeOK` |
| | `BridgesStayTogether` | `BridgesAgree` |
| | `TranscriptsAreTakenUp` | `NoTranscriptLeftBehind` |
| | `OutgoingInOrder` | `OutgoingWellFormed` |
| | `RequestsAreWhole` | `OneWholeRequest`, an action property |
| | `LateCompletionsAreHarmless` | `LateCompletionHarmless`, an action property |
| `SystemProofs` | `RequestsAreExact` | `OneExactRequestPerRun` |
| | `AwaitedWasSent` | `AwaitsOnlyWhatWasSent` |
| | `DictationIsImplemented` | `ImplementsDictation`: `System` refines `Dictation` |
| | `NobodyIsAccused` | `NoProtocolError`, assuming `AnswersFit` |
| | `IdentifiersAreUnique` | `UniqueInWindow` of `RequestId` |
| `DialogProofs` | `Invariance` | the inductive invariant `IInv` |
| | `DialogComesToRest` | `AtRest` |
| | `DialogSimulatesScreen` | every step of `Dialog` is a step of `StatusScreen` or a stutter |
| `ServerProofs` | `Invariance` | the inductive invariant `IInv` |
| | `TheSetIsComplete` | `NothingForgotten` |
| | `ServerAnswers` | `ImplementsAnswering`: `Server` refines `Answering` |
| `DeadlinesProofs` | `Invariance` | the inductive invariant `IInv` |
| | `EveryRunSettles` | `SettlesInTime` |
| | `PhoneIsAuthoritative` | `PhoneDecides`, assuming `Margins` |
| `TranscriptProofs` | `Invariance` | the inductive invariant `IInv` |
| | `TransferTypes` | `TypeOK` |
| | `RefusesExactly` | `RefusesTheUnsendable` |
| | `WholeChunks` | `ChunksAreWhole` |
| `ResultProofs` | `Invariance` | the inductive invariant `IInv` |
| | `TransferTypes` | `TypeOK` |
| | `RefusesTheOversized` | `RejectsTheOversized` |
| | `FullChunks` | `ChunksAreFull` |

*Assumptions.* But for `Margins` and `AnswersFit`, only those the modules make on their constants,
which TLC evaluates in every run: that `NoId` is no identifier, that bounds are
natural numbers, that the sets of failures are sets of failures, that what is
received has the shapes the case split lists (`InboxAssumption`,
`WatchInboxAssumption`, `FramesAssumption`; a message that has none of them is
`MALFORMED`), that durations are positive, and `XorAssumption`: exclusive or with
one word is injective, and 0 only for equal words. Bounds such as `MaxSessions`
or `MaxTotal` are arbitrary, so the theorems do not depend on them. `Margins` is
about the durations against the delay of the link: the phone's time for a result
and one delay are less than the watch's time for it, and so are three delays;
two delays are less than the watch's time for a chunk. With the code's 60, 62
and 3 seconds that is any delay below 1.5 seconds. Above it the watch does give
up on results that are on their way. `AnswersFit` says that no transcript is
longer than `MaxResponse`: the server's result is the transcript, and the phone
rightly takes a longer one for a violation of the protocol. The runs' transcripts
satisfy it.

*Watch.* `IInv` is the conjunction of the seven invariants; they hold each other
up. `NeverStranded` needs to know that in TRANSFERRING the outbox is occupied
(`OutboxMatchesPhase`) and that every later phase has its timer
(`WatchdogArmed`). `WatchdogArmed` survives a result chunk only because the
phone/server phase agrees with the watch's (`BridgesAgree`), and a dialog
transition only because no transition is pending outside ERROR.
`OutboxMatchesPhase` keeps the cursor within the transcript; without it the
chunk `PostChunk` builds would have no type. `ErrorCleansUp` needs to know which
message can occupy the outbox when `prv_fail` is called. Most steps rest on a
few lemmas: `FailKeepsIInv` (whatever step calls `prv_fail` restores the
invariant, settled or not), `PostChunkKeepsIInv`, `ExtendedResponse` (the type
of a response with one more chunk) and `ScreenChangeKeepsIInv`. One lemma per
action follows, and `NextKeepsIInv` combines them. The action properties follow
from it step by step; `OutcomeIsFinal` uses `SettledFail`: in a settled run
`Fail` changes nothing the outcome consists of.

*Phone.* A handler is a composition of operators on the record `phone`, so the
invariant is a predicate of a record too, and there is a lemma for what each
operator makes of a record that satisfies it. `Sound` has three parts. `Core`:
what is in flight and queued, phase by phase; without it a completion could find
`payloads` of another phase, and "one terminal message" would not be inductive.
`Agree`: session, server bridge, socket, timers and transcript tell one story.
`Prompt`: a transcript that waits, with the bridge ready, waits for a socket that
is closing. `Heard` relates the assembler to the history of chunks; that their
concatenation is the transcript is preserved by one more chunk
(`ConcatenatesMore`) and used when the request goes out (`HeardHands`). The
events then fall into the few ways in which they can end, and the history and
both action properties are shown of those. `Others`, the recursive function that
cancels queue entries, is reasoned about by the least index at which a claim
fails (`LeastNumber`), because induction itself is out of the provers' reach.

*System.* The proofs stand on those of the two ends: `SystemProofs` instantiates
`WatchProofs` and `PhoneProofs`, shows that `System` calls the same handlers
(`SameWatch`, `SamePhone`), and takes both inductive invariants over. What they
leave open is what crosses the link, in two conjuncts. `Carried` follows the
words from the microphone to the socket. Whatever has an identifier has one of a
run that was started (`Known`); a SESSION_BEGIN is under way once, and not for a
request already made (`BeginsOnce`); every chunk, in the outbox, on the link, or
heard by the phone, quotes what was spoken in its run (`TrueToSpeech`); no two
requests have one identifier (`Distinct`). `BeginsOnce` is the part without which
the rest falls: a second SESSION_BEGIN of a run would open a second session, and
a second request. `Answered` follows the answer back. A SEND_STARTED or result
chunk, in the phone's queue, in flight or on the link, is of a request that was
made, and a result chunk is the piece of that run's words its index names
(`TellsTheTruth`); what the watch has assembled is the beginning of what was
spoken (`HearsTheTruth`). `RequestsAreExact` is a consequence of `Carried`,
`AwaitedWasSent` of `Answered`.

`DictationIsImplemented` goes action by action: each step of `System` is a step
of `Dictation` or leaves its variables as they are. Most are of the second kind,
which `WatchProofs` provides for its callbacks as one predicate (`Steady`: what a
callback may do to the outbox, the texts and the phase), and `PhoneProofs` for
the phone's handlers (`EventTells`: which messages a handler may add to those
queued). The steps that count are the frame passed to `send()`, which is `Ask`
because `OneWholeRequest` and `TrueToSpeech` make it the words of a run that has
not asked, and the last result chunk, which is `Show` because the watch then
holds the whole of a text it holds a beginning of. No fairness and no bound on
losses is assumed, and the app and PebbleKit JS may end at any moment.

`NobodyIsAccused` rests on a third conjunct, `Agreed`: each end is ready for
whatever the other will tell it. It does not enumerate where the messages can be
in each pair of phases. It collects what the watch expects, the requests whose
SEND_STARTED (`Starts`) and the result chunks (`Chunks`) it would take for
correct if they came after the acknowledgements on their way; a run that is over
takes anything. `Aligned` says of the phone that the first message in its line is
among these, and `Taken` what the watch must expect when that one was delivered.
`PhoneProofs` preserves `Aligned` by every handler for any two such sets, knowing
nothing of the watch, and the watch's steps only have to say how the sets change:
they grow, or lose the request whose message just arrived (`Follows`). In the
other direction, each chunk in the uplink follows the message before it, the
first of them what the assembler expects (`UplinkFits`), and the outbox continues
the last (`OutboxFits`). Two clauses carry the races. The last chunk makes the
watch ready for SEND_STARTED as soon as it is sent (`LastSent`), although it
learns of the delivery later: the acknowledgement precedes SEND_STARTED in the
stream (`Downlinked`), so nothing overtakes it. A message that a restarted
PebbleKit JS left behind may still arrive, and the new phone is `Aligned` even
without what the watch expects of that message's request (`Coming`).

*Dialog.* `AtRest` is not inductive. `Coherent` adds that a transition carries
the status and the completion of the latest request, and that once the text
slides in it is that status already; this is what makes the end of a transition
the step of `StatusScreen` that completes the latest call.

*Server.* `NothingForgotten` survives a new frame only if the frame's number is
new. The invariant numbers the frames of a connection on from the one being
handled, bounds the numbers of replies and exchanges by it, and states that a
connection that has not begun has no task. The step that asks, `ReadFrame` of a
dictation, needs the numbering again, because `Answering` asks in order; the
step that tells, `Resume`, needs that no reply to the current frame was sent.
Closing is one step of the abstract specification although it cancels any number
of futures.

*Deadlines.* A countdown changes with every tick, the time at which it is over
(`Due`) does not. The invariant bounds these times, counted from the beginning
or from the hand-over, and says which timers are armed and where each message
can be in each pair of states. `EveryRunSettles` is the sum of the bounds;
`PhoneIsAuthoritative` compares those of the two ends: under `Margins` the
message is always due before the watchdog that waits for it.

*RequestId.* The inductive invariant says that each launch's record is what
`Identifier` makes of one clock reading. The low half of an identifier is the
low half of the seconds, which repeats only after 65,536 of them, so identifiers
of one window that agree come from one second (`LowHalfTellsSeconds`); the high
half then tells the milliseconds. What remains is the substitute for 0:
`SmallValueMeansEarly` confines it to a clock that was never set, the exception
`UniqueInWindow` states.

*Transcript.* For any bytes, any outbox and any overhead. The watch never computes
a scalar value: it compares up to four bytes with the bounds of some intervals.
That these comparisons accept exactly the encodings of scalar values is
`FormEncodes` and `EncodedForm`, arithmetic on the bits of one character. From
them follow the two lemmas the rest uses: what is measured is a character
(`SizedIsEncoded`; more bytes that continue it may follow, which only the next
measurement finds), and a character of a well-formed text is measured
(`EncodedIsSized`). The walk over the text needs no induction. `Walked(n)` says of
every byte up to `n` that can start a character that one is measured there, that
it fits a chunk, and that it ends where another starts or at `n`; each turn of
the loop adds one instance of that (`WalkStep`). At the end it says that the
transcript can be sent (`WalkEnd`); and a walk over one that can is always where
a character starts (`WalkGoesOn`), so it does not get stuck. The second walk, of
`prv_send_next_chunk`, goes from boundary to boundary of a transcript known to be
well-formed, and the text between two boundaries is well-formed
(`WellFormedPart`): it may cut where the first walk did not, and its chunks would
still be whole. `Measures` relates chunk_capacity to what fits, both ways:
it is never too large for the outbox, and never too small for a character that
could be sent.

*Result.* For any code units and any limits. The properties speak of the encoding,
the code of a count that adds up code units. `CountsBytes` shows that the count is
the length of the encoding: both are recursive functions over the units
(`LengthUnfolds`, `EncodingUnfolds`; that such a function exists is itself shown
by the least number for which it would not), and at the least unit where the two
differed, a pair would have been written where it ends and counted half by half.
`CharacterAt` and `PairedJoined` make whole characters of a text without lone
halves, and such a text again of whole characters that are joined. The invariant
then follows `splitUtf8` turn by turn: what has been read ends where a character
does (`AtCharacter`), and every chunk is within the limit and could not have taken
the first character of the next (`Divided`, kept by `SplitStep`: a character that
joins a chunk leaves that chunk's first character alone). `WatchSound` bounds the
buffer by the total that was announced, `OnLink` says that what is on its way
are bytes.

## 7. Model-checked only

- The liveness properties (`RunsEnd`, `ErrorCloses`, `SessionsEnd`,
  `PhoneReleased`, `CloseEndsUnlessLate`, `DictationsAnswered`) and, for the same
  reason, the fairness half of `ImplementsStatusScreen`: fairness and leads-to
  under it need ENABLED, which the provers do not handle.
- `NobodyWaitsInVain`, which is about ENABLED itself.
- That the texts that arrive are those that were sent (`ImplementsTransfer` of
  both transfers): that one coding undoes the other would have to be proved by
  induction over text; `transcript_bytes` and `result_units` check it on every
  boundary value instead.

## 8. Not modelled, and why

- Drawing, layout, wording, logging and the server's command line have no
  bearing on the properties.
- JSON syntax and the types of fields are a case split: a frame or message is
  usable, or it is of one of the kinds the code rejects.
- A transcript of `UINT32_MAX` bytes or chunks, at which `prv_prepare_chunks`
  gives up: dictation cannot return one.
- SESSION_END in `Deadlines`: nothing the phone does after the watch failed
  changes what the watch shows; `System` has it.
- A session kept because the app was killed, or SESSION_END lost, while the
  phone still receives the transcript: it stays until the next SESSION_BEGIN.
  The code has no timer for it, and the specification (4.2) leaves recovery from
  restarts out; the model shows that such a session harms no later run.
- Duplicated delivery by AppMessage: neither end is written for it and the
  transport does not do it.
- Tests, build files and packaging have no behaviour of their own.

## 9. Plan

1. The safety half of `ImplementsTransfer`, from a lemma on the encoding of two
   joined texts.
