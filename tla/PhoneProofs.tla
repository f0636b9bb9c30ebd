---------------------------- MODULE PhoneProofs ----------------------------
(***************************************************************************)
(* Proofs about PebbleKit JS, for any watch, any server and any choice of  *)
(* host calls that throw.                                                  *)
(*                                                                         *)
(* The invariant is of the record `phone`, so that it can be followed      *)
(* through the methods an event calls one after the other: Sound(p) says   *)
(* how session, server bridge, timers and transport fit together, and is   *)
(* shown of what each operator of Phone makes of a sound phone.  Heard     *)
(* ties the assembler to the chunks that really arrived, which is what     *)
(* makes the request a whole transcript.                                   *)
(*                                                                         *)
(* Each event ends in one of a few ways (Ends, Hands, Begins, Collects,    *)
(* Completes); the history and the action properties are shown of these.   *)
(***************************************************************************)
EXTENDS Phone, WellFoundedInduction, TLAPS

-----------------------------------------------------------------------------
(* Numbers and sequences.                                                  *)

\* Every set of natural numbers has a least element.
LEMMA LeastNumber ==
  ASSUME NEW T \in SUBSET Nat, T # {}
  PROVE  \E n \in T : \A m \in T : n <= m
<1> DEFINE R == OpToRel(<, Nat)
<1>1. IsWellFoundedOn(R, Nat)
  BY NatLessThanWellFounded
<1>2. \A m, n \in Nat : m < n => <<m, n>> \in R
  BY DEF OpToRel
<1> HIDE DEF R
<1>3. PICK n \in T : \A m \in T : ~ (<<m, n>> \in R)
  BY <1>1, WFMin
<1>4. \A m \in T : n <= m
  <2> SUFFICES ASSUME NEW m \in T PROVE n <= m
    OBVIOUS
  <2>1. m \in Nat /\ n \in Nat /\ ~ (m < n)
    BY <1>2, <1>3
  <2> QED
    BY <2>1
<1> QED
  BY <1>4

LEMMA AppendFacts ==
  ASSUME NEW S, NEW s \in Seq(S), NEW e \in S, NEW t, t = Append(s, e)
  PROVE  /\ t \in Seq(S) /\ t # <<>> /\ Len(t) = Len(s) + 1
         /\ DOMAIN t = 1 .. Len(s) + 1
         /\ t[Len(s) + 1] = e /\ \A i \in 1 .. Len(s) : t[i] = s[i]
  OBVIOUS

LEMMA SeqMonotone ==
  ASSUME NEW S, NEW T, S \subseteq T, NEW s \in Seq(S)
  PROVE  s \in Seq(T)
  OBVIOUS

LEMMA SeqElement ==
  ASSUME NEW S, NEW s \in Seq(S), NEW i \in DOMAIN s
  PROVE  s[i] \in S
  OBVIOUS

LEMMA TailOfOne ==
  ASSUME NEW S, NEW s \in Seq(S), Len(s) = 1
  PROVE  Tail(s) = <<>>
<1>1. Tail(s) \in Seq(S) /\ Len(Tail(s)) = 0
  OBVIOUS
<1>2. \A t \in Seq(S) : Len(t) = 0 => t = <<>>
  OBVIOUS
<1> QED
  BY <1>1, <1>2, Zenon

\* cancel() empties a queue that holds entries of one session only.
LEMMA OthersOfOwn ==
  ASSUME NEW queue \in Seq(Entries), NEW owner,
         \A i \in DOMAIN queue : queue[i].owner = owner
  PROVE  Others(queue, owner) = <<>>
<1> DEFINE Step(f, n) ==
      IF n = 0 THEN <<>>
      ELSE IF queue[n].owner = owner THEN f[n - 1]
      ELSE Append(f[n - 1], queue[n])
    F == CHOOSE f : f = [n \in 0 .. Len(queue) |-> Step(f, n)]
    Empty == [n \in 0 .. Len(queue) |-> <<>>]
<1>1. Len(queue) \in Nat /\ DOMAIN queue = 1 .. Len(queue)
  OBVIOUS
<1>2. Empty = [n \in 0 .. Len(queue) |-> Step(Empty, n)]
  BY <1>1
<1>3. F = [n \in 0 .. Len(queue) |-> Step(F, n)]
  <2> HIDE DEF Empty, Step
  <2> QED
    BY <1>2
<1>4. \A n \in 0 .. Len(queue) : F[n] = <<>>
  <2> SUFFICES ASSUME {n \in 0 .. Len(queue) : F[n] # <<>>} # {} PROVE FALSE
    OBVIOUS
  <2> DEFINE T == {n \in 0 .. Len(queue) : F[n] # <<>>}
  <2>1. PICK n \in T : \A m \in T : n <= m
    <3>1. T \in SUBSET Nat /\ T # {}
      BY SMTT(30), <1>1
    <3> HIDE DEF T
    <3> QED
      BY <3>1, LeastNumber
  <2>2. F[n] = Step(F, n)
    <3> HIDE DEF F, Step
    <3> QED
      BY <1>3
  <2> HIDE DEF F
  <2>3. n # 0
    BY <2>1, <2>2
  <2>4. n - 1 \in 0 .. Len(queue) /\ n - 1 \notin T /\ n \in DOMAIN queue
    BY <1>1, <2>1, <2>3
  <2> QED
    BY <2>1, <2>2, <2>3, <2>4
<1>5. Others(queue, owner) = F[Len(queue)]
  BY DEF Others
<1> QED
  BY <1>1, <1>4, <1>5

-----------------------------------------------------------------------------
(* What the operators of Phone make of a phone.                            *)

SameSession(p, q) ==
  q.serial = p.serial /\ q.id = p.id /\ q.requests = p.requests

SameBridges(p, q) ==
  /\ q.state = p.state /\ q.assembler = p.assembler
  /\ q.server = p.server /\ q.socket = p.socket /\ q.timers = p.timers
  /\ q.transcript = p.transcript /\ q.payloads = p.payloads

SameTransport(p, q) == q.inflight = p.inflight /\ q.queue = p.queue

\* The WebSocket bridge has let go of everything.
ServerShut(q) ==
  q.server = "CLOSED" /\ q.socket = "none" /\ q.timers = {} /\ q.transcript = <<>>

\* Nothing is left of a session.
Shut(q) ==
  /\ q.state = "CLOSED" /\ ServerShut(q)
  /\ q.assembler = NoTranscript /\ q.payloads = <<>> /\ q.queue = <<>>

\* The transport serves the active session, perhaps after a message of an
\* earlier one.
Transport(p) ==
  /\ p.inflight = NoEntry => p.queue = <<>>
  /\ p.inflight.owner <= p.serial
  /\ \A i \in DOMAIN p.queue : p.queue[i].owner = p.serial

\* An entry of the active session.
EntryOf(p, m) == [owner |-> p.serial, msg |-> m]

USE DEF Texts

LEMMA EntryTypes ==
  /\ NoEntry \notin Entries /\ NoEntry.owner = 0
  /\ \A e \in Entries : e.owner \in Nat \ {0} /\ e.msg \in PhoneMessages
  /\ NoTranscript \in [text : Texts, count : Nat, total : Nat, next : Nat]
<1>1. NoEntry.owner = 0
  BY DEF NoEntry
<1>2. \A e \in Entries : e.owner \in Nat \ {0} /\ e.msg \in PhoneMessages
  BY DEF Entries
<1>3. NoEntry \notin Entries
  BY <1>1, <1>2
<1>4. NoTranscript \in [text : Texts, count : Nat, total : Nat, next : Nat]
  BY DEF NoTranscript
<1> QED
  BY <1>1, <1>2, <1>3, <1>4

LEMMA ServerCloseFields ==
  ASSUME NEW p \in Phones, NEW q, q = ServerClose(p)
  PROVE  /\ q \in Phones /\ ServerShut(q)
         /\ SameSession(p, q) /\ SameTransport(p, q)
         /\ q.state = p.state /\ q.assembler = p.assembler /\ q.payloads = p.payloads
<1>1. "CLOSED" \in ServerBridgeStates /\ "none" \in SocketStates
  BY DEF ServerBridgeStates, SocketStates
<1>2. <<>> \in Texts
  OBVIOUS
<1>3. q \in Phones
  BY <1>1, <1>2 DEF ServerClose, Phones
<1> QED
  BY <1>3 DEF ServerClose, Phones, ServerShut, SameSession, SameTransport

\* A session that closes leaves nothing but the message in flight.
LEMMA SessionCloseFields ==
  ASSUME NEW p \in Phones, NEW q, q = SessionClose(p),
         \A i \in DOMAIN p.queue : p.queue[i].owner = p.serial
  PROVE  /\ q \in Phones /\ SameSession(p, q) /\ q.inflight = p.inflight
         /\ q.state = "CLOSED"
         /\ IF p.state = "CLOSED" THEN q = p ELSE Shut(q)
<1>1. CASE p.state = "CLOSED"
  BY <1>1 DEF SessionClose, SameSession
<1>2. CASE p.state # "CLOSED"
  <2> DEFINE c == ServerClose(p)
             d == CancelQueued(c)
  <2>1. /\ c \in Phones /\ ServerShut(c) /\ SameSession(p, c) /\ SameTransport(p, c)
    BY ServerCloseFields
  <2> HIDE DEF c
  <2>2. c.queue \in Seq(Entries) /\ c.queue = p.queue /\ c.serial = p.serial
    BY <2>1 DEF Phones, SameSession, SameTransport
  <2>3. Others(c.queue, c.serial) = <<>>
    BY <2>2, OthersOfOwn
  <2>4. d = [c EXCEPT !.queue = <<>>]
    BY <2>3 DEF CancelQueued
  <2> HIDE DEF d
  <2>5. /\ d \in Phones /\ ServerShut(d) /\ SameSession(p, d)
        /\ d.inflight = p.inflight /\ d.queue = <<>>
    <3>1. c \in Phones /\ <<>> \in Seq(Entries)
      BY <2>1
    <3>2. d \in Phones
      BY <2>4, <3>1 DEF Phones
    <3> QED
      BY <2>1, <2>4, <3>2 DEF Phones, ServerShut, SameSession, SameTransport
  <2>6. q = [d EXCEPT !.state = "CLOSED", !.assembler = NoTranscript, !.payloads = <<>>]
    BY <1>2 DEF SessionClose, c, d
  <2>7. "CLOSED" \in SessionStates /\ <<>> \in Seq(PhoneMessages)
    BY DEF SessionStates
  <2>8. q \in Phones
    <3> DEFINE shut == [d EXCEPT !.state = "CLOSED"]
    <3>1. shut \in Phones
      BY <2>5, <2>7 DEF Phones
    <3>2. q = [shut EXCEPT !.assembler = NoTranscript, !.payloads = <<>>]
      BY <2>6
    <3> HIDE DEF shut
    <3> QED
      BY <2>7, <3>1, <3>2, EntryTypes DEF Phones
  <2>9. Shut(q) /\ SameSession(p, q) /\ q.inflight = p.inflight
    BY <2>5, <2>6 DEF Phones, Shut, ServerShut, SameSession
  <2> QED
    BY <1>2, <2>8, <2>9 DEF Shut
<1> QED
  BY <1>1, <1>2

\* pump() sends the first entry, unless a message is in flight, and a send that
\* throws closes the session.
LEMMA PumpFields ==
  ASSUME NEW p \in Phones, NEW x, NEW q, q = Pump(p, x),
         \A i \in DOMAIN p.queue : p.queue[i].owner = p.serial
  PROVE  /\ q \in Phones /\ SameSession(p, q)
         /\ \/ q = p /\ (p.inflight # NoEntry \/ p.queue = <<>>)
            \/ /\ p.inflight = NoEntry /\ p.queue # <<>> /\ q.inflight = NoEntry
               /\ p.state # "CLOSED" => Shut(q)
               /\ q.state = "CLOSED"
            \/ /\ p.inflight = NoEntry /\ p.queue # <<>>
               /\ SameBridges(p, q)
               /\ q.inflight = Head(p.queue) /\ q.queue = Tail(p.queue)
<1>1. CASE p.inflight # NoEntry \/ p.queue = <<>>
  BY <1>1 DEF Pump, SameSession
<1>2. CASE p.inflight = NoEntry /\ p.queue # <<>> /\ "sendAppMessage" \in x
  <2> DEFINE d == [p EXCEPT !.queue = Tail(@)]
  <2>1. /\ p.queue \in Seq(Entries) /\ Tail(p.queue) \in Seq(Entries)
        /\ \A i \in DOMAIN Tail(p.queue) : Tail(p.queue)[i].owner = p.serial
    BY <1>2 DEF Phones
  <2>2. /\ d \in Phones /\ SameSession(p, d) /\ d.inflight = p.inflight
        /\ d.state = p.state /\ d.queue = Tail(p.queue)
    BY <2>1 DEF Phones, SameSession
  <2>3. q = SessionClose(d)
    BY <1>2 DEF Pump
  <2> HIDE DEF d
  <2>4. \A i \in DOMAIN d.queue : d.queue[i].owner = d.serial
    BY <2>1, <2>2 DEF SameSession
  <2> QED
    BY <1>2, <2>2, <2>3, <2>4, SessionCloseFields DEF SameSession
<1>3. CASE p.inflight = NoEntry /\ p.queue # <<>> /\ "sendAppMessage" \notin x
  <2>1. q = [p EXCEPT !.inflight = Head(p.queue), !.queue = Tail(@)]
    BY <1>3 DEF Pump
  <2>2. Head(p.queue) \in Entries /\ Tail(p.queue) \in Seq(Entries)
    BY <1>3 DEF Phones
  <2>3. q \in Phones
    BY <2>1, <2>2 DEF Phones
  <2> QED
    BY <1>3, <2>1, <2>3 DEF Phones, SameSession, SameBridges
<1> QED
  BY <1>1, <1>2, <1>3

\* A message for the watch is sent, or waits its turn, or could not be sent and
\* its session is closed.
LEMMA EnqueueFields ==
  ASSUME NEW p \in Phones, Transport(p), p.state # "CLOSED", p.serial > 0,
         NEW m \in PhoneMessages, NEW x, NEW q, q = Enqueue(p, m, x)
  PROVE  /\ q \in Phones /\ SameSession(p, q)
         /\ \/ p.inflight = NoEntry /\ q.inflight = NoEntry /\ Shut(q)
            \/ /\ p.inflight = NoEntry /\ SameBridges(p, q)
               /\ q.inflight = EntryOf(p, m) /\ q.queue = <<>>
            \/ /\ p.inflight # NoEntry /\ SameBridges(p, q)
               /\ q.inflight = p.inflight /\ q.queue = Append(p.queue, EntryOf(p, m))
<1> DEFINE d == [p EXCEPT !.queue = Append(@, EntryOf(p, m))]
<1>1. /\ p.serial \in Nat \ {0} /\ p.queue \in Seq(Entries)
      /\ EntryOf(p, m) \in Entries /\ EntryOf(p, m).owner = p.serial
  BY DEF Phones, Entries, EntryOf
<1>2. /\ d \in Phones /\ SameSession(p, d) /\ SameBridges(p, d)
      /\ d.inflight = p.inflight /\ d.queue = Append(p.queue, EntryOf(p, m))
  <2>1. Append(p.queue, EntryOf(p, m)) \in Seq(Entries)
    BY <1>1
  <2>2. d \in Phones
    BY <2>1 DEF Phones
  <2> QED
    BY <2>2 DEF Phones, SameSession, SameBridges
<1>3. q = Pump(d, x)
  BY DEF Enqueue, EntryOf
<1> HIDE DEF d
<1>4. \A i \in DOMAIN d.queue : d.queue[i].owner = d.serial
  BY <1>1, <1>2 DEF Transport, SameSession
<1>5. CASE p.inflight # NoEntry
  BY <1>2, <1>3, <1>5 DEF Pump
<1>6. CASE p.inflight = NoEntry
  <2>1. d.queue = <<EntryOf(p, m)>>
    <3>1. p.queue = <<>>
      BY <1>6 DEF Transport
    <3>2. \A e : Append(<<>>, e) = <<e>>
      OBVIOUS
    <3> QED
      BY <1>2, <3>1, <3>2
  <2>2. d.queue # <<>> /\ Head(d.queue) = EntryOf(p, m) /\ Tail(d.queue) = <<>>
    BY <2>1
  <2>3. /\ q \in Phones /\ SameSession(d, q)
        /\ \/ q.inflight = NoEntry /\ (d.state # "CLOSED" => Shut(q))
           \/ /\ SameBridges(d, q)
              /\ q.inflight = Head(d.queue) /\ q.queue = Tail(d.queue)
    <3>1. /\ q \in Phones /\ SameSession(d, q)
          /\ \/ q = d /\ (d.inflight # NoEntry \/ d.queue = <<>>)
             \/ /\ d.inflight = NoEntry /\ d.queue # <<>> /\ q.inflight = NoEntry
                /\ d.state # "CLOSED" => Shut(q)
                /\ q.state = "CLOSED"
             \/ /\ d.inflight = NoEntry /\ d.queue # <<>>
                /\ SameBridges(d, q)
                /\ q.inflight = Head(d.queue) /\ q.queue = Tail(d.queue)
      BY <1>2, <1>3, <1>4, PumpFields
    <3> QED
      BY <1>2, <1>6, <2>2, <3>1
  <2>4. d.state # "CLOSED"
    BY <1>2 DEF SameBridges
  <2>5. SameSession(p, q)
    BY <1>2, <2>3 DEF SameSession
  <2>6. SameBridges(d, q) => SameBridges(p, q)
    BY <1>2 DEF SameBridges
  <2> QED
    BY <1>6, <2>2, <2>3, <2>4, <2>5, <2>6
<1> QED
  BY <1>5, <1>6

-----------------------------------------------------------------------------
(* The inductive invariant, of a phone p.                                  *)

Terminal(e) == e.msg.type \in {"FAILURE", "SERVER_RESULT_CHUNK"}

Announcing(e) == e.msg.type = "SEND_STARTED"

\* The message in flight is the active session's.
InFlight(p) == p.inflight.owner = p.serial

\* What the active session has told the watch, phase by phase.
Ordered(p) ==
  /\ p.state \in {"RECEIVING_TRANSCRIPT", "WAITING_TO_SEND"} =>
       p.queue = <<>> /\ ~InFlight(p)
  /\ p.state = "AWAITING_RESULT" =>
       \/ p.queue = <<>> /\ (InFlight(p) => Announcing(p.inflight))
       \/ ~InFlight(p) /\ Len(p.queue) = 1 /\ Announcing(p.queue[1])
  /\ p.state = "FORWARDING_TERMINAL" =>
       \/ InFlight(p) /\ p.queue = <<>> /\ Terminal(p.inflight)
       \/ /\ Len(p.queue) = 1 /\ Terminal(p.queue[1])
          /\ InFlight(p) => Announcing(p.inflight)
       \/ /\ ~InFlight(p) /\ Len(p.queue) = 2
          /\ Announcing(p.queue[1]) /\ Terminal(p.queue[2])
  /\ p.state = "CLOSED" => p.queue = <<>>

\* What a session needs to tell the watch anything.
Core(p) ==
  /\ p \in Phones
  /\ Transport(p)
  /\ Ordered(p)
  /\ p.state # "CLOSED" => p.id \in ReqIds /\ p.serial > 0
  /\ \A i \in DOMAIN p.payloads : p.payloads[i].type = "SERVER_RESULT_CHUNK"

Waiting(p) == p.state \in {"RECEIVING_TRANSCRIPT", "WAITING_TO_SEND"}

\* BridgesAgree, of p; a bridge is ready once its socket has opened, and a
\* closed session has dropped its chunks.
Agree(p) ==
  /\ Waiting(p) => p.server \in {"CONNECTING", "READY"} /\ p.socket # "none"
  /\ p.server = "READY" => p.socket # "connecting"
  /\ p.state = "AWAITING_RESULT" =>
       p.server = "AWAITING_RESULT" /\ p.socket \in {"open", "closing"}
  /\ p.state \in {"FORWARDING_TERMINAL", "CLOSED"} =>
       p.server = "CLOSED" /\ p.socket = "none"
  /\ p.timers = IF p.state = "WAITING_TO_SEND" THEN {"handoff"}
                ELSE IF p.state = "AWAITING_RESULT" THEN {"result"} ELSE {}
  /\ p.transcript # <<>> <=> p.state \in {"WAITING_TO_SEND", "AWAITING_RESULT"}
  /\ p.state = "CLOSED" => p.assembler = NoTranscript

\* NoTranscriptLeftBehind, of p.
Prompt(p) ==
  p.state = "WAITING_TO_SEND" /\ p.server = "READY" => p.socket = "closing"

Sound(p) == Core(p) /\ Agree(p) /\ Prompt(p)

LEMMA MessageTypes ==
  /\ \A r \in ReqIds : SendStarted(r) \in PhoneMessages
                       /\ SendStarted(r).type = "SEND_STARTED"
  /\ \A r \in ReqIds, s \in StatusCodes : Failure(r, s) \in PhoneMessages
                       /\ Failure(r, s).type = "FAILURE"
  BY DEF SendStarted, Failure, PhoneMessages

\* A result becomes at least one chunk, and chunks only.
LEMMA ResultChunksType ==
  ASSUME NEW r \in ReqIds, NEW success \in BOOLEAN, NEW response \in Texts
  PROVE  /\ ResultChunks(r, success, response) \in Seq(PhoneMessages)
         /\ Len(ResultChunks(r, success, response)) > 0
         /\ \A i \in DOMAIN ResultChunks(r, success, response) :
              ResultChunks(r, success, response)[i].type = "SERVER_RESULT_CHUNK"
<1> DEFINE n == Len(response)
           chunk(i, text, count) ==
             [type |-> "SERVER_RESULT_CHUNK", id |-> r, index |-> i,
              count |-> count, total |-> n, text |-> text, success |-> success]
           all == ResultChunks(r, success, response)
<1>1. n \in Nat /\ \A i \in 1 .. n : <<response[i]>> \in Texts
  OBVIOUS
<1>2. \A i \in Nat, text \in Texts, count \in Nat :
        chunk(i, text, count) \in PhoneMessages
          /\ chunk(i, text, count).type = "SERVER_RESULT_CHUNK"
  BY <1>1 DEF PhoneMessages
<1>3. all = IF n = 0 THEN <<chunk(0, <<>>, 1)>>
            ELSE [i \in 1 .. n |-> chunk(i - 1, <<response[i]>>, n)]
  BY DEF ResultChunks
<1> HIDE DEF chunk, all
<1>4. CASE n = 0
  <2>1. all = <<chunk(0, <<>>, 1)>> /\ chunk(0, <<>>, 1) \in PhoneMessages
        /\ chunk(0, <<>>, 1).type = "SERVER_RESULT_CHUNK"
    <3>1. 0 \in Nat /\ 1 \in Nat /\ <<>> \in Texts
      OBVIOUS
    <3> QED
      BY <1>2, <1>3, <1>4, <3>1, Zenon
  <2> QED
    BY <2>1 DEF all
<1>5. CASE n # 0
  <2>1. \A i \in 1 .. n : chunk(i - 1, <<response[i]>>, n) \in PhoneMessages
          /\ chunk(i - 1, <<response[i]>>, n).type = "SERVER_RESULT_CHUNK"
    <3>1. \A i \in 1 .. n : i - 1 \in Nat
      BY <1>1
    <3> QED
      BY <1>1, <1>2, <3>1, Zenon
  <2>2. all = [i \in 1 .. n |-> chunk(i - 1, <<response[i]>>, n)]
    BY <1>3, <1>5
  <2>3. all \in Seq(PhoneMessages) /\ Len(all) = n /\ DOMAIN all = 1 .. n
    BY <1>1, <2>1, <2>2
  <2> QED
    BY <1>1, <1>5, <2>1, <2>2, <2>3 DEF all
<1> QED
  BY <1>4, <1>5

\* A closed session is sound, whatever is still in flight.
LEMMA ShutIsSound ==
  ASSUME NEW q \in Phones, Shut(q), q.inflight.owner <= q.serial
  PROVE  Sound(q)
  BY DEF Shut, ServerShut, Sound, Core, Transport, Ordered, Agree, Prompt, Waiting

\* Closing a session leaves a sound phone.
LEMMA SessionCloseSound ==
  ASSUME NEW p, Core(p), p.state = "CLOSED" => Sound(p), NEW q, q = SessionClose(p)
  PROVE  /\ Sound(q) /\ SameSession(p, q) /\ q.inflight = p.inflight
         /\ q.state = "CLOSED"
<1>1. /\ q \in Phones /\ SameSession(p, q) /\ q.inflight = p.inflight
      /\ q.state = "CLOSED" /\ (IF p.state = "CLOSED" THEN q = p ELSE Shut(q))
  BY SessionCloseFields DEF Core, Transport
<1>2. p.inflight.owner <= p.serial
  BY DEF Core, Transport
<1> QED
  BY <1>1, <1>2, ShutIsSound DEF SameSession

\* The phone once its bridge is closed and its outcome is to be forwarded.
Forwarding(p, d) ==
  /\ d \in Phones /\ ServerShut(d) /\ SameSession(p, d) /\ SameTransport(p, d)
  /\ d.state = "FORWARDING_TERMINAL"
  /\ \A i \in DOMAIN d.payloads : d.payloads[i].type = "SERVER_RESULT_CHUNK"

Stopped(p) == p.state \in {"FORWARDING_TERMINAL", "CLOSED"}

\* What every way of ending a session keeps.
Ends(p, q) ==
  /\ SameSession(p, q)
  /\ p.inflight # NoEntry => q.inflight = p.inflight
  /\ q = p \/ Stopped(q)

\* A terminal message that follows what the session has already told.
LEMMA TerminalSound ==
  ASSUME NEW p, Core(p), p.state \notin {"CLOSED", "FORWARDING_TERMINAL"},
         NEW d, Forwarding(p, d),
         NEW m \in PhoneMessages, m.type \in {"FAILURE", "SERVER_RESULT_CHUNK"},
         NEW x, NEW q, q = Enqueue(d, m, x)
  PROVE  Sound(q) /\ Ends(p, q) /\ Stopped(q)
<1>1. /\ d \in Phones /\ ServerShut(d) /\ SameSession(p, d) /\ SameTransport(p, d)
      /\ d.state = "FORWARDING_TERMINAL"
      /\ \A i \in DOMAIN d.payloads : d.payloads[i].type = "SERVER_RESULT_CHUNK"
  BY DEF Forwarding
<1>2. Transport(d) /\ d.serial > 0 /\ d.id \in ReqIds
  BY <1>1 DEF Core, Transport, SameSession, SameTransport
<1>3. /\ q \in Phones /\ SameSession(d, q)
      /\ \/ d.inflight = NoEntry /\ q.inflight = NoEntry /\ Shut(q)
         \/ /\ d.inflight = NoEntry /\ SameBridges(d, q)
            /\ q.inflight = EntryOf(d, m) /\ q.queue = <<>>
         \/ /\ d.inflight # NoEntry /\ SameBridges(d, q)
            /\ q.inflight = d.inflight /\ q.queue = Append(d.queue, EntryOf(d, m))
  BY <1>1, <1>2, EnqueueFields
<1>4. Ends(p, q) /\ SameSession(p, q) /\ Stopped(q)
  <2>1. SameSession(p, q) /\ (p.inflight # NoEntry => q.inflight = p.inflight)
    BY <1>1, <1>3 DEF SameSession, SameTransport
  <2>2. Stopped(q)
    BY <1>1, <1>3 DEF SameBridges, Shut, Stopped
  <2> QED
    BY <2>1, <2>2 DEF Ends
<1>5. /\ EntryOf(d, m).owner = d.serial /\ Terminal(EntryOf(d, m))
      /\ EntryOf(d, m) \in Entries
  BY <1>1, <1>2 DEF EntryOf, Terminal, Entries, Phones
<1>6. CASE d.inflight = NoEntry /\ q.inflight = NoEntry /\ Shut(q)
  <2>1. q.inflight.owner <= q.serial
    BY <1>2, <1>3, <1>6 DEF Transport, SameSession
  <2> QED
    BY <1>3, <1>4, <1>6, <2>1, ShutIsSound
<1>7. CASE SameBridges(d, q)
  <2>1. Agree(q) /\ Prompt(q)
    BY <1>1, <1>7 DEF Agree, Prompt, Waiting, SameBridges, ServerShut
  <2>2. \A i \in DOMAIN q.payloads : q.payloads[i].type = "SERVER_RESULT_CHUNK"
    BY <1>1, <1>7 DEF SameBridges
  <2>3. CASE q.inflight = EntryOf(d, m) /\ q.queue = <<>>
    <3>1. q.inflight # NoEntry /\ q.inflight.owner = q.serial /\ Terminal(q.inflight)
      BY <1>2, <1>3, <1>5, <2>3, EntryTypes DEF SameSession
    <3>2. q.serial \in Nat /\ q.state = "FORWARDING_TERMINAL"
      BY <1>1, <1>3, <1>7 DEF SameBridges, Phones
    <3>3. Transport(q)
      BY <2>3, <3>1, <3>2 DEF Transport
    <3>4. Ordered(q)
      BY <2>3, <3>1, <3>2 DEF Ordered, InFlight
    <3> QED
      BY <1>1, <1>2, <1>3, <1>4, <1>7, <2>1, <2>2, <3>3, <3>4
         DEF Sound, Core, SameBridges, SameSession
  <2>4. CASE /\ d.inflight # NoEntry
             /\ q.inflight = d.inflight /\ q.queue = Append(d.queue, EntryOf(d, m))
    <3>1. /\ d.queue \in Seq(Entries) /\ d.queue = p.queue /\ d.inflight = p.inflight
          /\ q.serial = p.serial /\ d.serial = p.serial
          /\ q.state = "FORWARDING_TERMINAL"
      BY <1>1, <1>4, <1>7 DEF Phones, SameSession, SameTransport, SameBridges
    <3> DEFINE n == Len(d.queue)
    <3>a. /\ n \in Nat /\ q.queue # <<>> /\ Len(q.queue) = n + 1
          /\ DOMAIN q.queue = 1 .. n + 1
          /\ q.queue[n + 1] = EntryOf(d, m) /\ \A i \in 1 .. n : q.queue[i] = d.queue[i]
      BY <1>5, <2>4, <3>1, AppendFacts
    <3>2. Transport(q)
      <4>1. \A i \in 1 .. n + 1 : i \in 1 .. n \/ i = n + 1
        BY <3>a
      <4>2. \A i \in 1 .. n : d.queue[i].owner = d.serial
        BY <1>2, <3>1 DEF Transport
      <4> QED
        BY <1>2, <1>5, <2>4, <3>1, <3>a, <4>1, <4>2 DEF Transport
    <3>3. Ordered(q)
      <4>1. CASE p.queue = <<>>
        <5>1. Len(q.queue) = 1 /\ q.queue[1] = EntryOf(d, m)
          BY <3>1, <3>a, <4>1
        <5>2. InFlight(p) => Announcing(p.inflight)
          BY <4>1 DEF Core, Ordered, Phones, SessionStates
        <5> QED
          BY <1>5, <2>4, <3>1, <5>1, <5>2 DEF Ordered, InFlight
      <4>2. CASE p.queue # <<>>
        <5>1. ~InFlight(p) /\ Len(p.queue) = 1 /\ Announcing(p.queue[1])
          BY <4>2 DEF Core, Ordered, Phones, SessionStates
        <5>2. Len(q.queue) = 2 /\ q.queue[1] = p.queue[1] /\ q.queue[2] = EntryOf(d, m)
          BY <3>1, <3>a, <5>1
        <5> QED
          BY <1>5, <2>4, <3>1, <5>1, <5>2 DEF Ordered, InFlight
      <4> QED
        BY <4>1, <4>2
    <3> QED
      BY <1>1, <1>2, <1>3, <1>4, <1>7, <2>1, <2>2, <3>2, <3>3
         DEF Sound, Core, SameBridges, SameSession
  <2>5. ~ Shut(q)
    BY <1>1, <1>7 DEF Shut, SameBridges
  <2> QED
    BY <1>3, <2>3, <2>4, <2>5
<1> QED
  BY <1>3, <1>4, <1>6, <1>7

\* The bridge closes, keeping the payloads or taking up those of a result.
LEMMA ForwardingFields ==
  ASSUME NEW p, Core(p), NEW payloads \in Seq(PhoneMessages),
         \A i \in DOMAIN payloads : payloads[i].type = "SERVER_RESULT_CHUNK"
  PROVE  /\ Forwarding(p, [ServerClose(p) EXCEPT !.state = "FORWARDING_TERMINAL"])
         /\ Forwarding(p, [ServerClose(p) EXCEPT !.state = "FORWARDING_TERMINAL",
                                                 !.payloads = payloads])
<1> DEFINE c == ServerClose(p)
           d == [c EXCEPT !.state = "FORWARDING_TERMINAL"]
           e == [c EXCEPT !.state = "FORWARDING_TERMINAL", !.payloads = payloads]
<1>1. /\ c \in Phones /\ ServerShut(c)
      /\ SameSession(p, c) /\ SameTransport(p, c) /\ c.payloads = p.payloads
  BY ServerCloseFields DEF Core
<1>2. \A i \in DOMAIN p.payloads : p.payloads[i].type = "SERVER_RESULT_CHUNK"
  BY DEF Core
<1>3. "FORWARDING_TERMINAL" \in SessionStates
  BY DEF SessionStates
<1> HIDE DEF c
<1>4. d \in Phones /\ e \in Phones
  BY <1>1, <1>3 DEF Phones
<1>5. Forwarding(p, d)
  <2>1. /\ ServerShut(d) /\ SameSession(p, d) /\ SameTransport(p, d)
        /\ d.state = "FORWARDING_TERMINAL" /\ d.payloads = p.payloads
    BY <1>1, <1>4 DEF Phones, ServerShut, SameSession, SameTransport
  <2> HIDE DEF d
  <2> QED
    BY <1>2, <1>4, <2>1 DEF Forwarding
<1>6. Forwarding(p, e)
  BY <1>1, <1>4 DEF Forwarding, Phones, ServerShut, SameSession, SameTransport
<1> QED
  BY <1>5, <1>6 DEF c

\* fail() closes the bridge, and tells the watch unless the session is ending.
LEMMA SessionFailSound ==
  ASSUME NEW p, Core(p),
         p.state \in {"FORWARDING_TERMINAL", "CLOSED"} => Sound(p),
         NEW status \in StatusCodes, NEW x, NEW q, q = SessionFail(p, status, x)
  PROVE  Sound(q) /\ Ends(p, q) /\ Stopped(q)
<1>1. CASE p.state \in {"FORWARDING_TERMINAL", "CLOSED"}
  BY <1>1 DEF SessionFail, Ends, SameSession, Stopped
<1>2. CASE p.state \notin {"FORWARDING_TERMINAL", "CLOSED"}
  <2> DEFINE d == [ServerClose(p) EXCEPT !.state = "FORWARDING_TERMINAL"]
  <2>1. Forwarding(p, d)
    BY ForwardingFields DEF Core, Phones
  <2>2. /\ Failure(p.id, status) \in PhoneMessages
        /\ Failure(p.id, status).type = "FAILURE"
    BY <1>2, MessageTypes DEF Core
  <2>3. q = Enqueue(d, Failure(p.id, status), x)
    BY <1>2 DEF SessionFail
  <2> HIDE DEF d
  <2> QED
    BY <1>2, <2>1, <2>2, <2>3, TerminalSound
<1> QED
  BY <1>1, <1>2

LEMMA ServerFailSound ==
  ASSUME NEW p, Core(p),
         p.state \in {"FORWARDING_TERMINAL", "CLOSED"} \/ p.server = "CLOSED" => Sound(p),
         NEW error \in DOMAIN StatusForServerError,
         NEW x, NEW q, q = ServerFail(p, error, x)
  PROVE  Sound(q) /\ Ends(p, q)
<1>1. CASE p.server = "CLOSED"
  BY <1>1 DEF ServerFail, Ends, SameSession
<1>2. CASE p.server # "CLOSED"
  <2>1. StatusForServerError[error] \in StatusCodes
    BY DEF StatusForServerError, StatusCodes
  <2> QED
    BY <1>2, <2>1, SessionFailSound DEF ServerFail
<1> QED
  BY <1>1, <1>2

LEMMA FrameTypes ==
  \A f \in Frames \cup {NoFrame} : f.success \in BOOLEAN /\ f.response \in Texts
<1>1. NoFrame.success \in BOOLEAN /\ NoFrame.response \in Texts
  BY DEF NoFrame
<1>2. \A f \in Frames : f.success \in BOOLEAN /\ f.response \in Texts
  BY FramesAssumption
<1> QED
  BY <1>1, <1>2

LEMMA ForwardResultSound ==
  ASSUME NEW p, Core(p), p.state \notin {"FORWARDING_TERMINAL", "CLOSED"},
         NEW f \in Frames \cup {NoFrame}, NEW x, NEW q, q = ForwardResult(p, f, x)
  PROVE  Sound(q) /\ Ends(p, q)
<1> DEFINE payloads == ResultChunks(p.id, f.success, f.response)
           d == [ServerClose(p) EXCEPT !.state = "FORWARDING_TERMINAL",
                                       !.payloads = payloads]
<1>1. f.success \in BOOLEAN /\ f.response \in Texts
  BY FrameTypes
<1>2. p.id \in ReqIds
  BY DEF Core
<1>3. /\ payloads \in Seq(PhoneMessages) /\ Len(payloads) > 0
      /\ \A i \in DOMAIN payloads : payloads[i].type = "SERVER_RESULT_CHUNK"
  BY <1>1, <1>2, ResultChunksType
<1>4. q = Enqueue(d, payloads[1], x)
  BY DEF ForwardResult
<1> HIDE DEF payloads
<1>5. Forwarding(p, d)
  BY <1>3, ForwardingFields
<1>6. payloads[1] \in PhoneMessages /\ payloads[1].type = "SERVER_RESULT_CHUNK"
  BY <1>3
<1> HIDE DEF d
<1> QED
  BY <1>4, <1>5, <1>6, TerminalSound

\* A frame ends the session or changes nothing.
LEMMA HandleFrameSound ==
  ASSUME NEW p, Sound(p), NEW f \in Frames \cup {NoFrame},
         NEW x, NEW q, q = HandleFrame(p, f, x)
  PROVE  Sound(q) /\ Ends(p, q)
<1>1. Core(p)
  BY DEF Sound
<1>2. CASE q = p
  BY <1>2 DEF Ends, SameSession
<1>3. CASE p.server = "AWAITING_RESULT" /\ q = ForwardResult(p, f, x)
  <2>1. p.state \notin {"FORWARDING_TERMINAL", "CLOSED"}
    BY <1>3 DEF Sound, Agree
  <2> QED
    BY <1>1, <1>3, <2>1, ForwardResultSound
<1>4. CASE \E error \in {"SERVER", "PROTOCOL"} : q = ServerFail(p, error, x)
  <2>1. {"SERVER", "PROTOCOL"} \subseteq DOMAIN StatusForServerError
    BY DEF StatusForServerError
  <2> QED
    BY <1>1, <1>4, <2>1, ServerFailSound
<1>5. \/ q = p
      \/ p.server = "AWAITING_RESULT" /\ q = ForwardResult(p, f, x)
      \/ \E error \in {"SERVER", "PROTOCOL"} : q = ServerFail(p, error, x)
  BY DEF HandleFrame
<1> QED
  BY <1>2, <1>3, <1>4, <1>5

-----------------------------------------------------------------------------
(* Sending the request.                                                    *)

\* A session that has its transcript and has not sent it.
Handing(p) ==
  /\ Core(p)
  /\ p.state = "WAITING_TO_SEND" /\ p.transcript # <<>> /\ p.timers = {"handoff"}
  /\ p.server \in {"CONNECTING", "READY"} /\ p.socket # "none"
  /\ p.server = "READY" => p.socket # "connecting"

\* The frame that carries its transcript.
RequestOf(p) == [serial |-> p.serial, id |-> p.id, transcript |-> p.transcript]

\* What handing the transcript over keeps, and adds to the requests.
Hands(p, q) ==
  /\ q.serial = p.serial /\ q.id = p.id
  /\ p.inflight # NoEntry => q.inflight = p.inflight
  /\ q = p \/ ~Waiting(q)
  /\ q.requests \in {p.requests, Append(p.requests, RequestOf(p))}

\* The phone right after WebSocket.send().
SentFrom(p, d) ==
  /\ d \in Phones /\ SameTransport(p, d)
  /\ d.serial = p.serial /\ d.id = p.id
  /\ d.requests = Append(p.requests, RequestOf(p))
  /\ d.state = "AWAITING_RESULT" /\ d.server = "AWAITING_RESULT"
  /\ d.timers = {"result"} /\ d.socket = "open" /\ d.transcript # <<>>
  /\ d.payloads = p.payloads

LEMMA SentFields ==
  ASSUME NEW p, Handing(p), p.socket = "open",
         NEW d, d = [p EXCEPT
           !.server = "AWAITING_RESULT",
           !.state = "AWAITING_RESULT",
           !.timers = {"result"},
           !.requests = Append(@, RequestOf(p))]
  PROVE  SentFrom(p, d)
<1>1. /\ p \in Phones /\ p.id \in ReqIds /\ p.serial \in Nat \ {0}
      /\ p.transcript \in Texts
  BY DEF Handing, Core, Phones
<1>2. Append(p.requests, RequestOf(p)) \in
        Seq([serial : Nat \ {0}, id : ReqIds, transcript : Texts])
  <2>1. RequestOf(p) \in [serial : Nat \ {0}, id : ReqIds, transcript : Texts]
    BY <1>1 DEF RequestOf
  <2> QED
    BY <1>1, <2>1 DEF Phones
<1>3. "AWAITING_RESULT" \in SessionStates /\ "AWAITING_RESULT" \in ServerBridgeStates
  BY DEF SessionStates, ServerBridgeStates
<1> DEFINE reqs == Append(p.requests, RequestOf(p))
<1>4. d = [p EXCEPT !.server = "AWAITING_RESULT", !.state = "AWAITING_RESULT",
                    !.timers = {"result"}, !.requests = reqs]
  OBVIOUS
<1> HIDE DEF reqs
<1>5. d \in Phones
  <2> DEFINE timed == [p EXCEPT !.timers = {"result"}]
             awaiting == [timed EXCEPT !.server = "AWAITING_RESULT",
                                       !.state = "AWAITING_RESULT"]
  <2>1. timed \in Phones
    BY <1>1 DEF Phones
  <2>2. d = [awaiting EXCEPT !.requests = reqs]
    BY <1>4
  <2> HIDE DEF timed
  <2>3. awaiting \in Phones
    BY <1>3, <2>1 DEF Phones
  <2> HIDE DEF awaiting
  <2>4. reqs \in Seq([serial : Nat \ {0}, id : ReqIds, transcript : Texts])
    BY <1>2 DEF reqs
  <2> QED
    BY <2>2, <2>3, <2>4 DEF Phones
<1>6. /\ SameTransport(p, d) /\ d.serial = p.serial /\ d.id = p.id
      /\ d.requests = reqs
      /\ d.state = "AWAITING_RESULT" /\ d.server = "AWAITING_RESULT"
      /\ d.timers = {"result"} /\ d.socket = p.socket /\ d.transcript = p.transcript
      /\ d.payloads = p.payloads
  BY <1>1, <1>4, <1>5 DEF Phones, SameTransport
<1> QED
  BY <1>5, <1>6 DEF SentFrom, Handing, reqs

\* SEND_STARTED follows the request, on the transport or in its queue.
LEMMA AnnouncementSound ==
  ASSUME NEW p, Handing(p), NEW d, SentFrom(p, d),
         NEW x, NEW q, q = Enqueue(d, SendStarted(p.id), x)
  PROVE  /\ Sound(q) /\ SameSession(d, q) /\ ~Waiting(q)
         /\ p.inflight # NoEntry => q.inflight = p.inflight
<1> DEFINE m == SendStarted(p.id)
<1>1. /\ d \in Phones /\ d.serial = p.serial /\ d.id = p.id /\ SameTransport(p, d)
      /\ d.state = "AWAITING_RESULT" /\ d.server = "AWAITING_RESULT"
      /\ d.timers = {"result"} /\ d.socket = "open" /\ d.transcript # <<>>
      /\ d.payloads = p.payloads
  BY DEF SentFrom
<1>2. /\ Core(p) /\ Transport(d) /\ d.serial > 0 /\ d.id \in ReqIds /\ d.queue = <<>>
      /\ ~InFlight(p)
  BY <1>1 DEF Handing, Core, Transport, Ordered, SameTransport
<1>3. m \in PhoneMessages /\ m.type = "SEND_STARTED"
  BY <1>1, <1>2, MessageTypes
<1> HIDE DEF m
<1>4. /\ q \in Phones /\ SameSession(d, q)
      /\ \/ d.inflight = NoEntry /\ q.inflight = NoEntry /\ Shut(q)
         \/ /\ d.inflight = NoEntry /\ SameBridges(d, q)
            /\ q.inflight = EntryOf(d, m) /\ q.queue = <<>>
         \/ /\ d.inflight # NoEntry /\ SameBridges(d, q)
            /\ q.inflight = d.inflight /\ q.queue = Append(d.queue, EntryOf(d, m))
  BY <1>1, <1>2, <1>3, EnqueueFields DEF m
<1>5. /\ EntryOf(d, m).owner = d.serial /\ Announcing(EntryOf(d, m))
      /\ EntryOf(d, m) \in Entries
  BY <1>1, <1>2, <1>3 DEF EntryOf, Announcing, Entries, Phones
<1>6. /\ p.inflight # NoEntry => q.inflight = p.inflight
      /\ ~Waiting(q)
  BY <1>1, <1>4 DEF SameTransport, SameBridges, Shut, Waiting
<1>7. CASE d.inflight = NoEntry /\ q.inflight = NoEntry /\ Shut(q)
  <2>1. q.inflight.owner <= q.serial
    BY <1>2, <1>4, <1>7 DEF Transport, SameSession
  <2> QED
    BY <1>4, <1>6, <1>7, <2>1, ShutIsSound
<1>8. CASE SameBridges(d, q)
  <2>1. Agree(q) /\ Prompt(q) /\ q.state = "AWAITING_RESULT" /\ ~Shut(q)
    BY <1>1, <1>8 DEF Agree, Prompt, Waiting, SameBridges, Shut
  <2>2. \A i \in DOMAIN q.payloads : q.payloads[i].type = "SERVER_RESULT_CHUNK"
    BY <1>1, <1>2, <1>8 DEF SameBridges, Core
  <2>3. Transport(q) /\ Ordered(q)
    <3>1. CASE q.inflight = EntryOf(d, m) /\ q.queue = <<>>
      <4>1. q.inflight.owner = q.serial /\ Announcing(q.inflight) /\ q.inflight # NoEntry
        BY <1>4, <1>5, <3>1, EntryTypes DEF SameSession
      <4>2. q.serial \in Nat
        BY <1>4 DEF Phones
      <4> QED
        BY <2>1, <3>1, <4>1, <4>2 DEF Transport, Ordered, InFlight
    <3>2. CASE /\ d.inflight # NoEntry
               /\ q.inflight = d.inflight /\ q.queue = Append(d.queue, EntryOf(d, m))
      <4>1. q.queue = <<EntryOf(d, m)>>
        <5>1. \A e : Append(<<>>, e) = <<e>>
          OBVIOUS
        <5> QED
          BY <1>2, <3>2, <5>1
      <4>2. /\ q.queue # <<>> /\ Len(q.queue) = 1 /\ DOMAIN q.queue = {1}
            /\ q.queue[1] = EntryOf(d, m)
        BY <4>1
      <4>3. q.serial = d.serial /\ ~InFlight(q)
        BY <1>1, <1>2, <1>4, <3>2 DEF SameSession, SameTransport, InFlight
      <4> QED
        BY <1>2, <1>5, <2>1, <3>2, <4>2, <4>3 DEF Transport, Ordered
    <3> QED
      BY <1>4, <2>1, <3>1, <3>2
  <2> QED
    BY <1>1, <1>2, <1>4, <1>6, <2>1, <2>2, <2>3 DEF Sound, Core, SameSession
<1> QED
  BY <1>4, <1>6, <1>7, <1>8

\* trySend() sends, fails or leaves the transcript to a later call.
LEMMA TrySendSound ==
  ASSUME NEW p, Handing(p), NEW f \in Frames \cup {NoFrame},
         NEW x, NEW q, q = TrySend(p, x, f)
  PROVE  Sound(q) /\ Hands(p, q)
<1>1. Core(p) /\ p.state = "WAITING_TO_SEND" /\ p.server \in {"CONNECTING", "READY"}
  BY DEF Handing
<1>2. CASE p.socket # "open"
  <2>1. q = p
    BY <1>2 DEF TrySend
  <2>2. p.socket \in {"connecting", "closing"}
    BY <1>1, <1>2 DEF Handing, Core, Phones, SocketStates
  <2>3. Agree(p) /\ Prompt(p)
    BY <2>2 DEF Handing, Agree, Prompt, Waiting
  <2> QED
    BY <1>1, <2>1, <2>3 DEF Sound, Hands
<1>3. CASE p.socket = "open" /\ "send" \in x
  <2>1. q = ServerFail(p, "SEND", x)
    BY <1>1, <1>3 DEF TrySend, Handing
  <2>2. "SEND" \in DOMAIN StatusForServerError
    BY DEF StatusForServerError
  <2>3. Sound(q) /\ Ends(p, q)
    BY <1>1, <2>1, <2>2, ServerFailSound
  <2> QED
    BY <2>3 DEF Ends, SameSession, Hands, Waiting, Stopped
<1>4. CASE p.socket = "open" /\ "send" \notin x
  <2> DEFINE d == [p EXCEPT
               !.server = "AWAITING_RESULT",
               !.state = "AWAITING_RESULT",
               !.timers = {"result"},
               !.requests = Append(@, RequestOf(p))]
             e == Enqueue(d, SendStarted(p.id), x)
  <2>1. q = HandleFrame(e, f, x)
    BY <1>1, <1>4 DEF TrySend, Handing, RequestOf
  <2>2. SentFrom(p, d)
    BY <1>4, SentFields
  <2> HIDE DEF d
  <2>3. /\ Sound(e) /\ SameSession(d, e) /\ ~Waiting(e)
        /\ p.inflight # NoEntry => e.inflight = p.inflight
    BY <2>2, AnnouncementSound
  <2> HIDE DEF e
  <2>4. Sound(q) /\ Ends(e, q)
    BY <2>1, <2>3, HandleFrameSound
  <2> QED
    BY <2>2, <2>3, <2>4 DEF SentFrom, SameSession, Ends, Hands, Waiting, Stopped
<1> QED
  BY <1>2, <1>3, <1>4

-----------------------------------------------------------------------------
(* Messages from the watch.                                                *)

\* A session begins in place of the one before.
Begins(p, q, m) ==
  /\ q.serial = p.serial + 1 /\ q.id = m.id /\ q.requests = p.requests
  /\ q.inflight = p.inflight \/ p.inflight = NoEntry
  /\ q.state = "RECEIVING_TRANSCRIPT" \/ Stopped(q)
  /\ q.state = "RECEIVING_TRANSCRIPT" => q.assembler = NoTranscript

\* A chunk joins those before it.
Collects(p, q, m) ==
  /\ SameSession(p, q) /\ q.inflight = p.inflight
  /\ p.state = "RECEIVING_TRANSCRIPT" /\ q.state = "RECEIVING_TRANSCRIPT"
  /\ ChunkFits(p.assembler, m) /\ m.index + 1 < m.count
  /\ q.assembler = [text |-> p.assembler.text \o m.text, count |-> m.count,
                    total |-> m.total, next |-> p.assembler.next + 1]

\* The last chunk completes a transcript, which phone w has to send.
Completes(p, w, m) ==
  /\ SameSession(p, w) /\ w.inflight = p.inflight
  /\ p.state = "RECEIVING_TRANSCRIPT" /\ w.state = "WAITING_TO_SEND"
  /\ ChunkFits(p.assembler, m) /\ m.index + 1 = m.count
  /\ w.transcript = p.assembler.text \o m.text

LEMMA WatchMessageTypes ==
  \A m \in WatchInbox :
    /\ m.type = "SESSION_BEGIN" => m.id \in ReqIds
    /\ m.type = "TRANSCRIPT_CHUNK" =>
         /\ m \in WatchMessages /\ m.text \in Texts
         /\ m.index \in Nat /\ m.count \in Nat /\ m.total \in Nat
<1> SUFFICES ASSUME NEW m \in WatchInbox
             PROVE  /\ m.type = "SESSION_BEGIN" => m.id \in ReqIds
                    /\ m.type = "TRANSCRIPT_CHUNK" =>
                         /\ m \in WatchMessages /\ m.text \in Texts
                         /\ m.index \in Nat /\ m.count \in Nat /\ m.total \in Nat
  OBVIOUS
<1>1. CASE m \in [type : {"MALFORMED"}, id : ReqIds \cup {NoId}]
  BY <1>1
<1>2. CASE m \in WatchMessages
  BY <1>2 DEF WatchMessages
<1> QED
  BY <1>1, <1>2, WatchInboxAssumption

\* A new session, with its socket or without.
Fresh(s, r, socket) ==
  [s EXCEPT !.serial = @ + 1, !.id = r, !.state = "RECEIVING_TRANSCRIPT",
            !.server = "CONNECTING", !.socket = socket]

LEMMA FreshSound ==
  ASSUME NEW s, Sound(s), s.state = "CLOSED", NEW r \in ReqIds,
         NEW socket \in {"connecting", "none"},
         NEW q, q = Fresh(s, r, socket)
  PROVE  /\ Core(q) /\ (socket = "connecting" => Sound(q))
         /\ q.serial = s.serial + 1 /\ q.id = r /\ q.requests = s.requests
         /\ q.inflight = s.inflight /\ q.state = "RECEIVING_TRANSCRIPT"
         /\ q.assembler = NoTranscript /\ q.server = "CONNECTING"
<1>1. /\ s \in Phones /\ s.serial \in Nat /\ s.serial + 1 \in Nat
  BY DEF Sound, Core, Phones
<1>2. /\ "RECEIVING_TRANSCRIPT" \in SessionStates
      /\ "CONNECTING" \in ServerBridgeStates /\ socket \in SocketStates
  BY DEF SessionStates, ServerBridgeStates, SocketStates
<1>3. q \in Phones
  BY <1>1, <1>2 DEF Phones, Fresh
<1>4. /\ q.serial = s.serial + 1 /\ q.id = r /\ q.requests = s.requests
      /\ q.inflight = s.inflight /\ q.state = "RECEIVING_TRANSCRIPT"
      /\ q.assembler = s.assembler /\ q.server = "CONNECTING" /\ q.socket = socket
      /\ q.queue = s.queue /\ q.timers = s.timers /\ q.transcript = s.transcript
      /\ q.payloads = s.payloads
  BY <1>1, <1>3 DEF Phones, Fresh
<1>5. /\ s.inflight.owner \in Nat /\ s.inflight.owner <= s.serial
      /\ s.queue = <<>> /\ s.timers = {} /\ s.transcript = <<>>
      /\ s.assembler = NoTranscript
      /\ \A i \in DOMAIN s.payloads : s.payloads[i].type = "SERVER_RESULT_CHUNK"
  BY <1>1, EntryTypes DEF Sound, Core, Transport, Ordered, Agree, Phones
<1>6. Transport(q) /\ Ordered(q)
  BY <1>1, <1>4, <1>5 DEF Transport, Ordered, InFlight
<1>7. Core(q)
  BY <1>1, <1>3, <1>4, <1>5, <1>6 DEF Core
<1>8. socket = "connecting" => Agree(q) /\ Prompt(q)
  BY <1>4, <1>5 DEF Agree, Prompt, Waiting
<1> QED
  BY <1>4, <1>5, <1>7, <1>8 DEF Sound

LEMMA StartSessionSound ==
  ASSUME NEW p, Sound(p), NEW m, m.id \in ReqIds,
         NEW x, NEW q, q = StartSession(p, m.id, x)
  PROVE  Sound(q) /\ Begins(p, q, m)
<1> DEFINE s == SessionClose(p)
           fresh == Fresh(s, m.id, "connecting")
           bare == Fresh(s, m.id, "none")
<1>1. Sound(s) /\ SameSession(p, s) /\ s.inflight = p.inflight /\ s.state = "CLOSED"
  BY SessionCloseSound DEF Sound
<1>2. q = fresh \/ q = ServerFail(bare, "SERVER", x)
  <2>1. [fresh EXCEPT !.socket = "none"] = bare
    BY DEF Fresh
  <2> QED
    BY <2>1 DEF StartSession, Fresh
<1> HIDE DEF s
<1>3. CASE q = fresh
  <2>1. /\ Sound(q)
        /\ q.serial = s.serial + 1 /\ q.id = m.id /\ q.requests = s.requests
        /\ q.inflight = s.inflight /\ q.state = "RECEIVING_TRANSCRIPT"
        /\ q.assembler = NoTranscript
    BY <1>1, <1>3, FreshSound
  <2> QED
    BY <1>1, <2>1 DEF Begins, SameSession
<1>4. CASE q = ServerFail(bare, "SERVER", x)
  <2>1. /\ Core(bare)
        /\ bare.serial = s.serial + 1 /\ bare.id = m.id /\ bare.requests = s.requests
        /\ bare.inflight = s.inflight /\ bare.state = "RECEIVING_TRANSCRIPT"
        /\ bare.assembler = NoTranscript /\ bare.server = "CONNECTING"
    BY <1>1, FreshSound
  <2>2. "SERVER" \in DOMAIN StatusForServerError
    BY DEF StatusForServerError
  <2>3. Sound(q) /\ Ends(bare, q)
    BY <1>4, <2>1, <2>2, ServerFailSound
  <2> QED
    BY <1>1, <2>1, <2>3 DEF Begins, Ends, SameSession, Stopped
<1> QED
  BY <1>2, <1>3, <1>4

\* A chunk joins the others, completes the transcript or ends the session.
LEMMA HandleChunkCases ==
  ASSUME NEW p, Sound(p), p.state \notin {"FORWARDING_TERMINAL", "CLOSED"},
         NEW m \in WatchInbox, m.type = "TRANSCRIPT_CHUNK", Parses(m),
         NEW f \in Frames \cup {NoFrame},
         NEW x, NEW q, q = HandleChunk(p, m, x, f)
  PROVE  \/ /\ p.state # "RECEIVING_TRANSCRIPT" \/ ~ChunkFits(p.assembler, m)
            /\ q = SessionFail(p, "ERROR_PROTOCOL", x)
         \/ Sound(q) /\ Collects(p, q, m) /\ SameTransport(p, q) /\ q.payloads = p.payloads
         \/ \E w \in Phones :
              /\ Completes(p, w, m) /\ Handing(w) /\ SameTransport(p, w)
              /\ w.payloads = p.payloads /\ q = TrySend(w, x, f)
<1> DEFINE text == p.assembler.text \o m.text
           a == [text |-> text, count |-> m.count,
                 total |-> m.total, next |-> p.assembler.next + 1]
           w == [p EXCEPT !.state = "WAITING_TO_SEND", !.transcript = text,
                          !.timers = {"handoff"}]
<1>1. /\ m.text \in Texts /\ m.index \in Nat /\ m.count \in Nat /\ m.total \in Nat
      /\ m.index < m.count /\ m.text # <<>>
  BY WatchMessageTypes DEF Parses
<1>2. /\ Core(p) /\ p \in Phones
      /\ p.assembler \in [text : Texts, count : Nat, total : Nat, next : Nat]
  BY DEF Sound, Core, Phones
<1>3. text \in Texts /\ text # <<>> /\ a \in [text : Texts, count : Nat, total : Nat, next : Nat]
  <2>1. text \in Texts /\ text # <<>>
    BY <1>1, <1>2
  <2> HIDE DEF text
  <2> QED
    BY <1>1, <1>2, <2>1
<1>4. CASE p.state # "RECEIVING_TRANSCRIPT" \/ ~ChunkFits(p.assembler, m)
  BY <1>4 DEF HandleChunk
<1>5. CASE p.state = "RECEIVING_TRANSCRIPT" /\ ChunkFits(p.assembler, m)
  <2>1. CASE m.index + 1 < m.count
    <3>1. q = [p EXCEPT !.assembler = a]
      BY <1>5, <2>1 DEF HandleChunk
    <3> HIDE DEF a
    <3>2. q \in Phones
      BY <1>2, <1>3, <3>1 DEF Phones
    <3>3. /\ SameSession(p, q) /\ SameTransport(p, q) /\ q.assembler = a
          /\ q.state = p.state /\ q.server = p.server /\ q.socket = p.socket
          /\ q.timers = p.timers /\ q.transcript = p.transcript
          /\ q.payloads = p.payloads
      BY <1>2, <3>1, <3>2 DEF Phones, SameSession, SameTransport
    <3>4. Collects(p, q, m)
      BY <1>5, <2>1, <3>3 DEF Collects, SameTransport, a
    <3>5. Core(q)
      BY <1>2, <3>2, <3>3
         DEF Core, Transport, Ordered, InFlight, SameSession, SameTransport
    <3>6. Agree(q) /\ Prompt(q)
      BY <1>5, <3>3 DEF Sound, Agree, Prompt, Waiting
    <3> QED
      BY <3>3, <3>4, <3>5, <3>6 DEF Sound
  <2>2. CASE ~ (m.index + 1 < m.count)
    <3>1. m.index + 1 = m.count
      BY <1>1, <2>2
    <3>2. q = TrySend(w, x, f)
      <4>1. q = SetTranscript([p EXCEPT !.state = "WAITING_TO_SEND"], text, x, f)
        BY <1>5, <2>2 DEF HandleChunk
      <4>2. w = [[p EXCEPT !.state = "WAITING_TO_SEND"]
                   EXCEPT !.transcript = text, !.timers = {"handoff"}]
        OBVIOUS
      <4> QED
        BY <4>1, <4>2 DEF SetTranscript
    <3> HIDE DEF text
    <3>3. "WAITING_TO_SEND" \in SessionStates
      BY DEF SessionStates
    <3>4. w \in Phones
      BY <1>2, <1>3, <3>3 DEF Phones
    <3>5. /\ SameSession(p, w) /\ SameTransport(p, w)
          /\ w.state = "WAITING_TO_SEND" /\ w.transcript = text
          /\ w.timers = {"handoff"} /\ w.server = p.server /\ w.socket = p.socket
          /\ w.payloads = p.payloads
      BY <1>2, <3>4 DEF Phones, SameSession, SameTransport
    <3> HIDE DEF w
    <3>6. Core(w)
      BY <1>2, <1>5, <3>4, <3>5
         DEF Core, Transport, Ordered, InFlight, SameSession, SameTransport
    <3>7. Handing(w)
      BY <1>3, <1>5, <3>5, <3>6 DEF Handing, Sound, Agree, Waiting
    <3>8. Completes(p, w, m)
      BY <1>5, <3>1, <3>5 DEF Completes, SameTransport, text
    <3> QED
      BY <3>2, <3>4, <3>5, <3>7, <3>8
  <2> QED
    BY <2>1, <2>2
<1> QED
  BY <1>4, <1>5

LEMMA HandleChunkSound ==
  ASSUME NEW p, Sound(p), p.state \notin {"FORWARDING_TERMINAL", "CLOSED"},
         NEW m \in WatchInbox, m.type = "TRANSCRIPT_CHUNK", Parses(m),
         NEW f \in Frames \cup {NoFrame},
         NEW x, NEW q, q = HandleChunk(p, m, x, f)
  PROVE  /\ Sound(q)
         /\ \/ Ends(p, q) /\ Stopped(q)
            \/ Collects(p, q, m)
            \/ \E w \in Phones : Completes(p, w, m) /\ Hands(w, q)
<1>1. CASE q = SessionFail(p, "ERROR_PROTOCOL", x)
  <2>1. "ERROR_PROTOCOL" \in StatusCodes
    BY DEF StatusCodes
  <2> QED
    BY <1>1, <2>1, SessionFailSound DEF Sound
<1>2. CASE \E w \in Phones :
             Completes(p, w, m) /\ Handing(w) /\ q = TrySend(w, x, f)
  BY <1>2, TrySendSound
<1> QED
  BY <1>1, <1>2, HandleChunkCases

\* What a message of the watch makes of the phone.
LEMMA OnAppMessageSound ==
  ASSUME NEW p, Sound(p), NEW m \in WatchInbox,
         NEW f \in Frames \cup {NoFrame},
         NEW x, NEW q, q = OnAppMessage(p, m, x, f)
  PROVE  /\ Sound(q)
         /\ IF m.type = "SESSION_BEGIN" THEN Begins(p, q, m)
            ELSE \/ /\ Ends(p, q)
                    /\ m.type = "TRANSCRIPT_CHUNK" /\ m.id = p.id => Stopped(q)
                 \/ /\ m.type = "TRANSCRIPT_CHUNK" /\ Parses(m) /\ m.id = p.id
                    /\ Collects(p, q, m)
                         \/ \E w \in Phones : Completes(p, w, m) /\ Hands(w, q)
<1>1. Core(p)
  BY DEF Sound
<1>2. CASE ~Parses(m)
  <2>1. m.type # "SESSION_BEGIN"
    BY <1>2 DEF Parses
  <2>2. "ERROR_PROTOCOL" \in StatusCodes
    BY DEF StatusCodes
  <2>3. q = SessionFail(p, "ERROR_PROTOCOL", x) \/ (q = p /\ m.id # p.id)
    BY <1>2 DEF OnAppMessage
  <2> QED
    BY <1>1, <2>1, <2>2, <2>3, SessionFailSound DEF Ends, SameSession
<1>3. CASE Parses(m) /\ m.type = "SESSION_BEGIN"
  <2>1. q = StartSession(p, m.id, x) /\ m.id \in ReqIds
    BY <1>3, WatchMessageTypes DEF OnAppMessage
  <2> QED
    BY <1>3, <2>1, StartSessionSound
<1>4. CASE Parses(m) /\ m.type # "SESSION_BEGIN"
  <2>1. CASE m.id # p.id \/ p.state \in {"CLOSED", "FORWARDING_TERMINAL"}
    BY <1>4, <2>1 DEF OnAppMessage, Ends, SameSession, Stopped
  <2>2. CASE /\ ~ (m.id # p.id \/ p.state \in {"CLOSED", "FORWARDING_TERMINAL"})
             /\ m.type = "SESSION_END"
    <3>1. q = SessionClose(p)
      BY <1>4, <2>2 DEF OnAppMessage
    <3> QED
      BY <1>1, <1>4, <2>2, <3>1, SessionCloseSound DEF Ends, Stopped
  <2>3. CASE /\ ~ (m.id # p.id \/ p.state \in {"CLOSED", "FORWARDING_TERMINAL"})
             /\ m.type # "SESSION_END"
    <3>1. q = HandleChunk(p, m, x, f)
      BY <1>4, <2>3 DEF OnAppMessage
    <3>2. m.type = "TRANSCRIPT_CHUNK"
      <4>1. m.type \in {"SESSION_BEGIN", "TRANSCRIPT_CHUNK", "SESSION_END", "MALFORMED"}
        BY WatchInboxAssumption DEF WatchMessages
      <4> QED
        BY <1>4, <2>3, <4>1 DEF Parses
    <3> QED
      BY <1>4, <2>3, <3>1, <3>2, HandleChunkSound
  <2> QED
    BY <2>1, <2>2, <2>3
<1> QED
  BY <1>2, <1>3, <1>4

-----------------------------------------------------------------------------
(* Events of the socket, the timers and the AppMessage callbacks.          *)

\* What such an event leaves of a session that still waits to send.
Follows(p, q) ==
  /\ SameSession(p, q)
  /\ Waiting(q) => /\ q.state = p.state /\ q.assembler = p.assembler
                   /\ q.transcript = p.transcript

LEMMA EndsFollows ==
  ASSUME NEW p, NEW q, Ends(p, q)
  PROVE  Follows(p, q)
  BY DEF Ends, Follows, Waiting, Stopped

LEMMA SocketSound ==
  ASSUME NEW p, Sound(p), p.socket # "none",
         NEW socket \in {"open", "closing"}, socket = "open" => p.socket = "connecting",
         NEW q, q = [p EXCEPT !.socket = socket]
  PROVE  Sound(q) /\ Follows(p, q) /\ q.inflight = p.inflight
<1>1. p \in Phones /\ socket \in SocketStates
  BY DEF Sound, Core, SocketStates
<1>2. q \in Phones
  BY <1>1 DEF Phones
<1>3. /\ SameSession(p, q) /\ SameTransport(p, q) /\ q.state = p.state
      /\ q.assembler = p.assembler /\ q.server = p.server /\ q.socket = socket
      /\ q.timers = p.timers /\ q.transcript = p.transcript /\ q.payloads = p.payloads
  BY <1>1, <1>2 DEF Phones, SameSession, SameTransport
<1>4. Core(q)
  BY <1>2, <1>3
     DEF Sound, Core, Transport, Ordered, InFlight, SameSession, SameTransport
<1>5. Agree(q) /\ Prompt(q)
  BY <1>3 DEF Sound, Agree, Prompt, Waiting
<1> QED
  BY <1>3, <1>4, <1>5 DEF Sound, Follows, SameTransport

\* The phone once its bridge knows that the socket is open.
Opened(p) == [p EXCEPT !.server = "READY"]

\* onopen takes up the transcript, if there is one.
LEMMA OpenCases ==
  ASSUME NEW p, Sound(p), p.socket = "open", p.server = "CONNECTING",
         NEW f \in Frames \cup {NoFrame}, NEW x,
         NEW d, d = Opened(p), NEW q, q = TrySend(d, x, f)
  PROVE  /\ Follows(p, d) /\ SameTransport(p, d) /\ d.payloads = p.payloads
         /\ d \in Phones
         /\ \/ q = d /\ Sound(q)
            \/ d.state = "WAITING_TO_SEND" /\ Handing(d)
<1>1. p \in Phones /\ "READY" \in ServerBridgeStates
  BY DEF Sound, Core, ServerBridgeStates
<1>2. d \in Phones
  BY <1>1 DEF Phones, Opened
<1>3. /\ SameSession(p, d) /\ SameTransport(p, d) /\ d.state = p.state
      /\ d.assembler = p.assembler /\ d.server = "READY" /\ d.socket = p.socket
      /\ d.timers = p.timers /\ d.transcript = p.transcript /\ d.payloads = p.payloads
  BY <1>1, <1>2 DEF Phones, SameSession, SameTransport, Opened
<1>4. Core(d)
  BY <1>2, <1>3
     DEF Sound, Core, Transport, Ordered, InFlight, SameSession, SameTransport
<1>5. Follows(p, d) /\ SameTransport(p, d) /\ d.payloads = p.payloads
  BY <1>3 DEF Follows
<1>6. p.state \in {"RECEIVING_TRANSCRIPT", "WAITING_TO_SEND"}
  BY <1>1 DEF Sound, Agree, Phones, SessionStates
<1>7. CASE p.state = "RECEIVING_TRANSCRIPT"
  <2>1. d.transcript = <<>>
    BY <1>3, <1>7 DEF Sound, Agree
  <2>2. q = d
    BY <2>1 DEF TrySend
  <2>3. Agree(d) /\ Prompt(d)
    BY <1>3, <1>7 DEF Sound, Agree, Prompt, Waiting
  <2> QED
    BY <1>2, <1>4, <1>5, <2>2, <2>3 DEF Sound
<1>8. CASE p.state = "WAITING_TO_SEND"
  <2>1. Handing(d)
    BY <1>3, <1>4, <1>8 DEF Handing, Sound, Agree
  <2> QED
    BY <1>2, <1>3, <1>5, <1>8, <2>1
<1> QED
  BY <1>6, <1>7, <1>8

LEMMA OpenSound ==
  ASSUME NEW p, Sound(p), p.socket = "open", p.server = "CONNECTING",
         NEW f \in Frames \cup {NoFrame}, NEW x,
         NEW d, d = Opened(p), NEW q, q = TrySend(d, x, f)
  PROVE  /\ Sound(q) /\ Follows(p, d) /\ d.inflight = p.inflight /\ d \in Phones
         /\ q = d \/ (d.state = "WAITING_TO_SEND" /\ Hands(d, q))
<1>1. CASE d.state = "WAITING_TO_SEND" /\ Handing(d)
  BY <1>1, OpenCases, TrySendSound DEF SameTransport
<1>2. CASE q = d /\ Sound(q)
  BY <1>2, OpenCases DEF SameTransport
<1> QED
  BY <1>1, <1>2, OpenCases

\* The phone whose message has just been settled, with what may still wait.
Draining(p) ==
  /\ p \in Phones /\ p.inflight = NoEntry
  /\ \A i \in DOMAIN p.queue : p.queue[i].owner = p.serial
  /\ p.state = "AWAITING_RESULT" =>
       \/ p.queue = <<>>
       \/ Len(p.queue) = 1 /\ Announcing(p.queue[1])
  /\ p.state = "FORWARDING_TERMINAL" =>
       \/ Len(p.queue) = 1 /\ Terminal(p.queue[1])
       \/ /\ Len(p.queue) = 2
          /\ Announcing(p.queue[1]) /\ Terminal(p.queue[2])
  /\ p.state \notin {"AWAITING_RESULT", "FORWARDING_TERMINAL"} => p.queue = <<>>
  /\ p.state # "CLOSED" => p.id \in ReqIds /\ p.serial > 0
  /\ \A i \in DOMAIN p.payloads : p.payloads[i].type = "SERVER_RESULT_CHUNK"
  /\ Agree(p) /\ Prompt(p)

\* The transport goes on to the next entry.
LEMMA PumpSound ==
  ASSUME NEW p, Draining(p), NEW x, NEW q, q = Pump(p, x)
  PROVE  Sound(q) /\ Follows(p, q)
<1>1. /\ p \in Phones /\ p.inflight = NoEntry
      /\ \A i \in DOMAIN p.queue : p.queue[i].owner = p.serial
      /\ Agree(p) /\ Prompt(p) /\ p.serial \in Nat
      /\ \A i \in DOMAIN p.payloads : p.payloads[i].type = "SERVER_RESULT_CHUNK"
      /\ p.state # "CLOSED" => p.id \in ReqIds /\ p.serial > 0
  BY DEF Draining, Phones
<1>2. /\ q \in Phones /\ SameSession(p, q)
      /\ \/ q = p /\ p.queue = <<>>
         \/ p.queue # <<>> /\ q.inflight = NoEntry /\ (p.state # "CLOSED" => Shut(q))
         \/ /\ p.queue # <<>> /\ SameBridges(p, q)
            /\ q.inflight = Head(p.queue) /\ q.queue = Tail(p.queue)
  BY <1>1, PumpFields
<1>3. CASE q = p /\ p.queue = <<>>
  <2>1. p.state # "FORWARDING_TERMINAL"
    BY <1>3 DEF Draining
  <2>2. Transport(p) /\ Ordered(p)
    BY <1>1, <1>3, <2>1, EntryTypes DEF Draining, Transport, Ordered, InFlight
  <2> QED
    BY <1>1, <1>2, <1>3, <2>2 DEF Sound, Core, Follows
<1>4. CASE p.queue # <<>> /\ q.inflight = NoEntry /\ (p.state # "CLOSED" => Shut(q))
  <2>1. Shut(q)
    BY <1>4 DEF Draining
  <2>2. q.inflight.owner <= q.serial
    BY <1>1, <1>2, <1>4, EntryTypes DEF SameSession
  <2>3. Follows(p, q)
    BY <1>2, <2>1 DEF Follows, Shut, Waiting
  <2> QED
    BY <1>2, <2>1, <2>2, <2>3, ShutIsSound
<1>5. CASE /\ p.queue # <<>> /\ SameBridges(p, q)
           /\ q.inflight = Head(p.queue) /\ q.queue = Tail(p.queue)
  <2>1. /\ p.queue \in Seq(Entries) /\ Head(p.queue) = p.queue[1]
        /\ p.queue[1] \in Entries /\ p.queue[1].owner = p.serial
    BY <1>1, <1>5 DEF Phones
  <2>2. q.inflight # NoEntry /\ q.inflight.owner = q.serial /\ q.serial \in Nat
    BY <1>1, <1>2, <1>5, <2>1, EntryTypes DEF SameSession
  <2>3. Agree(q) /\ Prompt(q) /\ q.state = p.state
    BY <1>1, <1>5 DEF Agree, Prompt, Waiting, SameBridges
  <2>4. Transport(q) /\ Ordered(q)
    <3>1. CASE p.state = "AWAITING_RESULT"
      <4>1. Len(p.queue) = 1 /\ Announcing(p.queue[1])
        BY <1>5, <3>1 DEF Draining
      <4>2. q.queue = <<>>
        BY <1>5, <2>1, <4>1, TailOfOne
      <4> QED
        BY <1>5, <2>1, <2>2, <2>3, <3>1, <4>1, <4>2 DEF Transport, Ordered
    <3>2. CASE p.state = "FORWARDING_TERMINAL"
      <4>1. CASE Len(p.queue) = 1 /\ Terminal(p.queue[1])
        <5>1. q.queue = <<>>
          BY <1>5, <2>1, <4>1, TailOfOne
        <5> QED
          BY SMTT(30), <1>5, <2>1, <2>2, <2>3, <3>2, <4>1, <5>1 DEF Transport, Ordered, InFlight
      <4>2. CASE /\ Len(p.queue) = 2
                 /\ Announcing(p.queue[1]) /\ Terminal(p.queue[2])
        <5>1. /\ Len(q.queue) = 1 /\ DOMAIN q.queue = {1} /\ q.queue[1] = p.queue[2]
              /\ p.queue[2].owner = p.serial
          BY <1>1, <1>5, <2>1, <4>2
        <5>2. q.serial = p.serial
          BY <1>2 DEF SameSession
        <5> QED
          BY <1>5, <2>1, <2>2, <2>3, <3>2, <4>2, <5>1, <5>2
             DEF Transport, Ordered, InFlight
      <4> QED
        BY <3>2, <4>1, <4>2 DEF Draining
    <3> QED
      BY <1>5, <3>1, <3>2 DEF Draining
  <2>5. Core(q)
    BY <1>1, <1>2, <1>5, <2>4 DEF Core, SameSession, SameBridges
  <2> QED
    BY <1>2, <1>5, <2>3, <2>5 DEF Sound, Follows, SameBridges
<1> QED
  BY <1>2, <1>3, <1>4, <1>5

\* The phone once its message is settled: `done` has yet to be called.
Settled(p, d) ==
  /\ d \in Phones /\ SameSession(p, d) /\ SameBridges(p, d)
  /\ d.inflight = NoEntry /\ d.queue = p.queue

LEMMA SettledFields ==
  ASSUME NEW p \in Phones, NEW d, d = [p EXCEPT !.inflight = NoEntry]
  PROVE  Settled(p, d)
<1>1. d \in Phones
  BY DEF Phones
<1> QED
  BY <1>1 DEF Settled, Phones, SameSession, SameBridges

\* A session that its own completion closes leaves the transport idle.
LEMMA CloseThenPump ==
  ASSUME NEW p, Sound(p), p.state # "CLOSED", NEW d, Settled(p, d), NEW x,
         NEW q, q = Pump(SessionClose(d), x)
  PROVE  Sound(q) /\ Follows(p, q)
<1> DEFINE s == SessionClose(d)
<1>1. /\ d \in Phones /\ SameSession(p, d) /\ d.inflight = NoEntry
      /\ d.state # "CLOSED" /\ d.serial \in Nat
      /\ \A i \in DOMAIN d.queue : d.queue[i].owner = d.serial
  BY DEF Settled, SameSession, SameBridges, Sound, Core, Transport, Phones
<1>2. s \in Phones /\ SameSession(d, s) /\ s.inflight = NoEntry /\ Shut(s)
  BY <1>1, SessionCloseFields
<1> HIDE DEF s
<1>3. q = s
  BY <1>2 DEF Pump, Shut, s
<1>4. s.inflight.owner <= s.serial
  BY <1>1, <1>2, EntryTypes DEF SameSession
<1>5. Follows(p, s)
  BY <1>1, <1>2 DEF Follows, SameSession, Shut, Waiting
<1> QED
  BY <1>2, <1>3, <1>4, <1>5, ShutIsSound

\* The next chunk of a result takes the place of the one that was delivered.
LEMMA NextChunkSound ==
  ASSUME NEW p, Sound(p), p.state = "FORWARDING_TERMINAL", p.queue = <<>>,
         NEW d, Settled(p, d), NEW n \in 1 .. Len(p.payloads), NEW x,
         NEW q, q = Pump(Enqueue(d, p.payloads[n], x), x)
  PROVE  Sound(q) /\ Follows(p, q)
<1> DEFINE m == p.payloads[n]
           e == Enqueue(d, m, x)
<1>1. /\ d \in Phones /\ SameSession(p, d) /\ SameBridges(p, d)
      /\ d.inflight = NoEntry /\ d.queue = <<>>
      /\ d.state = "FORWARDING_TERMINAL" /\ d.serial > 0 /\ d.serial \in Nat
  BY DEF Settled, SameSession, SameBridges, Sound, Core, Phones
<1>2. /\ p.payloads \in Seq(PhoneMessages)
      /\ \A i \in DOMAIN p.payloads : p.payloads[i].type = "SERVER_RESULT_CHUNK"
  BY DEF Sound, Core, Phones
<1>3. m \in PhoneMessages /\ m.type = "SERVER_RESULT_CHUNK"
  BY <1>2
<1>4. Transport(d)
  BY <1>1, EntryTypes DEF Transport
<1> HIDE DEF m
<1>5. /\ e \in Phones /\ SameSession(d, e)
      /\ \/ e.inflight = NoEntry /\ Shut(e)
         \/ /\ SameBridges(d, e)
            /\ e.inflight = EntryOf(d, m) /\ e.queue = <<>>
  BY <1>1, <1>3, <1>4, EnqueueFields
<1> HIDE DEF e
<1>6. q = e
  <2>1. e.queue = <<>>
    BY <1>5 DEF Shut
  <2> QED
    BY <2>1 DEF Pump, e, m
<1>7. CASE e.inflight = NoEntry /\ Shut(e)
  <2>1. e.inflight.owner <= e.serial
    BY <1>1, <1>5, <1>7, EntryTypes DEF SameSession
  <2>2. Follows(p, e)
    BY <1>1, <1>5, <1>7 DEF Follows, SameSession, Shut, Waiting
  <2> QED
    BY <1>5, <1>6, <1>7, <2>1, <2>2, ShutIsSound
<1>8. CASE /\ SameBridges(d, e)
           /\ e.inflight = EntryOf(d, m) /\ e.queue = <<>>
  <2>1. e.inflight.owner = e.serial /\ Terminal(e.inflight) /\ e.serial \in Nat
    BY <1>1, <1>3, <1>5, <1>8 DEF EntryOf, Terminal, SameSession
  <2>2. e.state = "FORWARDING_TERMINAL" /\ Agree(e) /\ Prompt(e)
    BY <1>1, <1>8 DEF Sound, Agree, Prompt, Waiting, SameBridges
  <2>3. Transport(e) /\ Ordered(e)
    BY <1>8, <2>1, <2>2 DEF Transport, Ordered, InFlight
  <2>4. /\ \A i \in DOMAIN e.payloads : e.payloads[i].type = "SERVER_RESULT_CHUNK"
        /\ e.id \in ReqIds /\ e.serial > 0
    BY <1>1, <1>2, <1>5, <1>8 DEF Sound, Core, SameSession, SameBridges
  <2>5. Core(e)
    BY <1>5, <2>3, <2>4 DEF Core
  <2>6. Follows(p, e)
    BY <1>1, <1>5, <2>2 DEF Follows, SameSession, Waiting
  <2> QED
    BY <1>6, <2>2, <2>5, <2>6 DEF Sound
<1> QED
  BY <1>5, <1>7, <1>8

\* A completion lets the transport go on, and may advance or end its session.
LEMMA DoneSound ==
  ASSUME NEW p, Sound(p), p.inflight # NoEntry, NEW ok \in BOOLEAN, NEW x,
         NEW d, Settled(p, d),
         NEW q, q = Pump(Delivered(d, p.inflight, ok, x), x)
  PROVE  Sound(q) /\ Follows(p, q)
<1>1. /\ p \in Phones /\ d \in Phones /\ SameSession(p, d) /\ SameBridges(p, d)
      /\ d.inflight = NoEntry /\ d.queue = p.queue /\ d.state = p.state
      /\ d.serial = p.serial /\ d.payloads = p.payloads
  BY DEF Settled, SameSession, SameBridges, Sound, Core
<1>2. /\ p.inflight \in Entries /\ p.inflight.msg \in PhoneMessages
      /\ Transport(p) /\ Ordered(p)
  BY <1>1, EntryTypes DEF Sound, Core, Phones
<1>3. CASE /\ InFlight(p) /\ p.state = "FORWARDING_TERMINAL"
           /\ Terminal(p.inflight) /\ p.queue = <<>>
  <2>1. Concerns(d, p.inflight)
    BY <1>1, <1>3 DEF Concerns, InFlight
  <2>2. CASE EndsSession(p.inflight, ok)
    <3>1. Delivered(d, p.inflight, ok, x) = SessionClose(d)
      BY <2>1, <2>2 DEF Delivered
    <3> QED
      BY <1>3, <3>1, CloseThenPump
  <2>3. CASE ~EndsSession(p.inflight, ok)
    <3> DEFINE n == p.inflight.msg.index + 2
    <3>1. /\ p.inflight.msg.type = "SERVER_RESULT_CHUNK"
          /\ p.inflight.msg.index \in Nat
      BY <1>2, <1>3, <2>3 DEF EndsSession, Terminal, PhoneMessages
    <3>2. CASE p.inflight.msg.index + 1 < Len(p.payloads)
      <4>1. n \in 1 .. Len(p.payloads)
        <5>1. Len(p.payloads) \in Nat
          BY <1>1 DEF Phones
        <5> QED
          BY <3>1, <3>2, <5>1
      <4>2. Delivered(d, p.inflight, ok, x) = Enqueue(d, p.payloads[n], x)
        BY <1>1, <2>1, <2>3, <3>1, <3>2 DEF Delivered
      <4> HIDE DEF n
      <4> QED
        BY <1>3, <4>1, <4>2, NextChunkSound
    <3>3. CASE ~ (p.inflight.msg.index + 1 < Len(p.payloads))
      <4>1. Delivered(d, p.inflight, ok, x) = SessionClose(d)
        BY <1>1, <2>1, <2>3, <3>1, <3>3 DEF Delivered
      <4> QED
        BY <1>3, <4>1, CloseThenPump
    <3> QED
      BY <3>2, <3>3
  <2> QED
    BY <2>2, <2>3
<1>4. CASE ~ (/\ InFlight(p) /\ p.state = "FORWARDING_TERMINAL"
              /\ Terminal(p.inflight) /\ p.queue = <<>>)
  <2>1. Draining(d)
    <3>1. /\ \A i \in DOMAIN d.queue : d.queue[i].owner = d.serial
          /\ d.state # "CLOSED" => d.id \in ReqIds /\ d.serial > 0
          /\ \A i \in DOMAIN d.payloads : d.payloads[i].type = "SERVER_RESULT_CHUNK"
      BY <1>1, <1>2 DEF Sound, Core, Transport, SameSession
    <3>2. Agree(d) /\ Prompt(d)
      BY <1>1 DEF Sound, Agree, Prompt, Waiting, SameBridges
    <3>3. /\ d.state = "AWAITING_RESULT" =>
               \/ d.queue = <<>>
               \/ Len(d.queue) = 1 /\ Announcing(d.queue[1])
          /\ d.state = "FORWARDING_TERMINAL" =>
               \/ Len(d.queue) = 1 /\ Terminal(d.queue[1])
               \/ /\ Len(d.queue) = 2
                  /\ Announcing(d.queue[1]) /\ Terminal(d.queue[2])
          /\ d.state \notin {"AWAITING_RESULT", "FORWARDING_TERMINAL"} => d.queue = <<>>
      BY <1>1, <1>2, <1>4 DEF Ordered, Phones, SessionStates
    <3> QED
      BY <1>1, <3>1, <3>2, <3>3 DEF Draining
  <2>2. CASE Delivered(d, p.inflight, ok, x) = d
    <3>1. Sound(q) /\ Follows(d, q)
      BY <2>1, <2>2, PumpSound
    <3> QED
      BY <1>1, <3>1 DEF Follows, SameSession, SameBridges
  <2>3. CASE p.state # "CLOSED" /\ Delivered(d, p.inflight, ok, x) = SessionClose(d)
    BY <2>3, CloseThenPump
  <2>4. \/ Delivered(d, p.inflight, ok, x) = d
        \/ p.state # "CLOSED" /\ Delivered(d, p.inflight, ok, x) = SessionClose(d)
    <3>1. CASE ~Concerns(d, p.inflight)
      BY <3>1 DEF Delivered
    <3>2. CASE Concerns(d, p.inflight)
      <4>1. InFlight(p) /\ p.state # "CLOSED"
        BY <1>1, <3>2 DEF Concerns, InFlight
      <4>2. p.inflight.msg.type = "SEND_STARTED"
        BY <1>1, <1>2, <1>4, <4>1 DEF Ordered, Announcing, Phones, SessionStates
      <4> QED
        BY <3>2, <4>1, <4>2 DEF Delivered
    <3> QED
      BY <3>1, <3>2
  <2> QED
    BY <2>2, <2>3, <2>4
<1> QED
  BY <1>3, <1>4

LEMMA SamePhone ==
  ASSUME NEW p \in Phones, NEW q \in Phones,
         SameSession(p, q), SameBridges(p, q), SameTransport(p, q)
  PROVE  q = p
<1> DEFINE F == {"serial", "id", "state", "assembler", "server", "socket", "timers",
                 "transcript", "payloads", "queue", "inflight", "requests"}
<1>1. p = [k \in F |-> p[k]] /\ q = [k \in F |-> q[k]]
  BY DEF Phones
<1>2. \A k \in F : q[k] = p[k]
  BY DEF SameSession, SameBridges, SameTransport
<1> HIDE DEF F
<1>3. [k \in F |-> q[k]] = [k \in F |-> p[k]]
  BY <1>2
<1> QED
  BY <1>1, <1>3, Zenon

\* LateCompletionHarmless, of a step from p to q.
Late(p, q) ==
  \/ p.inflight.owner \in {0, p.serial}
  \/ q.inflight = p.inflight
  \/ q.inflight = NoEntry /\ p.queue # <<>>
  \/ q = [p EXCEPT !.inflight = q.inflight, !.queue = q.queue]

\* A completion for an earlier session only moves the transport on.
LEMMA LateDone ==
  ASSUME NEW p, Sound(p), p.inflight.owner # p.serial, NEW ok \in BOOLEAN, NEW x,
         NEW d, Settled(p, d),
         NEW q, q = Pump(Delivered(d, p.inflight, ok, x), x)
  PROVE  Late(p, q)
<1>1. /\ p \in Phones /\ d \in Phones /\ SameSession(p, d) /\ SameBridges(p, d)
      /\ d.inflight = NoEntry /\ d.queue = p.queue /\ d.serial = p.serial
      /\ \A i \in DOMAIN d.queue : d.queue[i].owner = d.serial
  BY DEF Settled, SameSession, SameBridges, Sound, Core, Transport
<1>2. Delivered(d, p.inflight, ok, x) = d
  BY <1>1 DEF Delivered, Concerns
<1>3. /\ q \in Phones /\ SameSession(d, q)
      /\ \/ q = d
         \/ d.queue # <<>> /\ q.inflight = NoEntry
         \/ SameBridges(d, q)
  BY <1>1, <1>2, PumpFields
<1>4. CASE q = d \/ SameBridges(d, q)
  <2>1. SameSession(p, q) /\ SameBridges(p, q)
    BY <1>1, <1>3, <1>4 DEF SameSession, SameBridges
  <2> DEFINE r == [p EXCEPT !.inflight = q.inflight, !.queue = q.queue]
  <2>2. r \in Phones
    <3> DEFINE moved == [p EXCEPT !.inflight = q.inflight]
    <3>1. q.inflight \in Entries \cup {NoEntry} /\ q.queue \in Seq(Entries)
      BY <1>3 DEF Phones
    <3>2. moved \in Phones
      BY <1>1, <3>1 DEF Phones
    <3>3. r = [moved EXCEPT !.queue = q.queue]
      OBVIOUS
    <3> HIDE DEF moved, r
    <3> QED
      BY <3>1, <3>2, <3>3 DEF Phones
  <2>3. SameSession(r, q) /\ SameBridges(r, q) /\ SameTransport(r, q)
    BY <1>1, <2>1, <2>2 DEF Phones, SameSession, SameBridges, SameTransport
  <2> HIDE DEF r
  <2>4. q = r
    BY <1>3, <2>2, <2>3, SamePhone
  <2> QED
    BY <2>4 DEF r, Late
<1>5. CASE d.queue # <<>> /\ q.inflight = NoEntry
  BY <1>1, <1>5 DEF Late
<1> QED
  BY <1>3, <1>4, <1>5

-----------------------------------------------------------------------------
(* The chunks that the active session has heard.                           *)

\* `chunks` are the first ones of a transcript of `total` pieces in `count`
\* chunks.
Gathered(chunks, id, count, total) ==
  \A i \in DOMAIN chunks :
    /\ chunks[i].id = id /\ chunks[i].index = i - 1
    /\ chunks[i].count = count /\ chunks[i].total = total

\* A session that has not sent has sent nothing, and what it holds is what it
\* has heard.
Heard(p, h) ==
  /\ h \in Seq(WatchMessages)
  /\ \A i \in DOMAIN p.requests :
       /\ p.requests[i].serial <= p.serial
       /\ Waiting(p) => p.requests[i].serial # p.serial
  /\ p.state = "RECEIVING_TRANSCRIPT" =>
       LET a == p.assembler
       IN  /\ a.next = Len(h)
           /\ h # <<>> => a.count > 0
           /\ Gathered(h, p.id, a.count, a.total)
           /\ Concatenates(a.text, h)
  /\ p.state = "WAITING_TO_SEND" =>
       /\ h # <<>>
       /\ Gathered(h, p.id, Len(h), Len(p.transcript))
       /\ Concatenates(p.transcript, h)

IInv == Sound(phone) /\ Heard(phone, heard)

LEMMA ConcatenatesNothing == Concatenates(<<>>, <<>>)
<1> DEFINE ends == [i \in 0 .. 0 |-> 0]
<1>1. /\ ends \in [0 .. 0 -> 0 .. 0] /\ ends[0] = 0
      /\ \A i \in 1 .. 0 : /\ ends[i - 1] <= ends[i]
                          /\ <<>>[i].text = SubSeq(<<>>, ends[i - 1] + 1, ends[i])
  OBVIOUS
<1> HIDE DEF ends
<1>2. \A s : s = <<>> => Len(s) = 0
  OBVIOUS
<1> QED
  BY <1>1, <1>2 DEF Concatenates

LEMMA ConcatenatesMore ==
  ASSUME NEW text \in Texts, NEW h \in Seq(WatchMessages), Concatenates(text, h),
         NEW m \in WatchMessages, m.text \in Texts
  PROVE  Concatenates(text \o m.text, Append(h, m))
<1> DEFINE n == Len(h)
           k == Len(text)
           l == Len(m.text)
           t == text \o m.text
           g == Append(h, m)
<1>1. /\ n \in Nat /\ k \in Nat /\ l \in Nat /\ t \in Texts /\ Len(t) = k + l
      /\ \A j \in 1 .. k : t[j] = text[j]
      /\ \A j \in 1 .. l : t[k + j] = m.text[j]
  OBVIOUS
<1>2. g \in Seq(WatchMessages) /\ Len(g) = n + 1 /\ g[n + 1] = m
      /\ \A i \in 1 .. n : g[i] = h[i]
  BY AppendFacts
<1>3. PICK ends \in [0 .. n -> 0 .. k] :
        /\ ends[0] = 0 /\ ends[n] = k
        /\ \A i \in 1 .. n : /\ ends[i - 1] <= ends[i]
                             /\ h[i].text = SubSeq(text, ends[i - 1] + 1, ends[i])
  BY DEF Concatenates
<1> DEFINE more == [i \in 0 .. n + 1 |-> IF i = n + 1 THEN k + l ELSE ends[i]]
<1> HIDE DEF t, g
<1>4. /\ more \in [0 .. n + 1 -> 0 .. k + l] /\ more[n + 1] = k + l
      /\ \A i \in 0 .. n : more[i] = ends[i] /\ ends[i] \in 0 .. k
  <2>1. \A i \in 0 .. n : ends[i] \in 0 .. k /\ i # n + 1 /\ i \in 0 .. n + 1
    BY <1>1
  <2>2. \A i \in 0 .. n + 1 : i = n + 1 \/ i \in 0 .. n
    BY <1>1
  <2>3. k + l \in 0 .. k + l /\ n + 1 \in 0 .. n + 1 /\ (0 .. k) \subseteq (0 .. k + l)
    BY <1>1
  <2> HIDE DEF n, k, l
  <2>4. \A i \in 0 .. n : more[i] = ends[i]
    BY <2>1
  <2>5. more[n + 1] = k + l
    BY <2>3
  <2>6. \A i \in 0 .. n + 1 : (IF i = n + 1 THEN k + l ELSE ends[i]) \in 0 .. k + l
    BY <2>1, <2>2, <2>3
  <2>7. more \in [0 .. n + 1 -> 0 .. k + l]
    BY <2>6
  <2> QED
    BY <2>1, <2>4, <2>5, <2>7
<1> HIDE DEF more
<1>5. more[0] = 0 /\ more[n] = k
  BY <1>1, <1>3, <1>4
<1>6. \A i \in 1 .. n + 1 :
        /\ more[i - 1] <= more[i]
        /\ g[i].text = SubSeq(t, more[i - 1] + 1, more[i])
  <2> SUFFICES ASSUME NEW i \in 1 .. n + 1
               PROVE  /\ more[i - 1] <= more[i]
                      /\ g[i].text = SubSeq(t, more[i - 1] + 1, more[i])
    OBVIOUS
  <2>1. CASE i \in 1 .. n
    <3> DEFINE a == ends[i - 1]
               b == ends[i]
    <3>1. /\ a \in 0 .. k /\ b \in 0 .. k /\ more[i - 1] = a /\ more[i] = b /\ a <= b
          /\ g[i].text = SubSeq(text, a + 1, b)
      <4>1. i - 1 \in 0 .. n /\ i \in 0 .. n
        BY <1>1, <2>1
      <4> QED
        BY <1>2, <1>3, <1>4, <2>1, <4>1
    <3> HIDE DEF a, b
    <3>2. SubSeq(text, a + 1, b) = SubSeq(t, a + 1, b)
      BY <1>1, <3>1
    <3> QED
      BY <3>1, <3>2
  <2>2. CASE i = n + 1
    <3>1. more[i - 1] = k /\ more[i] = k + l /\ g[i].text = m.text
      BY <1>1, <1>2, <1>4, <1>5, <2>2
    <3>2. m.text = SubSeq(t, k + 1, k + l)
      BY <1>1
    <3> QED
      BY <1>1, <3>1, <3>2
  <2> QED
    BY <1>1, <2>1, <2>2
<1>7. Len(g) = n + 1 /\ Len(t) = k + l
  BY <1>1, <1>2
<1> QED
  BY <1>4, <1>5, <1>6, <1>7 DEF Concatenates, t, g

\* SendsWholeTranscript, of a step from p to q after which h has been heard.
Whole(p, q, h) ==
  q.requests # p.requests =>
    LET r == Last(q.requests)
    IN  /\ Front(q.requests) = p.requests
        /\ r.serial = q.serial /\ r.id = q.id
        /\ h # <<>>
        /\ \A i \in DOMAIN h :
             /\ h[i].id = r.id /\ h[i].index = i - 1
             /\ h[i].count = Len(h) /\ h[i].total = Len(r.transcript)
        /\ Concatenates(r.transcript, h)
        /\ \A i \in DOMAIN p.requests : p.requests[i].serial # r.serial

LEMMA HeardFollows ==
  ASSUME NEW p, NEW h, Heard(p, h), NEW q, Follows(p, q)
  PROVE  Heard(q, h) /\ Whole(p, q, h)
BY DEF Heard, Follows, SameSession, Waiting, Whole

\* A stopped session claims nothing of what it has heard.
LEMMA HeardStopped ==
  ASSUME NEW p, NEW h, Heard(p, h), NEW q, SameSession(p, q), Stopped(q),
         NEW g \in Seq(WatchMessages)
  PROVE  Heard(q, g) /\ Whole(p, q, g)
BY DEF Heard, SameSession, Waiting, Stopped, Whole

LEMMA HeardHands ==
  ASSUME NEW w \in Phones, w.state = "WAITING_TO_SEND", NEW h, Heard(w, h),
         NEW q, Hands(w, q)
  PROVE  Heard(q, h) /\ Whole(w, q, h)
<1>1. CASE q = w
  BY <1>1 DEF Whole
<1>2. CASE ~Waiting(q) /\ q.requests = w.requests
  BY <1>2 DEF Hands, Heard, Waiting, Whole
<1>3. CASE ~Waiting(q) /\ q.requests = Append(w.requests, RequestOf(w))
  <2> DEFINE S == [serial : Nat, id : ReqIds \cup {NoId}, transcript : Texts]
             n == Len(w.requests)
             r == RequestOf(w)
  <2>1. /\ w.requests \in Seq(S) /\ r \in S
        /\ r.serial = w.serial /\ r.id = w.id /\ r.transcript = w.transcript
    <3>1. w.requests \in Seq([serial : Nat \ {0}, id : ReqIds, transcript : Texts])
      BY DEF Phones
    <3>2. w.serial \in Nat /\ w.id \in ReqIds \cup {NoId} /\ w.transcript \in Texts
      BY DEF Phones
    <3>3. [serial : Nat \ {0}, id : ReqIds, transcript : Texts] \subseteq S
      OBVIOUS
    <3> HIDE DEF S
    <3>4. w.requests \in Seq(S)
      BY <3>1, <3>3, SeqMonotone
    <3>5. r \in S
      BY <3>2 DEF S, RequestOf
    <3> QED
      BY <3>4, <3>5 DEF RequestOf
  <2> HIDE DEF S, r
  <2>2. /\ Len(q.requests) = n + 1 /\ q.requests[n + 1] = r
        /\ \A i \in 1 .. n : q.requests[i] = w.requests[i]
        /\ DOMAIN q.requests = 1 .. n + 1 /\ DOMAIN w.requests = 1 .. n /\ n \in Nat
    <3>1. q.requests = Append(w.requests, r)
      BY <1>3 DEF r
    <3> QED
      BY <2>1, <3>1, AppendFacts
  <2>3. Last(q.requests) = r
    BY <2>2 DEF Last
  <2>4. Front(q.requests) = w.requests
    <3>1. Front(q.requests) = SubSeq(Append(w.requests, r), 1, n)
      BY <1>3, <2>2 DEF Front, r
    <3>2. SubSeq(Append(w.requests, r), 1, n) = w.requests
      BY <2>1
    <3> QED
      BY <3>1, <3>2
  <2>5. q.serial = w.serial /\ q.id = w.id
    BY DEF Hands
  <2>6. /\ h \in Seq(WatchMessages) /\ h # <<>>
        /\ Gathered(h, w.id, Len(h), Len(w.transcript))
        /\ Concatenates(w.transcript, h)
        /\ \A i \in 1 .. n : /\ w.requests[i].serial <= w.serial
                             /\ w.requests[i].serial # w.serial
    BY <2>2 DEF Heard, Waiting
  <2>7. Whole(w, q, h)
    BY <2>1, <2>2, <2>3, <2>4, <2>5, <2>6 DEF Whole, Gathered
  <2>8. \A i \in DOMAIN q.requests : q.requests[i].serial <= q.serial
    <3>1. \A i \in 1 .. n + 1 : i \in 1 .. n \/ i = n + 1
      BY <2>2
    <3>2. w.serial \in Nat
      BY DEF Phones
    <3> QED
      BY <2>1, <2>2, <2>5, <2>6, <3>1, <3>2
  <2>9. Heard(q, h)
    BY <1>3, <2>6, <2>8 DEF Heard, Waiting
  <2> QED
    BY <2>7, <2>9
<1> QED
  BY <1>1, <1>2, <1>3 DEF Hands

LEMMA HeardBegins ==
  ASSUME NEW p \in Phones, NEW h, Heard(p, h), NEW m, NEW q, Begins(p, q, m)
  PROVE  Heard(q, <<>>) /\ Whole(p, q, <<>>)
<1>1. \A i \in DOMAIN q.requests :
        q.requests[i].serial <= q.serial /\ q.requests[i].serial # q.serial
  <2> SUFFICES ASSUME NEW i \in DOMAIN q.requests
               PROVE  q.requests[i].serial <= q.serial /\ q.requests[i].serial # q.serial
    OBVIOUS
  <2>1. q.requests = p.requests /\ q.serial = p.serial + 1
    BY DEF Begins
  <2>2. p.requests[i].serial \in Nat /\ p.serial \in Nat /\ p.requests[i].serial <= p.serial
    <3>1. /\ p.requests \in Seq([serial : Nat \ {0}, id : ReqIds, transcript : Texts])
          /\ p.serial \in Nat /\ i \in DOMAIN p.requests
      BY <2>1 DEF Phones
    <3>2. p.requests[i].serial <= p.serial
      BY <3>1 DEF Heard
    <3>3. p.requests[i].serial \in Nat
      <4>1. p.requests[i] \in [serial : Nat \ {0}, id : ReqIds, transcript : Texts]
        BY <3>1, SeqElement
      <4> QED
        BY <4>1
    <3> QED
      BY <3>1, <3>2, <3>3
  <2> QED
    BY <2>1, <2>2
<1>2. <<>> \in Seq(WatchMessages) /\ Len(<<>>) = 0 /\ DOMAIN <<>> = {}
  OBVIOUS
<1>3. q.state = "RECEIVING_TRANSCRIPT" =>
        /\ q.assembler.next = Len(<<>>) /\ Concatenates(q.assembler.text, <<>>)
        /\ Gathered(<<>>, q.id, q.assembler.count, q.assembler.total)
  BY <1>2, ConcatenatesNothing DEF Begins, NoTranscript, Gathered
<1> QED
  BY <1>1, <1>2, <1>3 DEF Begins, Heard, Whole, Stopped

\* The chunks heard with one more.
LEMMA OneMoreChunk ==
  ASSUME NEW p \in Phones, NEW h, Heard(p, h), p.state = "RECEIVING_TRANSCRIPT",
         NEW m \in WatchMessages, m.text \in Texts, m.id = p.id,
         m.index \in Nat, m.count \in Nat, m.total \in Nat,
         ChunkFits(p.assembler, m), m.index < m.count
  PROVE  LET g == Append(h, m)
             t == p.assembler.text \o m.text
         IN  /\ g \in Seq(WatchMessages) /\ g # <<>> /\ Len(g) = m.index + 1
             /\ Gathered(g, p.id, m.count, m.total)
             /\ Concatenates(t, g)
             /\ m.index = p.assembler.next
             /\ m.index + 1 = m.count => m.total = Len(t)
<1> DEFINE g == Append(h, m)
           n == Len(h)
           a == p.assembler
<1>1. a.text \in Texts /\ a.count \in Nat /\ a.total \in Nat /\ a.next \in Nat
  BY DEF Phones
<1>2. /\ h \in Seq(WatchMessages) /\ a.next = n /\ (h # <<>> => a.count > 0)
      /\ Gathered(h, p.id, a.count, a.total) /\ Concatenates(a.text, h)
  BY DEF Heard
<1>3. /\ a.count = 0 \/ (m.count = a.count /\ m.total = a.total)
      /\ m.index = a.next
      /\ m.index + 1 = m.count => Len(a.text) + Len(m.text) = m.total
  BY DEF ChunkFits
<1> HIDE DEF a
<1>4. /\ g \in Seq(WatchMessages) /\ g # <<>> /\ Len(g) = n + 1 /\ DOMAIN g = 1 .. n + 1
      /\ g[n + 1] = m /\ \A i \in 1 .. n : g[i] = h[i]
  BY <1>2, AppendFacts
<1>5. n \in Nat /\ DOMAIN h = 1 .. n
  BY <1>2
<1>6. Gathered(g, p.id, m.count, m.total)
  <2> HIDE DEF g, n
  <2>1. SUFFICES ASSUME NEW i \in 1 .. n + 1
                 PROVE  /\ g[i].id = p.id /\ g[i].index = i - 1
                        /\ g[i].count = m.count /\ g[i].total = m.total
    BY <1>4 DEF Gathered
  <2>2. CASE i = n + 1
    BY <1>2, <1>3, <1>4, <1>5, <2>2
  <2>3. CASE i \in 1 .. n
    <3>1. h # <<>>
      BY <1>5, <2>3 DEF n
    <3>2. m.count = a.count /\ m.total = a.total
      BY <1>1, <1>2, <1>3, <3>1
    <3> QED
      BY <1>2, <1>4, <1>5, <2>3, <3>2 DEF Gathered
  <2> QED
    BY <1>5, <2>2, <2>3
<1>7. Concatenates(a.text \o m.text, g)
  BY <1>1, <1>2, ConcatenatesMore
<1>8. Len(a.text \o m.text) = Len(a.text) + Len(m.text)
  BY <1>1
<1> QED
  BY <1>2, <1>3, <1>4, <1>6, <1>7, <1>8 DEF a

LEMMA HeardChunk ==
  ASSUME NEW p \in Phones, NEW h, Heard(p, h),
         NEW m \in WatchMessages, m.text \in Texts, m.id = p.id,
         m.index \in Nat, m.count \in Nat, m.total \in Nat, m.index < m.count,
         NEW q
  PROVE  /\ Collects(p, q, m) => Heard(q, Append(h, m)) /\ Whole(p, q, Append(h, m))
         /\ Completes(p, q, m) => Heard(q, Append(h, m))
<1> DEFINE g == Append(h, m)
           t == p.assembler.text \o m.text
<1>1. ASSUME Collects(p, q, m) PROVE Heard(q, g) /\ Whole(p, q, g)
  <2>1. /\ SameSession(p, q) /\ p.state = "RECEIVING_TRANSCRIPT"
        /\ q.state = "RECEIVING_TRANSCRIPT" /\ ChunkFits(p.assembler, m)
        /\ q.assembler.text = t /\ q.assembler.count = m.count
        /\ q.assembler.total = m.total /\ q.assembler.next = p.assembler.next + 1
    <3>1. /\ SameSession(p, q) /\ p.state = "RECEIVING_TRANSCRIPT"
          /\ q.state = "RECEIVING_TRANSCRIPT" /\ ChunkFits(p.assembler, m)
          /\ q.assembler = [text |-> t, count |-> m.count,
                            total |-> m.total, next |-> p.assembler.next + 1]
      BY <1>1 DEF Collects
    <3> HIDE DEF t
    <3> QED
      BY <3>1
  <2>2. /\ g \in Seq(WatchMessages) /\ g # <<>> /\ Len(g) = m.index + 1
        /\ Gathered(g, p.id, m.count, m.total)
        /\ Concatenates(t, g)
        /\ m.index = p.assembler.next
    BY <2>1, OneMoreChunk
  <2> HIDE DEF g, t
  <2> QED
    BY <2>1, <2>2 DEF Heard, SameSession, Waiting, Whole
<1>2. ASSUME Completes(p, q, m) PROVE Heard(q, g)
  <2>1. /\ SameSession(p, q) /\ p.state = "RECEIVING_TRANSCRIPT"
        /\ q.state = "WAITING_TO_SEND" /\ ChunkFits(p.assembler, m)
        /\ m.index + 1 = m.count /\ q.transcript = t
    BY <1>2 DEF Completes
  <2>2. /\ g \in Seq(WatchMessages) /\ g # <<>> /\ Len(g) = m.index + 1
        /\ Gathered(g, p.id, m.count, m.total)
        /\ Concatenates(t, g)
        /\ m.index + 1 = m.count => m.total = Len(t)
    BY <2>1, OneMoreChunk
  <2> HIDE DEF g, t
  <2> QED
    BY <2>1, <2>2 DEF Heard, SameSession, Waiting
<1> QED
  BY <1>1, <1>2

-----------------------------------------------------------------------------
(* The invariant, step by step.                                            *)

Keeps == IInv' /\ Whole(phone, phone', heard') /\ Late(phone, phone')

\* The session stays the same; it starts to wait in no such step, and it adds
\* to the requests when it ceases to.
Stays(p, q) ==
  /\ q.serial = p.serial /\ q.id = p.id
  /\ Waiting(q) => Waiting(p)
  /\ q.requests # p.requests => Waiting(p) /\ ~Waiting(q)

LEMMA KeptInFlight ==
  ASSUME NEW p, NEW q, p.inflight # NoEntry => q.inflight = p.inflight
  PROVE  Late(p, q)
BY EntryTypes DEF Late

\* A step that hears nothing and leaves a waiting session as it was.
LEMMA QuietStep ==
  ASSUME IInv, UNCHANGED heard, Sound(phone'), Follows(phone, phone'),
         Late(phone, phone')
  PROVE  Keeps /\ Stays(phone, phone')
BY HeardFollows DEF IInv, Keeps, Stays, Follows, SameSession, Waiting

LEMMA EndingStep ==
  ASSUME IInv, UNCHANGED heard, Sound(phone'), Ends(phone, phone')
  PROVE  Keeps /\ Stays(phone, phone')
<1>1. Follows(phone, phone')
  BY EndsFollows
<1>2. Late(phone, phone')
  BY KeptInFlight DEF Ends
<1> QED
  BY <1>1, <1>2, QuietStep

LEMMA ServerFailKeeps ==
  ASSUME IInv, UNCHANGED heard, NEW error \in DOMAIN StatusForServerError, NEW x,
         phone' = ServerFail(phone, error, x)
  PROVE  Keeps /\ Stays(phone, phone')
<1>1. Sound(phone) /\ Core(phone)
  BY DEF IInv, Sound
<1>2. Sound(phone') /\ Ends(phone, phone')
  BY <1>1, ServerFailSound
<1> QED
  BY <1>2, EndingStep

LEMMA SocketKeeps ==
  ASSUME IInv, SocketOpens \/ SocketCloses
  PROVE  Keeps /\ Stays(phone, phone')
<1>1. Sound(phone') /\ Follows(phone, phone') /\ phone'.inflight = phone.inflight
  <2>1. CASE SocketOpens
    BY <2>1, SocketSound DEF SocketOpens, IInv
  <2>2. CASE SocketCloses
    BY <2>2, SocketSound DEF SocketCloses, IInv
  <2> QED
    BY <2>1, <2>2
<1> QED
  BY <1>1, KeptInFlight, QuietStep DEF SocketOpens, SocketCloses

LEMMA OnOpenKeeps ==
  ASSUME IInv, OnOpen
  PROVE  Keeps /\ Stays(phone, phone')
<1>1. PICK x \in SUBSET MayThrow, f \in PromptFrames \cup {NoFrame} :
        phone' = TrySend([phone EXCEPT !.server = "READY"], x, f)
  BY DEF OnOpen
<1> DEFINE d == Opened(phone)
<1>2. f \in Frames \cup {NoFrame}
  BY FramesAssumption
<1>a. phone' = TrySend(d, x, f) /\ d = Opened(phone)
  BY <1>1 DEF Opened
<1>b. Sound(phone) /\ phone.socket = "open" /\ phone.server = "CONNECTING"
  BY DEF OnOpen, IInv
<1> HIDE DEF d
<1>3. /\ Sound(phone') /\ Follows(phone, d) /\ d.inflight = phone.inflight /\ d \in Phones
      /\ phone' = d \/ (d.state = "WAITING_TO_SEND" /\ Hands(d, phone'))
  BY <1>2, <1>a, <1>b, OpenSound
<1>4. Heard(d, heard) /\ heard' = heard
  BY <1>3, HeardFollows DEF IInv, OnOpen
<1>5. CASE phone' = d
  BY <1>3, <1>4, <1>5, KeptInFlight, QuietStep
<1>6. CASE d.state = "WAITING_TO_SEND" /\ Hands(d, phone')
  <2>1. Heard(phone', heard) /\ Whole(d, phone', heard)
    BY <1>3, <1>4, <1>6, HeardHands
  <2>2. Whole(phone, phone', heard)
    BY <1>3, <2>1 DEF Whole, Follows, SameSession
  <2>3. Late(phone, phone')
    BY <1>3, <1>6, KeptInFlight DEF Hands
  <2>4. Stays(phone, phone')
    BY <1>3, <1>6 DEF Hands, Follows, SameSession, Waiting, Stays
  <2> QED
    BY <1>3, <1>4, <2>1, <2>2, <2>3, <2>4 DEF Keeps, IInv
<1> QED
  BY <1>3, <1>5, <1>6

LEMMA OnFrameKeeps ==
  ASSUME IInv, NEW f \in Frames, OnFrame(f)
  PROVE  Keeps /\ Stays(phone, phone')
<1>1. PICK x \in SUBSET MayThrow : phone' = HandleFrame(phone, f, x)
  BY DEF OnFrame
<1>2. Sound(phone') /\ Ends(phone, phone')
  BY <1>1, HandleFrameSound DEF IInv
<1> QED
  BY <1>2, EndingStep DEF OnFrame

LEMMA FailureKeeps ==
  ASSUME IInv, OnErrorOrClose \/ HandoffTimeout \/ ResultTimeout
  PROVE  Keeps /\ Stays(phone, phone')
<1>1. {"SERVER", "HANDOFF_TIMEOUT", "RESULT_TIMEOUT"} \subseteq DOMAIN StatusForServerError
  BY DEF StatusForServerError
<1>2. CASE OnErrorOrClose
  BY <1>1, <1>2, ServerFailKeeps DEF OnErrorOrClose
<1>3. CASE HandoffTimeout
  BY <1>1, <1>3, ServerFailKeeps DEF HandoffTimeout
<1>4. CASE ResultTimeout
  BY <1>1, <1>4, ServerFailKeeps DEF ResultTimeout
<1> QED
  BY <1>2, <1>3, <1>4

LEMMA AppMessageDoneKeeps ==
  ASSUME IInv, NEW ok \in BOOLEAN, AppMessageDone(ok)
  PROVE  Keeps /\ Stays(phone, phone')
<1> DEFINE d == [phone EXCEPT !.inflight = NoEntry]
<1>1. PICK x \in SUBSET MayThrow :
        phone' = Pump(Delivered(d, phone.inflight, ok, x), x)
  BY DEF AppMessageDone
<1>2. Sound(phone) /\ phone.inflight # NoEntry /\ UNCHANGED heard
  BY DEF IInv, AppMessageDone
<1>3. Settled(phone, d)
  BY <1>2, SettledFields DEF Sound, Core
<1> HIDE DEF d
<1>4. Sound(phone') /\ Follows(phone, phone')
  BY <1>1, <1>2, <1>3, DoneSound
<1>5. Late(phone, phone')
  <2>1. CASE phone.inflight.owner = phone.serial
    BY <2>1 DEF Late
  <2>2. CASE phone.inflight.owner # phone.serial
    BY <1>1, <1>2, <1>3, <2>2, LateDone
  <2> QED
    BY <2>1, <2>2
<1> QED
  BY <1>2, <1>4, <1>5, QuietStep

LEMMA ReceiveKeeps ==
  ASSUME IInv, NEW m \in WatchInbox, Receive(m)
  PROVE  /\ Keeps
         /\ IF m.type = "SESSION_BEGIN" THEN Begins(phone, phone', m)
                                        ELSE Stays(phone, phone')
<1>1. PICK x \in SUBSET MayThrow, f \in PromptFrames \cup {NoFrame} :
        phone' = OnAppMessage(phone, m, x, f)
  BY DEF Receive
<1>2. f \in Frames \cup {NoFrame}
  BY FramesAssumption
<1>3. /\ Sound(phone) /\ Heard(phone, heard) /\ phone \in Phones
      /\ heard \in Seq(WatchMessages)
  BY DEF IInv, Sound, Core, Heard
<1>4. /\ Sound(phone')
      /\ IF m.type = "SESSION_BEGIN" THEN Begins(phone, phone', m)
         ELSE \/ /\ Ends(phone, phone')
                 /\ m.type = "TRANSCRIPT_CHUNK" /\ m.id = phone.id => Stopped(phone')
              \/ /\ m.type = "TRANSCRIPT_CHUNK" /\ Parses(m) /\ m.id = phone.id
                 /\ Collects(phone, phone', m)
                      \/ \E w \in Phones : Completes(phone, w, m) /\ Hands(w, phone')
  BY <1>1, <1>2, <1>3, OnAppMessageSound
<1>5. heard' = IF m.type = "SESSION_BEGIN" THEN <<>>
               ELSE IF m.type = "TRANSCRIPT_CHUNK" /\ m.id = phone.id
                       /\ phone.state \notin {"CLOSED", "FORWARDING_TERMINAL"}
                 THEN Append(heard, m)
               ELSE heard
  BY DEF Receive
<1>6. CASE m.type = "SESSION_BEGIN"
  <2>1. Begins(phone, phone', m) /\ heard' = <<>>
    BY <1>4, <1>5, <1>6
  <2>2. Heard(phone', <<>>) /\ Whole(phone, phone', <<>>)
    BY <1>3, <2>1, HeardBegins
  <2>3. Late(phone, phone')
    BY <2>1, KeptInFlight DEF Begins
  <2> QED
    BY <1>4, <1>6, <2>1, <2>2, <2>3 DEF Keeps, IInv
<1>7. CASE /\ m.type # "SESSION_BEGIN" /\ Ends(phone, phone')
           /\ m.type = "TRANSCRIPT_CHUNK" /\ m.id = phone.id => Stopped(phone')
  <2>1. CASE heard' = heard
    BY <1>3, <1>4, <1>7, <2>1, EndingStep
  <2>2. CASE heard' # heard
    <3>1. m.type = "TRANSCRIPT_CHUNK" /\ heard' = Append(heard, m) /\ Stopped(phone')
      BY <1>5, <1>7, <2>2
    <3>2. heard' \in Seq(WatchMessages)
      BY <1>3, <3>1, WatchMessageTypes
    <3>3. Heard(phone', heard') /\ Whole(phone, phone', heard')
      BY <1>3, <1>7, <3>1, <3>2, HeardStopped DEF Ends
    <3>4. Late(phone, phone')
      BY <1>7, KeptInFlight DEF Ends
    <3> QED
      BY <1>4, <1>7, <3>3, <3>4 DEF Keeps, IInv, Ends, SameSession, Waiting, Stopped, Stays
  <2> QED
    BY <2>1, <2>2
<1>8. CASE /\ m.type = "TRANSCRIPT_CHUNK" /\ Parses(m) /\ m.id = phone.id
           /\ Collects(phone, phone', m)
                \/ \E w \in Phones : Completes(phone, w, m) /\ Hands(w, phone')
  <2>1. /\ m \in WatchMessages /\ m.text \in Texts
        /\ m.index \in Nat /\ m.count \in Nat /\ m.total \in Nat /\ m.index < m.count
    BY <1>8, WatchMessageTypes DEF Parses
  <2>2. heard' = Append(heard, m)
    BY <1>5, <1>8 DEF Collects, Completes
  <2>3. CASE Collects(phone, phone', m)
    <3>1. Heard(phone', heard') /\ Whole(phone, phone', heard')
      BY <1>3, <1>8, <2>1, <2>2, <2>3, HeardChunk
    <3>2. Late(phone, phone')
      BY <2>3, KeptInFlight DEF Collects
    <3> QED
      BY <1>4, <1>8, <2>3, <3>1, <3>2 DEF Keeps, IInv, Collects, SameSession, Waiting, Stays
  <2>4. CASE \E w \in Phones : Completes(phone, w, m) /\ Hands(w, phone')
    <3>1. PICK w \in Phones : Completes(phone, w, m) /\ Hands(w, phone')
      BY <2>4
    <3>2. Heard(w, heard')
      BY <1>3, <1>8, <2>1, <2>2, <3>1, HeardChunk
    <3>3. Heard(phone', heard') /\ Whole(w, phone', heard')
      BY <3>1, <3>2, HeardHands DEF Completes
    <3>4. Whole(phone, phone', heard')
      BY <3>1, <3>3 DEF Whole, Completes, SameSession
    <3>5. Late(phone, phone')
      BY <3>1, KeptInFlight DEF Completes, Hands
    <3>6. Stays(phone, phone')
      BY <3>1 DEF Completes, Hands, SameSession, Waiting, Stays
    <3> QED
      BY <1>4, <1>8, <3>3, <3>4, <3>5, <3>6 DEF Keeps, IInv
  <2> QED
    BY <1>8, <2>3, <2>4
<1> QED
  BY <1>4, <1>6, <1>7, <1>8

LEMMA NextKeeps ==
  ASSUME IInv, [Next]_phoneVars
  PROVE  IInv' /\ Whole(phone, phone', heard') /\ Late(phone, phone')
<1>1. CASE \E m \in WatchInbox : Receive(m)
  BY <1>1, ReceiveKeeps DEF Keeps
<1>2. CASE SocketOpens \/ SocketCloses
  BY <1>2, SocketKeeps DEF Keeps
<1>3. CASE OnOpen
  BY <1>3, OnOpenKeeps DEF Keeps
<1>4. CASE OnErrorOrClose \/ HandoffTimeout \/ ResultTimeout
  BY <1>4, FailureKeeps DEF Keeps
<1>5. CASE \E f \in Frames : OnFrame(f)
  BY <1>5, OnFrameKeeps DEF Keeps
<1>6. CASE \E ok \in BOOLEAN : AppMessageDone(ok)
  BY <1>6, AppMessageDoneKeeps DEF Keeps
<1>7. CASE UNCHANGED phoneVars
  BY <1>7 DEF phoneVars, IInv, Whole, Late
<1> QED
  BY <1>1, <1>2, <1>3, <1>4, <1>5, <1>6, <1>7 DEF Next

LEMMA IdleIsSound == Idle \in Phones /\ Sound(Idle) /\ Heard(Idle, <<>>)
<1>1. Idle \in Phones
  <2>1. /\ 0 \in Nat /\ "CLOSED" \in SessionStates
        /\ "CLOSED" \in ServerBridgeStates /\ "none" \in SocketStates
        /\ {} \in SUBSET {"handoff", "result"}
    BY DEF SessionStates, ServerBridgeStates, SocketStates
  <2>2. /\ <<>> \in Texts /\ <<>> \in Seq(PhoneMessages) /\ <<>> \in Seq(Entries)
        /\ <<>> \in Seq([serial : Nat \ {0}, id : ReqIds, transcript : Texts])
    OBVIOUS
  <2> QED
    BY <2>1, <2>2, EntryTypes DEF Idle, Phones
<1>2. Shut(Idle) /\ Idle.inflight.owner <= Idle.serial /\ Idle.requests = <<>>
  BY EntryTypes DEF Idle, Shut, ServerShut
<1>3. Sound(Idle)
  BY <1>1, <1>2, ShutIsSound
<1>4. Heard(Idle, <<>>)
  BY <1>2 DEF Heard, Shut
<1> QED
  BY <1>1, <1>3, <1>4

LEMMA InitHolds == Init => IInv
  BY IdleIsSound DEF Init, IInv

THEOREM Invariance == Spec => []IInv
<1>1. IInv /\ [Next]_phoneVars => IInv'
  BY NextKeeps
<1> QED
  BY <1>1, InitHolds, PTL DEF Spec

-----------------------------------------------------------------------------
(* What the runs check.                                                    *)

\* The phone and the chunks heard have their types.
THEOREM TypeCorrect == Spec => []TypeOK
<1>1. IInv => TypeOK
  BY DEF IInv, Sound, Core, Heard, TypeOK
<1> QED
  BY <1>1, Invariance, PTL

\* Session, WebSocket bridge, timers and socket agree, for any number of
\* sessions, any messages and frames, whichever host calls throw.
THEOREM BridgesStayTogether == Spec => []BridgesAgree
<1>1. IInv => BridgesAgree
  <2>1. SUFFICES ASSUME Agree(phone) PROVE BridgesAgree
    BY DEF IInv, Sound
  <2>2. phone.timers = CASE phone.state = "WAITING_TO_SEND" -> {"handoff"}
                         [] phone.state = "AWAITING_RESULT" -> {"result"}
                         [] OTHER -> {}
    BY <2>1 DEF Agree
  <2> QED
    BY <2>1, <2>2 DEF Agree, Waiting, BridgesAgree
<1> QED
  BY <1>1, Invariance, PTL

\* A complete transcript never waits on a socket reported open.
THEOREM TranscriptsAreTakenUp == Spec => []NoTranscriptLeftBehind
<1>1. IInv => NoTranscriptLeftBehind
  BY DEF IInv, Sound, Prompt, NoTranscriptLeftBehind
<1> QED
  BY <1>1, Invariance, PTL

\* What still goes to the watch: of the active session only, SEND_STARTED
\* before the terminal message, one of each at most.
THEOREM OutgoingInOrder == Spec => []OutgoingWellFormed
<1>1. IInv => OutgoingWellFormed
  <2> SUFFICES ASSUME IInv PROVE OutgoingWellFormed
    OBVIOUS
  <2> DEFINE open == phone.state # "CLOSED"
             first == IF open /\ InFlight(phone) THEN <<phone.inflight>> ELSE <<>>
             types == {"FAILURE", "SERVER_RESULT_CHUNK"}
  <2>1. /\ phone \in Phones /\ Transport(phone) /\ Ordered(phone)
        /\ phone.queue \in Seq(Entries)
        /\ open => phone.serial > 0
    BY DEF IInv, Sound, Core, Phones
  <2>2. /\ phone.inflight = NoEntry => phone.queue = <<>>
        /\ \A i \in DOMAIN phone.queue : phone.queue[i].owner = phone.serial /\ open
    BY <2>1 DEF Transport, Ordered
  <2>3. Outgoing = first \o phone.queue
    BY DEF Outgoing, InFlight
  <2>4. ASSUME open
        PROVE  /\ Len(Outgoing) <= 2
               /\ Len(Outgoing) = 2 => Outgoing[1].msg.type = "SEND_STARTED"
               /\ phone.state = "FORWARDING_TERMINAL" <=>
                    Outgoing # <<>> /\ Last(Outgoing).msg.type \in types
    <3>1. InFlight(phone) => phone.inflight \in Entries
      BY <2>1, <2>4, EntryTypes DEF InFlight, Phones
    <3>2. CASE ~InFlight(phone)
      <4>1. Outgoing = phone.queue
        BY <2>1, <2>3, <3>2
      <4>2. phone.state \in {"RECEIVING_TRANSCRIPT", "WAITING_TO_SEND"} => phone.queue = <<>>
        BY <2>1 DEF Ordered
      <4>3. CASE phone.queue = <<>>
        <5>1. phone.state # "FORWARDING_TERMINAL"
          BY <2>1, <3>2, <4>3 DEF Ordered
        <5> QED
          BY <4>1, <4>3, <5>1
      <4>4. CASE phone.state = "AWAITING_RESULT" /\ phone.queue # <<>>
        <5>1. Len(phone.queue) = 1 /\ phone.queue[1].msg.type = "SEND_STARTED"
          BY <2>1, <4>4 DEF Ordered, Announcing
        <5> QED
          BY <4>1, <4>4, <5>1 DEF Last
      <4>5. CASE phone.state = "FORWARDING_TERMINAL"
        <5>1. \/ Len(phone.queue) = 1 /\ phone.queue[1].msg.type \in types
              \/ /\ Len(phone.queue) = 2
                 /\ phone.queue[1].msg.type = "SEND_STARTED"
                 /\ phone.queue[2].msg.type \in types
          BY <2>1, <3>2, <4>5 DEF Ordered, Announcing, Terminal
        <5>2. phone.queue # <<>> /\ Last(phone.queue) = phone.queue[Len(phone.queue)]
          BY <2>1, <5>1 DEF Last
        <5>3. Len(phone.queue) <= 2 /\ Last(phone.queue).msg.type \in types
          <6> HIDE DEF types
          <6> QED
            BY <5>1, <5>2
        <5>4. Len(phone.queue) = 2 => phone.queue[1].msg.type = "SEND_STARTED"
          <6> HIDE DEF types
          <6> QED
            BY <5>1
        <5> HIDE DEF types
        <5> QED
          BY <4>1, <4>5, <5>2, <5>3, <5>4
      <4> QED
        BY <2>1, <2>4, <4>2, <4>3, <4>4, <4>5 DEF Phones, SessionStates
    <3>3. CASE InFlight(phone)
      <4> DEFINE e == phone.inflight
      <4>1. e \in Entries /\ first = <<e>>
        BY <2>4, <3>1, <3>3
      <4>2. CASE phone.queue = <<>>
        <5>1. Outgoing = <<e>>
          BY <2>3, <4>1, <4>2
        <5>2. Last(Outgoing) = e /\ Len(Outgoing) = 1 /\ Outgoing # <<>>
          BY <5>1 DEF Last
        <5>3. phone.state = "FORWARDING_TERMINAL" => e.msg.type \in types
          BY <2>1, <4>2 DEF Ordered, Terminal
        <5>4. phone.state # "FORWARDING_TERMINAL" => e.msg.type = "SEND_STARTED"
          BY <2>1, <2>4, <3>3, <4>2 DEF Ordered, Announcing, Phones, SessionStates
        <5>5. "SEND_STARTED" \notin types
          OBVIOUS
        <5> HIDE DEF e, types
        <5> QED
          BY <5>2, <5>3, <5>4, <5>5
      <4>3. CASE phone.queue # <<>>
        <5>1. /\ phone.state = "FORWARDING_TERMINAL"
              /\ Len(phone.queue) = 1 /\ Terminal(phone.queue[1]) /\ Announcing(e)
          BY <2>1, <2>4, <3>3, <4>3 DEF Ordered, Phones, SessionStates
        <5>2. Outgoing = <<e>> \o phone.queue
          BY <2>3, <4>1
        <5>3. Len(Outgoing) = 2 /\ Outgoing[1] = e /\ Outgoing[2] = phone.queue[1]
          BY <2>1, <4>1, <5>1, <5>2
        <5> QED
          BY <5>1, <5>3 DEF Last, Announcing, Terminal
      <4> QED
        BY <4>2, <4>3
    <3> QED
      BY <3>2, <3>3
  <2> QED
    BY <2>2, <2>4 DEF OutgoingWellFormed
<1> QED
  BY <1>1, Invariance, PTL

\* Every frame sent is the session's first and carries exactly the chunks that
\* its watch sent, all of those announced, in order.
THEOREM RequestsAreWhole == Spec => OneWholeRequest
<1>1. IInv /\ [Next]_phoneVars => [SendsWholeTranscript]_phoneVars
  BY NextKeeps DEF Whole, SendsWholeTranscript
<1> QED
  BY <1>1, Invariance, PTL DEF Spec, OneWholeRequest

\* The completion of an earlier session's message never touches its successor.
THEOREM LateCompletionsAreHarmless == Spec => LateCompletionHarmless
<1>1. IInv /\ [Next]_phoneVars =>
        [ \/ phone.inflight.owner \in {0, phone.serial}
          \/ phone'.inflight = phone.inflight
          \/ phone'.inflight = NoEntry /\ phone.queue # <<>>
          \/ phone' = [phone EXCEPT !.inflight = phone'.inflight,
                                    !.queue = phone'.queue] ]_phoneVars
  BY NextKeeps, Zenon DEF Late
<1> QED
  BY <1>1, Invariance, PTL DEF Spec, LateCompletionHarmless

\* If each chunk carries one piece of u and a text of the length of u is what
\* the chunks carry, it is u.
LEMMA ExactTranscript ==
  ASSUME NEW t \in Texts, NEW u \in Texts, NEW h \in Seq(WatchMessages),
         Len(h) = Len(u), Len(t) = Len(u), Concatenates(t, h),
         \A i \in DOMAIN h : h[i].text = <<u[i]>>
  PROVE  t = u
<1> DEFINE n == Len(u)
<1>1. n \in Nat /\ DOMAIN h = 1 .. n /\ Len(h) = n /\ Len(t) = n
  OBVIOUS
<1>2. PICK ends \in [0 .. n -> 0 .. n] :
        /\ ends[0] = 0
        /\ \A i \in 1 .. n : /\ ends[i - 1] <= ends[i]
                             /\ h[i].text = SubSeq(t, ends[i - 1] + 1, ends[i])
  BY <1>1 DEF Concatenates
<1>3. \A i \in 0 .. n : ends[i] = i
  <2> DEFINE T == {i \in 0 .. n : ends[i] # i}
  <2> SUFFICES ASSUME T # {} PROVE FALSE
    OBVIOUS
  <2>1. PICK i \in T : \A j \in T : i <= j
    <3>1. T \in SUBSET Nat
      BY <1>1
    <3> HIDE DEF T
    <3> QED
      BY <3>1, LeastNumber
  <2>2. i \in 1 .. n /\ i - 1 \in 0 .. n /\ ends[i - 1] = i - 1
    BY <1>1, <1>2, <2>1
  <2> DEFINE e == ends[i]
  <2>3. e \in 0 .. n /\ e # i /\ i - 1 <= e /\ <<u[i]>> = SubSeq(t, i, e)
    <3>1. e \in 0 .. n /\ e # i /\ ends[i - 1] <= e
      BY <1>2, <2>1, <2>2
    <3>2. h[i].text = SubSeq(t, ends[i - 1] + 1, e)
      BY <1>2, <2>2
    <3>3. ends[i - 1] + 1 = i /\ h[i].text = <<u[i]>>
      BY <1>1, <2>2
    <3> HIDE DEF e
    <3> QED
      BY <2>2, <3>1, <3>2, <3>3
  <2> HIDE DEF e
  <2>4. Len(SubSeq(t, i, e)) = e - i + 1
    BY <1>1, <2>2, <2>3
  <2>5. Len(<<u[i]>>) = 1
    OBVIOUS
  <2> QED
    BY <1>1, <2>2, <2>3, <2>4, <2>5
<1>4. \A i \in 1 .. n : t[i] = u[i]
  <2> SUFFICES ASSUME NEW i \in 1 .. n PROVE t[i] = u[i]
    OBVIOUS
  <2>1. ends[i - 1] = i - 1 /\ ends[i] = i
    BY <1>1, <1>3
  <2>2. <<u[i]>> = SubSeq(t, i, i)
    <3>1. h[i].text = SubSeq(t, ends[i - 1] + 1, ends[i])
      BY <1>2
    <3>2. ends[i - 1] + 1 = i /\ h[i].text = <<u[i]>>
      BY <1>1, <2>1
    <3> QED
      BY <2>1, <3>1, <3>2
  <2>3. SubSeq(t, i, i)[1] = t[i]
    BY <1>1
  <2> QED
    BY <2>2, <2>3
<1> QED
  BY <1>1, <1>4

\* A request that a step adds follows those before it.
LEMMA NewRequest ==
  ASSUME NEW p \in Phones, NEW q \in Phones, NEW h, Whole(p, q, h),
         q.requests # p.requests
  PROVE  LET n == Len(p.requests)
             r == q.requests[n + 1]
         IN  /\ n \in Nat /\ DOMAIN p.requests = 1 .. n /\ DOMAIN q.requests = 1 .. n + 1
             /\ \A i \in 1 .. n : q.requests[i] = p.requests[i]
             /\ r.id = q.id /\ r.transcript \in Texts /\ h # <<>>
             /\ \A i \in DOMAIN h :
                  /\ h[i].id = r.id /\ h[i].index = i - 1
                  /\ h[i].count = Len(h) /\ h[i].total = Len(r.transcript)
             /\ Concatenates(r.transcript, h)
<1> DEFINE S == [serial : Nat \ {0}, id : ReqIds, transcript : Texts]
           n == Len(p.requests)
<1>1. p.requests \in Seq(S) /\ q.requests \in Seq(S)
  BY DEF Phones
<1>2. \A r \in S : r.transcript \in Texts
  OBVIOUS
<1> HIDE DEF S
<1>3. Front(q.requests) = p.requests
  BY DEF Whole
<1>4. q.requests # <<>>
  <2> SUFFICES ASSUME q.requests = <<>> PROVE FALSE
    OBVIOUS
  <2>1. SubSeq(q.requests, 1, Len(q.requests) - 1) = <<>>
    BY <1>1
  <2> QED
    BY <1>3, <2>1 DEF Front
<1>5. Len(q.requests) \in Nat \ {0}
  BY <1>1, <1>4
<1>6. /\ n = Len(q.requests) - 1
      /\ \A i \in 1 .. n : p.requests[i] = q.requests[i]
  <2>1. p.requests = SubSeq(q.requests, 1, Len(q.requests) - 1)
    BY <1>3 DEF Front
  <2> QED
    BY <1>1, <1>5, <2>1
<1>7. Last(q.requests) = q.requests[n + 1]
  BY <1>5, <1>6 DEF Last
<1>8. q.requests[n + 1] \in S /\ DOMAIN q.requests = 1 .. n + 1 /\ DOMAIN p.requests = 1 .. n
  BY <1>1, <1>5, <1>6
<1> QED
  BY <1>1, <1>2, <1>5, <1>6, <1>7, <1>8 DEF Whole

\* When JavaScript is ended and started anew, nothing is left but the requests
\* it sent.
LEMMA RestartKeeps ==
  ASSUME IInv, heard' = <<>>,
         phone' = [Idle EXCEPT !.serial = phone.serial, !.requests = phone.requests]
  PROVE  IInv' /\ phone'.requests = phone.requests /\ phone'.id = NoId
         /\ Shut(phone') /\ phone'.inflight = NoEntry
<1>1. Idle \in Phones /\ phone \in Phones
  BY IdleIsSound DEF IInv, Sound, Core
<1>2. phone' \in Phones
  BY <1>1 DEF Phones
<1>3. /\ phone'.serial = phone.serial /\ phone'.requests = phone.requests
      /\ Shut(phone') /\ phone'.inflight = NoEntry /\ phone'.id = NoId
  BY <1>1 DEF Phones, Idle, Shut, ServerShut
<1>4. Sound(phone')
  <2>1. phone.serial \in Nat /\ phone'.inflight.owner = 0
    BY <1>1, <1>3, EntryTypes DEF Phones
  <2>2. phone'.inflight.owner <= phone'.serial
    BY <1>3, <2>1
  <2> QED
    BY <1>2, <1>3, <2>2, ShutIsSound
<1>5. Heard(phone', <<>>)
  BY <1>3 DEF IInv, Heard, Shut, Waiting
<1> QED
  BY <1>3, <1>4, <1>5 DEF IInv

-----------------------------------------------------------------------------
(* What the phone tells the watch.                                         *)

\* The messages that wait for the watch, or may still be queued, are among M.
Tells(p, M) ==
  /\ p.inflight # NoEntry => p.inflight.msg \in M
  /\ \A i \in DOMAIN p.queue : p.queue[i].msg \in M
  /\ \A i \in DOMAIN p.payloads : p.payloads[i] \in M

LEMMA ForwardingState ==
  ASSUME NEW p \in Phones, NEW payloads
  PROVE  /\ [ServerClose(p) EXCEPT !.state = "FORWARDING_TERMINAL"].state
              = "FORWARDING_TERMINAL"
         /\ [ServerClose(p) EXCEPT !.state = "FORWARDING_TERMINAL",
                                   !.payloads = payloads].state = "FORWARDING_TERMINAL"
<1> DEFINE c == ServerClose(p)
<1>1. c \in Phones
  BY ServerCloseFields
<1> HIDE DEF c
<1>2. /\ [c EXCEPT !.state = "FORWARDING_TERMINAL"].state = "FORWARDING_TERMINAL"
      /\ [c EXCEPT !.state = "FORWARDING_TERMINAL", !.payloads = payloads].state
           = "FORWARDING_TERMINAL"
  BY <1>1 DEF Phones
<1> QED
  BY <1>2 DEF c

\* Nothing is queued for a closed session, and an open one has an address.
Owns(p) ==
  /\ p \in Phones
  /\ \A i \in DOMAIN p.queue : p.queue[i].owner = p.serial
  /\ p.state = "CLOSED" => p.queue = <<>> /\ p.server = "CLOSED"
  /\ p.state # "CLOSED" => p.id \in ReqIds /\ p.serial > 0

Says(p, M) == Owns(p) /\ Tells(p, M)

\* What may go wrong when nobody violates the protocol.
Complaints == {"ERROR_SERVER", "ERROR_SERVER_RESULT_TIMEOUT", "ERROR_TRANSFER"}

Failures == {Failure(r, s) : r \in ReqIds, s \in Complaints}

\* The phone takes message m for a violation of the protocol.
Accuses(p, m) ==
  /\ ~Stopped(p) /\ m.id \in {NoId, p.id}
  /\ Parses(m) => /\ m.type = "TRANSCRIPT_CHUNK"
                  /\ p.state # "RECEIVING_TRANSCRIPT" \/ ~ChunkFits(p.assembler, m)

\* M has the chunks of what frame f answers to request r, and the accusation
\* if f violates the protocol.
Answers(r, f, M) ==
  /\ f.id = r /\ f.kind = "result" =>
       \A i \in DOMAIN ResultChunks(r, f.success, f.response) :
         ResultChunks(r, f.success, f.response)[i] \in M
  /\ FrameKind(f, r) = "protocol_error" => Failure(r, "ERROR_PROTOCOL") \in M

LEMMA CoreOwns ==
  ASSUME NEW p, Core(p), p.state = "CLOSED" => p.server = "CLOSED"
  PROVE  Owns(p)
BY DEF Core, Transport, Ordered, Owns

LEMMA SoundOwns == ASSUME NEW p, Sound(p) PROVE Owns(p)
BY CoreOwns DEF Sound, Agree

\* A phone with nothing queued and no payloads says what is in flight.
LEMMA ShutSays ==
  ASSUME NEW M, NEW p, Says(p, M), NEW q \in Phones, Shut(q),
         q.inflight \in {p.inflight, NoEntry}
  PROVE  Says(q, M)
<1>1. DOMAIN q.queue = {} /\ DOMAIN q.payloads = {}
  BY DEF Shut
<1> QED
  BY <1>1 DEF Says, Owns, Tells, Shut, ServerShut

LEMMA CloseSays ==
  ASSUME NEW M, NEW p, Says(p, M), NEW q, q = SessionClose(p)
  PROVE  Says(q, M)
<1>1. /\ q \in Phones /\ SameSession(p, q) /\ q.inflight = p.inflight
      /\ q.state = "CLOSED" /\ (IF p.state = "CLOSED" THEN q = p ELSE Shut(q))
  BY SessionCloseFields DEF Says, Owns
<1> QED
  BY <1>1, ShutSays

LEMMA PumpSays ==
  ASSUME NEW M, NEW p, Says(p, M), NEW x, NEW q, q = Pump(p, x)
  PROVE  Says(q, M)
<1>1. /\ p \in Phones /\ \A i \in DOMAIN p.queue : p.queue[i].owner = p.serial
      /\ p.state = "CLOSED" => p.queue = <<>>
  BY DEF Says, Owns
<1>2. /\ q \in Phones /\ SameSession(p, q)
      /\ \/ q = p
         \/ q.inflight = NoEntry /\ Shut(q)
         \/ /\ p.queue # <<>> /\ SameBridges(p, q)
            /\ q.inflight = Head(p.queue) /\ q.queue = Tail(p.queue)
  BY <1>1, PumpFields
<1>3. CASE /\ p.queue # <<>> /\ SameBridges(p, q)
           /\ q.inflight = Head(p.queue) /\ q.queue = Tail(p.queue)
  <2>1. p.queue \in Seq(Entries)
    BY <1>1 DEF Phones
  <2>2. /\ q.inflight = p.queue[1] /\ 1 \in DOMAIN p.queue
        /\ \A i \in DOMAIN q.queue : i + 1 \in DOMAIN p.queue /\ q.queue[i] = p.queue[i + 1]
    BY <1>3, <2>1
  <2> QED
    BY <1>1, <1>2, <1>3, <2>2 DEF Says, Owns, Tells, SameSession, SameBridges
<1> QED
  BY <1>2, <1>3, ShutSays

LEMMA EnqueueSays ==
  ASSUME NEW M, NEW p, Says(p, M), p.state # "CLOSED",
         NEW m \in PhoneMessages, m \in M, NEW x, NEW q, q = Enqueue(p, m, x)
  PROVE  Says(q, M)
<1> DEFINE d == [p EXCEPT !.queue = Append(@, EntryOf(p, m))]
<1>1. /\ p \in Phones /\ p.queue \in Seq(Entries) /\ p.serial \in Nat \ {0}
  BY DEF Says, Owns, Phones
<1>2. EntryOf(p, m) \in Entries /\ EntryOf(p, m).owner = p.serial /\ EntryOf(p, m).msg = m
  BY <1>1 DEF Entries, EntryOf
<1>3. /\ Append(p.queue, EntryOf(p, m)) \in Seq(Entries)
      /\ \A i \in DOMAIN Append(p.queue, EntryOf(p, m)) :
           \/ i \in DOMAIN p.queue /\ Append(p.queue, EntryOf(p, m))[i] = p.queue[i]
           \/ Append(p.queue, EntryOf(p, m))[i] = EntryOf(p, m)
  BY <1>1, <1>2
<1>4. d \in Phones
  BY <1>1, <1>3 DEF Phones
<1>5. /\ SameSession(p, d) /\ SameBridges(p, d) /\ d.inflight = p.inflight
      /\ d.queue = Append(p.queue, EntryOf(p, m))
  BY <1>1, <1>4 DEF Phones, SameSession, SameBridges
<1>6. q = Pump(d, x)
  BY DEF Enqueue, EntryOf
<1> HIDE DEF d
<1>7. Says(d, M)
  BY <1>2, <1>3, <1>4, <1>5 DEF Says, Owns, Tells, SameSession, SameBridges
<1> QED
  BY <1>6, <1>7, PumpSays

\* The bridge closes for an outcome to be forwarded, with or without payloads.
LEMMA ForwardingSays ==
  ASSUME NEW M, NEW p, Says(p, M), p.state # "CLOSED",
         NEW payloads \in Seq(PhoneMessages), \A i \in DOMAIN payloads : payloads[i] \in M
  PROVE  /\ Says([ServerClose(p) EXCEPT !.state = "FORWARDING_TERMINAL"], M)
         /\ Says([ServerClose(p) EXCEPT !.state = "FORWARDING_TERMINAL",
                                        !.payloads = payloads], M)
<1> DEFINE c == ServerClose(p)
           d == [c EXCEPT !.state = "FORWARDING_TERMINAL"]
           e == [c EXCEPT !.state = "FORWARDING_TERMINAL", !.payloads = payloads]
<1>1. c \in Phones /\ SameSession(p, c) /\ SameTransport(p, c) /\ c.payloads = p.payloads
  BY ServerCloseFields DEF Says, Owns
<1>2. "FORWARDING_TERMINAL" \in SessionStates
  BY DEF SessionStates
<1> HIDE DEF c
<1>3. d \in Phones /\ e \in Phones
  BY <1>1, <1>2 DEF Phones
<1>4. /\ SameSession(p, d) /\ SameTransport(p, d) /\ d.payloads = p.payloads
      /\ d.state = "FORWARDING_TERMINAL"
  BY <1>1, <1>3 DEF Phones, SameSession, SameTransport
<1>5. /\ SameSession(p, e) /\ SameTransport(p, e) /\ e.payloads = payloads
      /\ e.state = "FORWARDING_TERMINAL"
  BY <1>1, <1>3 DEF Phones, SameSession, SameTransport
<1> HIDE DEF d, e
<1>6. Says(d, M) /\ Says(e, M)
  BY <1>3, <1>4, <1>5 DEF Says, Owns, Tells, SameSession, SameTransport
<1> QED
  BY <1>6 DEF c, d, e

LEMMA SessionFailSays ==
  ASSUME NEW M, Failures \subseteq M, NEW p, Says(p, M),
         NEW status \in Complaints \cup {"ERROR_PROTOCOL"},
         status = "ERROR_PROTOCOL" /\ ~Stopped(p) => Failure(p.id, status) \in M,
         NEW x, NEW q, q = SessionFail(p, status, x)
  PROVE  Says(q, M)
<1>1. CASE p.state \in {"CLOSED", "FORWARDING_TERMINAL"}
  BY <1>1 DEF SessionFail
<1>2. CASE p.state \notin {"CLOSED", "FORWARDING_TERMINAL"}
  <2> DEFINE d == [ServerClose(p) EXCEPT !.state = "FORWARDING_TERMINAL"]
  <2>1. /\ p.payloads \in Seq(PhoneMessages) /\ p \in Phones /\ p.id \in ReqIds
        /\ \A i \in DOMAIN p.payloads : p.payloads[i] \in M
    BY <1>2 DEF Says, Owns, Tells, Phones
  <2>2. Says(d, M)
    BY <1>2, <2>1, ForwardingSays
  <2>3. d.state = "FORWARDING_TERMINAL"
    BY <2>1, ForwardingState
  <2>4. Failure(p.id, status) \in PhoneMessages /\ Failure(p.id, status) \in M
    <3>1. status \in Complaints => Failure(p.id, status) \in Failures
      BY <2>1 DEF Failures
    <3>2. status \in StatusCodes
      BY DEF Complaints, StatusCodes
    <3> QED
      BY <1>2, <2>1, <3>1, <3>2, MessageTypes DEF Stopped
  <2>5. q = Enqueue(d, Failure(p.id, status), x)
    BY <1>2 DEF SessionFail
  <2> HIDE DEF d
  <2> QED
    BY <2>2, <2>3, <2>4, <2>5, EnqueueSays
<1> QED
  BY <1>1, <1>2

LEMMA ServerFailSays ==
  ASSUME NEW M, Failures \subseteq M, NEW p, Says(p, M),
         NEW error \in DOMAIN StatusForServerError,
         error = "PROTOCOL" => Failure(p.id, "ERROR_PROTOCOL") \in M,
         NEW x, NEW q, q = ServerFail(p, error, x)
  PROVE  Says(q, M)
<1>1. IF error = "PROTOCOL" THEN StatusForServerError[error] = "ERROR_PROTOCOL"
                            ELSE StatusForServerError[error] \in Complaints
  BY DEF StatusForServerError, Complaints
<1>2. "ERROR_PROTOCOL" \notin Complaints
  BY DEF Complaints
<1> QED
  BY <1>1, <1>2, SessionFailSays DEF ServerFail

LEMMA HandleFrameSays ==
  ASSUME NEW M, Failures \subseteq M, NEW p, Says(p, M), NEW f \in Frames \cup {NoFrame},
         Answers(p.id, f, M), NEW x, NEW q, q = HandleFrame(p, f, x)
  PROVE  Says(q, M)
<1>1. \/ q = p
      \/ p.server = "AWAITING_RESULT" /\ FrameKind(f, p.id) = "result"
         /\ q = ForwardResult(p, f, x)
      \/ q = ServerFail(p, "SERVER", x)
      \/ FrameKind(f, p.id) = "protocol_error" /\ q = ServerFail(p, "PROTOCOL", x)
  <2>1. FrameKind(f, p.id) \in FrameKinds
    BY FramesAssumption DEF FrameKind, FrameKinds, NoFrame
  <2> QED
    BY <2>1 DEF HandleFrame, FrameKinds
<1>2. CASE /\ p.server = "AWAITING_RESULT" /\ FrameKind(f, p.id) = "result"
           /\ q = ForwardResult(p, f, x)
  <2> DEFINE payloads == ResultChunks(p.id, f.success, f.response)
             d == [ServerClose(p) EXCEPT !.state = "FORWARDING_TERMINAL",
                                         !.payloads = payloads]
  <2>1. f.id = p.id /\ f.kind = "result"
    BY <1>2 DEF FrameKind
  <2>2. p.state # "CLOSED" /\ p.id \in ReqIds /\ p \in Phones
    BY <1>2 DEF Says, Owns
  <2>3. f.success \in BOOLEAN /\ f.response \in Texts
    BY FrameTypes
  <2>4. payloads \in Seq(PhoneMessages) /\ Len(payloads) > 0
    BY <2>2, <2>3, ResultChunksType
  <2>5. \A i \in DOMAIN payloads : payloads[i] \in M
    BY <2>1 DEF Answers
  <2>6. q = Enqueue(d, payloads[1], x)
    BY <1>2 DEF ForwardResult
  <2> HIDE DEF payloads
  <2>7. Says(d, M)
    BY <2>2, <2>4, <2>5, ForwardingSays
  <2>8. d.state = "FORWARDING_TERMINAL"
    BY <2>2, ForwardingState
  <2>9. payloads[1] \in PhoneMessages /\ payloads[1] \in M
    BY <2>4, <2>5
  <2> HIDE DEF d
  <2> QED
    BY <2>6, <2>7, <2>8, <2>9, EnqueueSays
<1>3. {"SERVER", "PROTOCOL"} \subseteq DOMAIN StatusForServerError
  BY DEF StatusForServerError
<1> QED
  BY <1>1, <1>2, <1>3, ServerFailSays DEF Answers

LEMMA TrySendSays ==
  ASSUME NEW M, Failures \subseteq M, NEW p, Handing(p), Says(p, M),
         NEW f \in Frames \cup {NoFrame}, Answers(p.id, f, M),
         NEW x, NEW q, q = TrySend(p, x, f),
         q.requests # p.requests => SendStarted(p.id) \in M
  PROVE  Says(q, M)
<1>1. p \in Phones /\ p.state = "WAITING_TO_SEND" /\ p.server \in {"CONNECTING", "READY"}
      /\ p.id \in ReqIds
  BY DEF Handing, Core
<1>2. CASE p.socket # "open"
  BY <1>2 DEF TrySend
<1>3. CASE p.socket = "open" /\ "send" \in x
  <2>1. q = ServerFail(p, "SEND", x)
    BY <1>1, <1>3 DEF TrySend, Handing
  <2>2. "SEND" \in DOMAIN StatusForServerError
    BY DEF StatusForServerError
  <2> QED
    BY <2>1, <2>2, ServerFailSays
<1>4. CASE p.socket = "open" /\ "send" \notin x
  <2> DEFINE d == [p EXCEPT
               !.server = "AWAITING_RESULT",
               !.state = "AWAITING_RESULT",
               !.timers = {"result"},
               !.requests = Append(@, RequestOf(p))]
             e == Enqueue(d, SendStarted(p.id), x)
  <2>1. q = HandleFrame(e, f, x)
    BY <1>1, <1>4 DEF TrySend, Handing, RequestOf
  <2>2. SentFrom(p, d)
    BY <1>4, SentFields
  <2> HIDE DEF d
  <2>3. /\ Sound(e) /\ SameSession(d, e)
        /\ e.id = p.id /\ e.requests = Append(p.requests, RequestOf(p))
    BY <2>2, AnnouncementSound DEF SentFrom, SameSession
  <2>4. Says(d, M)
    BY <1>1, <2>2 DEF SentFrom, SameTransport, Says, Owns, Tells
  <2> HIDE DEF e
  <2>5. q.requests = e.requests
    <3>1. Ends(e, q)
      BY <2>1, <2>3, HandleFrameSound
    <3> QED
      BY <3>1 DEF Ends, SameSession
  <2>6. Append(p.requests, RequestOf(p)) # p.requests
    <3>1. p.requests \in Seq([serial : Nat \ {0}, id : ReqIds, transcript : Texts])
      BY <1>1 DEF Phones
    <3>2. \A r : Len(Append(p.requests, r)) = Len(p.requests) + 1 /\ Len(p.requests) \in Nat
      BY <3>1
    <3> QED
      BY <3>2
  <2>7. SendStarted(p.id) \in PhoneMessages /\ SendStarted(p.id) \in M
    BY <1>1, <2>3, <2>5, <2>6, MessageTypes
  <2>8. d.state # "CLOSED"
    BY <2>2 DEF SentFrom
  <2>9. Says(e, M)
    BY <2>4, <2>7, <2>8, EnqueueSays DEF e
  <2> QED
    BY <2>1, <2>3, <2>9, HandleFrameSays
<1> QED
  BY <1>2, <1>3, <1>4

LEMMA StartSessionSays ==
  ASSUME NEW M, Failures \subseteq M, NEW p, Sound(p), Says(p, M), NEW r \in ReqIds,
         NEW x, NEW q, q = StartSession(p, r, x)
  PROVE  Says(q, M)
<1> DEFINE s == SessionClose(p)
           fresh == Fresh(s, r, "connecting")
           bare == Fresh(s, r, "none")
<1>1. Sound(s) /\ s.state = "CLOSED"
  BY SessionCloseSound DEF Sound
<1>2. Says(s, M) /\ s \in Phones
  BY CloseSays DEF Says, Owns
<1>3. q = fresh \/ q = ServerFail(bare, "SERVER", x)
  <2>1. [fresh EXCEPT !.socket = "none"] = bare
    BY DEF Fresh
  <2> QED
    BY <2>1 DEF StartSession, Fresh
<1> HIDE DEF s
<1>4. ASSUME NEW socket \in {"connecting", "none"}
      PROVE  Says(Fresh(s, r, socket), M)
  <2> DEFINE t == Fresh(s, r, socket)
  <2>1. Core(t) /\ t.inflight = s.inflight /\ t.state = "RECEIVING_TRANSCRIPT"
    BY <1>1, FreshSound
  <2>2. t.queue = s.queue /\ t.payloads = s.payloads
    BY <1>2 DEF Fresh, Phones
  <2> HIDE DEF t
  <2>3. Owns(t)
    BY <2>1, CoreOwns
  <2>4. Says(t, M)
    BY <1>2, <2>1, <2>2, <2>3 DEF Says, Tells
  <2> QED
    BY <2>4 DEF t
<1>5. "SERVER" \in DOMAIN StatusForServerError
  BY DEF StatusForServerError
<1>6. Says(fresh, M) /\ Says(bare, M)
  BY <1>4
<1> HIDE DEF fresh, bare
<1> QED
  BY <1>3, <1>5, <1>6, ServerFailSays

\* A message of the watch is answered from M.
LEMMA OnAppMessageSays ==
  ASSUME NEW M, Failures \subseteq M, NEW p, Sound(p), Says(p, M), NEW m \in WatchInbox,
         NEW f \in Frames \cup {NoFrame}, Answers(p.id, f, M),
         NEW x, NEW q, q = OnAppMessage(p, m, x, f),
         Accuses(p, m) => Failure(p.id, "ERROR_PROTOCOL") \in M,
         q.requests # p.requests => SendStarted(p.id) \in M
  PROVE  Says(q, M)
<1>1. CASE /\ q = SessionFail(p, "ERROR_PROTOCOL", x)
           /\ Stopped(p) \/ Accuses(p, m)
  BY <1>1, SessionFailSays
<1>2. CASE q = p \/ q = SessionClose(p)
  BY <1>2, CloseSays
<1>3. CASE Parses(m) /\ m.type = "SESSION_BEGIN"
  <2>1. q = StartSession(p, m.id, x) /\ m.id \in ReqIds
    BY <1>3, WatchMessageTypes DEF OnAppMessage
  <2> QED
    BY <2>1, StartSessionSays
<1>4. CASE /\ Parses(m) /\ m.type \notin {"SESSION_BEGIN", "SESSION_END"}
           /\ p.state \notin {"CLOSED", "FORWARDING_TERMINAL"} /\ m.id = p.id
           /\ q = HandleChunk(p, m, x, f)
  <2>1. m.type = "TRANSCRIPT_CHUNK"
    <3>1. m.type \in {"SESSION_BEGIN", "TRANSCRIPT_CHUNK", "SESSION_END", "MALFORMED"}
      BY WatchInboxAssumption DEF WatchMessages
    <3> QED
      BY <1>4, <3>1 DEF Parses
  <2>2. \/ q = SessionFail(p, "ERROR_PROTOCOL", x) /\ Accuses(p, m)
        \/ Sound(q) /\ Collects(p, q, m) /\ SameTransport(p, q) /\ q.payloads = p.payloads
        \/ \E w \in Phones :
             /\ Completes(p, w, m) /\ Handing(w) /\ SameTransport(p, w)
             /\ w.payloads = p.payloads /\ q = TrySend(w, x, f)
    BY <1>4, <2>1, HandleChunkCases DEF Accuses, Stopped
  <2>3. CASE Sound(q) /\ Collects(p, q, m) /\ SameTransport(p, q) /\ q.payloads = p.payloads
    BY <2>3, SoundOwns DEF Says, Tells, SameTransport
  <2>4. CASE \E w \in Phones :
               /\ Completes(p, w, m) /\ Handing(w) /\ SameTransport(p, w)
               /\ w.payloads = p.payloads /\ q = TrySend(w, x, f)
    <3>1. PICK w \in Phones :
               /\ Completes(p, w, m) /\ Handing(w) /\ SameTransport(p, w)
               /\ w.payloads = p.payloads /\ q = TrySend(w, x, f)
      BY <2>4
    <3>2. Owns(w)
      BY <3>1, CoreOwns DEF Handing
    <3>3. Says(w, M) /\ w.id = p.id /\ w.requests = p.requests
      BY <3>1, <3>2 DEF Says, Tells, SameTransport, Completes, SameSession
    <3> QED
      BY <3>1, <3>3, TrySendSays
  <2> QED
    BY <1>1, <2>2, <2>3, <2>4
<1> QED
  BY <1>1, <1>2, <1>3, <1>4 DEF OnAppMessage, Accuses, Stopped

\* The completion of a message brings the next one of M.
LEMMA DoneSays ==
  ASSUME NEW M, NEW p, Sound(p), Says(p, M), p.inflight # NoEntry, NEW ok, NEW x,
         NEW d, Settled(p, d), NEW q, q = Pump(Delivered(d, p.inflight, ok, x), x)
  PROVE  Says(q, M)
<1>1. Says(d, M)
  BY DEF Settled, SameSession, SameBridges, Says, Owns, Tells
<1>2. p.inflight.msg \in PhoneMessages
  BY EntryTypes DEF Says, Owns, Phones
<1>3. Says(Delivered(d, p.inflight, ok, x), M)
  <2> DEFINE m == p.inflight.msg
             e == Delivered(d, p.inflight, ok, x)
  <2>1. \/ e = d
        \/ e = SessionClose(d)
        \/ /\ d.state # "CLOSED" /\ m.type \notin {"FAILURE", "SEND_STARTED"}
           /\ m.index + 1 < Len(d.payloads)
           /\ e = Enqueue(d, d.payloads[m.index + 2], x)
    BY DEF Delivered, Concerns, EndsSession
  <2>2. CASE /\ d.state # "CLOSED" /\ m.type \notin {"FAILURE", "SEND_STARTED"}
             /\ m.index + 1 < Len(d.payloads)
             /\ e = Enqueue(d, d.payloads[m.index + 2], x)
    <3>1. m.index \in Nat
      BY <1>2, <2>2 DEF PhoneMessages
    <3>2. d.payloads \in Seq(PhoneMessages) /\ \A i \in DOMAIN d.payloads : d.payloads[i] \in M
      BY <1>1 DEF Says, Owns, Tells, Phones
    <3>3. m.index + 2 \in DOMAIN d.payloads
      BY <2>2, <3>1, <3>2
    <3>4. d.payloads[m.index + 2] \in PhoneMessages /\ d.payloads[m.index + 2] \in M
      BY <3>2, <3>3
    <3> HIDE DEF m, e
    <3>5. Says(e, M)
      BY <1>1, <2>2, <3>4, EnqueueSays
    <3> QED
      BY <3>5 DEF e
  <2> QED
    BY <1>1, <2>1, <2>2, CloseSays
<1> QED
  BY <1>3, PumpSays

LEMMA NoFrameAnswers == \A r \in ReqIds : \A M : Answers(r, NoFrame, M)
BY NoIdAssumption DEF NoFrame, Answers, FrameKind

\* Whatever happens to the phone, it goes on telling the watch messages of M
\* only, if M has what the event may make it say.
LEMMA EventTells ==
  ASSUME IInv, NEW M, Failures \subseteq M, Tells(phone, M),
         \A f \in PromptFrames : Answers(phone.id, f, M),
         phone'.requests # phone.requests => SendStarted(phone.id) \in M,
         \/ \E m \in WatchInbox :
              /\ Receive(m)
              /\ Accuses(phone, m) => Failure(phone.id, "ERROR_PROTOCOL") \in M
         \/ SocketOpens \/ SocketCloses \/ OnOpen
         \/ OnErrorOrClose \/ HandoffTimeout \/ ResultTimeout
         \/ \E f \in Frames : OnFrame(f) /\ Answers(phone.id, f, M)
         \/ \E ok \in BOOLEAN : AppMessageDone(ok)
  PROVE  Tells(phone', M)
<1>1. Sound(phone) /\ Says(phone, M) /\ phone \in Phones
  BY SoundOwns DEF IInv, Says, Owns
<1>2. \A f \in PromptFrames \cup {NoFrame} : f \in Frames \cup {NoFrame}
  BY FramesAssumption
<1>3. {"SERVER", "HANDOFF_TIMEOUT", "RESULT_TIMEOUT"} \subseteq DOMAIN StatusForServerError
  BY DEF StatusForServerError
<1>4. CASE \E m \in WatchInbox :
             /\ Receive(m)
             /\ Accuses(phone, m) => Failure(phone.id, "ERROR_PROTOCOL") \in M
  <2>1. PICK m \in WatchInbox, x \in SUBSET MayThrow, f \in PromptFrames \cup {NoFrame} :
          /\ phone' = OnAppMessage(phone, m, x, f)
          /\ Accuses(phone, m) => Failure(phone.id, "ERROR_PROTOCOL") \in M
    BY <1>4 DEF Receive
  <2>2. CASE phone.id \in ReqIds
    <3>1. Answers(phone.id, f, M)
      BY <2>2, NoFrameAnswers
    <3>2. Says(phone', M)
      BY <1>1, <1>2, <2>1, <3>1, OnAppMessageSays
    <3> QED
      BY <3>2 DEF Says
  <2>3. CASE phone.id \notin ReqIds
    <3>1. phone.state = "CLOSED"
      BY <1>1, <2>3 DEF Sound, Core
    <3>2. m.type = "SESSION_BEGIN" \/ phone' = phone
      BY <2>1, <3>1 DEF OnAppMessage, SessionFail, Parses
    <3>3. CASE m.type = "SESSION_BEGIN"
      <4>1. phone' = StartSession(phone, m.id, x) /\ m.id \in ReqIds
        BY <2>1, <3>3, WatchMessageTypes DEF OnAppMessage, Parses
      <4> QED
        BY <1>1, <4>1, StartSessionSays DEF Says
    <3> QED
      BY <3>2, <3>3
  <2> QED
    BY <2>2, <2>3
<1>5. CASE SocketOpens \/ SocketCloses
  BY <1>1, <1>5 DEF SocketOpens, SocketCloses, Tells, Phones
<1>6. CASE OnOpen
  <2>1. PICK x \in SUBSET MayThrow, f \in PromptFrames \cup {NoFrame} :
          phone' = TrySend(Opened(phone), x, f)
    BY <1>6 DEF OnOpen, Opened
  <2> DEFINE d == Opened(phone)
  <2>2. /\ Follows(phone, d) /\ SameTransport(phone, d) /\ d.payloads = phone.payloads
        /\ \/ phone' = d
           \/ d.state = "WAITING_TO_SEND" /\ Handing(d)
    BY <1>1, <1>2, <1>6, <2>1, OpenCases DEF OnOpen
  <2> HIDE DEF d
  <2>3. Tells(d, M)
    BY <2>2 DEF Tells, SameTransport
  <2>4. CASE d.state = "WAITING_TO_SEND" /\ Handing(d)
    <3>1. Owns(d) /\ d.id = phone.id /\ d.requests = phone.requests /\ d.id \in ReqIds
      BY <2>2, <2>4, CoreOwns DEF Handing, Core, Follows, SameSession
    <3>2. Answers(d.id, f, M)
      BY <3>1, NoFrameAnswers
    <3>3. phone' = TrySend(d, x, f)
      BY <2>1 DEF d
    <3>4. Says(phone', M)
      BY <1>2, <2>3, <2>4, <3>1, <3>2, <3>3, TrySendSays DEF Says
    <3> QED
      BY <3>4 DEF Says
  <2> QED
    BY <2>2, <2>3, <2>4
<1>7. CASE OnErrorOrClose \/ HandoffTimeout \/ ResultTimeout
  BY <1>1, <1>3, <1>7, ServerFailSays DEF OnErrorOrClose, HandoffTimeout, ResultTimeout, Says
<1>8. CASE \E f \in Frames : OnFrame(f) /\ Answers(phone.id, f, M)
  BY <1>1, <1>8, HandleFrameSays DEF OnFrame, Says
<1>9. CASE \E ok \in BOOLEAN : AppMessageDone(ok)
  <2> DEFINE d == [phone EXCEPT !.inflight = NoEntry]
  <2>1. PICK ok \in BOOLEAN, x \in SUBSET MayThrow :
          phone' = Pump(Delivered(d, phone.inflight, ok, x), x)
    BY <1>9 DEF AppMessageDone
  <2>2. phone.inflight # NoEntry
    BY <1>9 DEF AppMessageDone
  <2>3. Settled(phone, d)
    BY <1>1, SettledFields
  <2> HIDE DEF d
  <2>4. Says(phone', M)
    BY <1>1, <2>1, <2>2, <2>3, DoneSays
  <2> QED
    BY <2>4 DEF Says
<1> QED
  BY <1>4, <1>5, <1>6, <1>7, <1>8, <1>9

-----------------------------------------------------------------------------
(* Whether the watch is ready for what the phone tells it.                 *)

\* The watch is ready for message m: S are the requests whose SEND_STARTED, and
\* C the result chunks, each with its request, that it expects.
Awaited(m, S, C) ==
  /\ m.type = "SEND_STARTED" => m.id \in S
  /\ m.type = "SERVER_RESULT_CHUNK" => <<m.id, m.index>> \in C

\* It has taken message m and is ready for what follows it.
Taken(m, C) ==
  /\ m.type = "SEND_STARTED" => <<m.id, 0>> \in C
  /\ m.type = "SERVER_RESULT_CHUNK" => <<m.id, m.index + 1>> \in C

\* `fate` is what became of the message in flight, if there is one; "idle" and
\* "orphaned" say that it has not left yet.  One of an earlier session, unless
\* it is a FAILURE, is of an earlier request.
Flying(p, fate, S, C) ==
  IF p.inflight = NoEntry
    THEN fate \in {"idle", "orphaned"}
    ELSE /\ fate \in {"idle", "orphaned"} => Awaited(p.inflight.msg, S, C)
         /\ fate = "delivered" => Taken(p.inflight.msg, C)
         /\ InFlight(p) => p.inflight.msg.id = p.id
         /\ ~InFlight(p) /\ p.inflight.msg.type # "FAILURE" => p.inflight.msg.id # p.id

\* What waits is of the active session: its first message is awaited when the
\* one in flight is of another, and a chunk that waits is the first of its
\* result.
Queued(p, S, C) ==
  /\ ~InFlight(p) /\ p.queue # <<>> => Awaited(p.queue[1].msg, S, C)
  /\ \A i \in DOMAIN p.queue :
       /\ p.queue[i].msg.id = p.id
       /\ p.queue[i].msg.type = "SERVER_RESULT_CHUNK" => p.queue[i].msg.index = 0

\* The chunks of the session's result follow one another.
Numbered(p) ==
  /\ \A i \in DOMAIN p.payloads : p.payloads[i].id = p.id /\ p.payloads[i].index = i - 1
  /\ p.state = "CLOSED" => p.payloads = <<>>

Lined(p, fate, S, C) == Flying(p, fate, S, C) /\ Queued(p, S, C) /\ Numbered(p)

\* The watch is ready for whatever the phone will tell it next.
Aligned(p, fate, S, C) ==
  /\ Lined(p, fate, S, C)
  /\ p.state = "WAITING_TO_SEND" => p.id \in S
  /\ p.state = "AWAITING_RESULT" /\ ~InFlight(p) /\ p.queue = <<>> => <<p.id, 0>> \in C

LEMMA StoppedAligned ==
  ASSUME NEW fate, NEW S, NEW C, NEW p, Lined(p, fate, S, C), Stopped(p)
  PROVE  Aligned(p, fate, S, C)
BY DEF Aligned, Stopped

\* The watch may expect more.
LEMMA AlignedMonotone ==
  ASSUME NEW fate, NEW S, NEW C, NEW p, Aligned(p, fate, S, C),
         NEW T, NEW D, S \subseteq T, C \subseteq D
  PROVE  Aligned(p, fate, T, D)
BY DEF Aligned, Lined, Flying, Queued, Awaited, Taken

\* A phone with nothing queued and no payloads.
LEMMA ShutLined ==
  ASSUME NEW fate, NEW S, NEW C, NEW p, Flying(p, fate, S, C),
         NEW q, Shut(q), q.inflight = p.inflight, q.serial = p.serial, q.id = p.id
  PROVE  Lined(q, fate, S, C)
BY DEF Lined, Flying, Queued, Numbered, Shut, InFlight

LEMMA CloseLined ==
  ASSUME NEW fate, NEW S, NEW C, NEW p, Owns(p), Lined(p, fate, S, C),
         NEW q, q = SessionClose(p)
  PROVE  Lined(q, fate, S, C) /\ q.state = "CLOSED"
<1>1. /\ SameSession(p, q) /\ q.inflight = p.inflight /\ q.state = "CLOSED"
      /\ IF p.state = "CLOSED" THEN q = p ELSE Shut(q)
  BY SessionCloseFields DEF Owns
<1> QED
  BY <1>1, ShutLined DEF Lined, SameSession

\* The transport takes the first of the queue.
LEMMA PumpLined ==
  ASSUME NEW S, NEW C, NEW p, Owns(p), Lined(p, "idle", S, C), p.inflight = NoEntry,
         NEW x, NEW q, q = Pump(p, x)
  PROVE  /\ Lined(q, "idle", S, C) /\ q.id = p.id
         /\ q = p \/ q.state = "CLOSED" \/ (q.state = p.state /\ InFlight(q))
<1>1. p \in Phones /\ p.queue \in Seq(Entries) /\ p.serial \in Nat
  BY DEF Owns, Phones
<1>2. /\ SameSession(p, q)
      /\ \/ q = p
         \/ /\ p.queue # <<>> /\ q.inflight = NoEntry
            /\ p.state # "CLOSED" => Shut(q)
         \/ /\ p.queue # <<>> /\ SameBridges(p, q)
            /\ q.inflight = Head(p.queue) /\ q.queue = Tail(p.queue)
  BY <1>1, PumpFields DEF Owns
<1>3. CASE p.queue # <<>> /\ q.inflight = NoEntry /\ Shut(q)
  BY <1>2, <1>3, ShutLined DEF Lined, SameSession, Shut
<1>4. CASE /\ p.queue # <<>> /\ SameBridges(p, q)
           /\ q.inflight = Head(p.queue) /\ q.queue = Tail(p.queue)
  <2> DEFINE e == p.queue[1]
  <2>1. /\ 1 \in DOMAIN p.queue /\ e \in Entries /\ Head(p.queue) = e
        /\ \A i \in DOMAIN q.queue : i + 1 \in DOMAIN p.queue /\ q.queue[i] = p.queue[i + 1]
    BY <1>1, <1>4
  <2>2. e.owner = p.serial /\ e.owner # 0 /\ NoEntry.owner = 0 /\ e # NoEntry
    BY <2>1, EntryTypes DEF Owns
  <2>3. Awaited(e.msg, S, C) /\ e.msg.id = p.id
    BY <1>4, <2>1, <2>2 DEF Lined, Queued, InFlight
  <2>4. Flying(q, "idle", S, C)
    BY <1>2, <1>4, <2>1, <2>2, <2>3 DEF Flying, InFlight, SameSession
  <2>5. Queued(q, S, C)
    BY <1>2, <1>4, <2>1, <2>2 DEF Lined, Queued, InFlight, SameSession
  <2>6. Numbered(q)
    BY <1>2, <1>4 DEF Lined, Numbered, SameSession, SameBridges
  <2>7. q.state = p.state /\ InFlight(q)
    BY <1>2, <1>4, <2>1, <2>2 DEF InFlight, SameSession, SameBridges
  <2> QED
    BY <1>2, <2>4, <2>5, <2>6, <2>7 DEF Lined, SameSession
<1> QED
  BY <1>2, <1>3, <1>4 DEF Owns, SameSession

\* A message joins the line.
LEMMA EnqueueLined ==
  ASSUME NEW fate, NEW S, NEW C, NEW p, p \in Phones, Transport(p), p.state # "CLOSED",
         p.serial > 0, Lined(p, fate, S, C),
         NEW m \in PhoneMessages, m.id = p.id,
         m.type = "SERVER_RESULT_CHUNK" => m.index = 0 \/ p.inflight = NoEntry,
         ~InFlight(p) /\ p.queue = <<>> => Awaited(m, S, C),
         NEW x, NEW q, q = Enqueue(p, m, x)
  PROVE  /\ Lined(q, fate, S, C)
         /\ q.state = "CLOSED" \/ (q.state = p.state /\ (InFlight(q) \/ q.queue # <<>>))
<1>1. p.queue \in Seq(Entries) /\ p.serial \in Nat /\ NoEntry.owner = 0
  BY EntryTypes DEF Phones
<1>2. /\ SameSession(p, q)
      /\ \/ p.inflight = NoEntry /\ q.inflight = NoEntry /\ Shut(q)
         \/ /\ p.inflight = NoEntry /\ SameBridges(p, q)
            /\ q.inflight = EntryOf(p, m) /\ q.queue = <<>>
         \/ /\ p.inflight # NoEntry /\ SameBridges(p, q)
            /\ q.inflight = p.inflight /\ q.queue = Append(p.queue, EntryOf(p, m))
  BY EnqueueFields
<1>3. EntryOf(p, m).owner = p.serial /\ EntryOf(p, m).msg = m /\ EntryOf(p, m) # NoEntry
  BY <1>1 DEF EntryOf
<1>4. CASE p.inflight = NoEntry /\ q.inflight = NoEntry /\ Shut(q)
  BY <1>2, <1>4, ShutLined DEF Lined, SameSession, Shut
<1>5. CASE /\ p.inflight = NoEntry /\ SameBridges(p, q)
           /\ q.inflight = EntryOf(p, m) /\ q.queue = <<>>
  <2>1. Awaited(m, S, C) /\ fate \in {"idle", "orphaned"}
    BY <1>1, <1>5 DEF InFlight, Transport, Lined, Flying
  <2>2. InFlight(q)
    BY <1>2, <1>3, <1>5 DEF InFlight, SameSession
  <2>3. Flying(q, fate, S, C) /\ Queued(q, S, C)
    BY <1>2, <1>3, <1>5, <2>1, <2>2 DEF Flying, Queued, SameSession
  <2>4. Numbered(q) /\ q.state = p.state
    BY <1>2, <1>5 DEF Lined, Numbered, SameSession, SameBridges
  <2> QED
    BY <2>2, <2>3, <2>4 DEF Lined
<1>6. CASE /\ p.inflight # NoEntry /\ SameBridges(p, q)
           /\ q.inflight = p.inflight /\ q.queue = Append(p.queue, EntryOf(p, m))
  <2> DEFINE e == EntryOf(p, m)
  <2>1. /\ q.queue # <<>>
        /\ IF p.queue = <<>> THEN q.queue[1] = e ELSE q.queue[1] = p.queue[1]
        /\ \A i \in DOMAIN q.queue :
             q.queue[i] = e \/ (i \in DOMAIN p.queue /\ q.queue[i] = p.queue[i])
    <3>1. Append(p.queue, e) # <<>>
          /\ DOMAIN Append(p.queue, e) = 1 .. Len(p.queue) + 1
          /\ Append(p.queue, e)[Len(p.queue) + 1] = e
          /\ \A i \in 1 .. Len(p.queue) : Append(p.queue, e)[i] = p.queue[i]
          /\ DOMAIN p.queue = 1 .. Len(p.queue) /\ Len(p.queue) \in Nat
          /\ p.queue = <<>> <=> Len(p.queue) = 0
      <4>1. e \in Entries
        BY <1>1 DEF EntryOf, Entries
      <4> HIDE DEF e
      <4> QED
        BY <1>1, <4>1
    <3> HIDE DEF e
    <3> QED
      BY <1>6, <3>1 DEF e
  <2> HIDE DEF e
  <2>2. e.msg = m
    BY <1>3 DEF e
  <2>3. Flying(q, fate, S, C) /\ (InFlight(p) <=> InFlight(q))
    BY <1>2, <1>6 DEF Lined, Flying, InFlight, SameSession
  <2>4. Queued(q, S, C)
    BY <1>2, <1>6, <2>1, <2>2, <2>3 DEF Lined, Queued, SameSession
  <2>5. Numbered(q) /\ q.state = p.state
    BY <1>2, <1>6 DEF Lined, Numbered, SameSession, SameBridges
  <2> QED
    BY <2>1, <2>3, <2>4, <2>5 DEF Lined
<1> QED
  BY <1>2, <1>4, <1>5, <1>6

\* Phone d has closed the bridge of p and is to tell the outcome.
Outcome(p, d, fate, S, C) ==
  /\ d \in Phones /\ Transport(d) /\ Lined(d, fate, S, C)
  /\ d.state = "FORWARDING_TERMINAL" /\ d.serial > 0
  /\ SameSession(p, d) /\ SameTransport(p, d)

LEMMA OutcomeLined ==
  ASSUME NEW fate, NEW S, NEW C, NEW p, Core(p), p.state # "CLOSED",
         Lined(p, fate, S, C), NEW payloads \in Seq(PhoneMessages),
         \A i \in DOMAIN payloads : payloads[i].id = p.id /\ payloads[i].index = i - 1
  PROVE  /\ Outcome(p, [ServerClose(p) EXCEPT !.state = "FORWARDING_TERMINAL"], fate, S, C)
         /\ Outcome(p, [ServerClose(p) EXCEPT !.state = "FORWARDING_TERMINAL",
                                              !.payloads = payloads], fate, S, C)
<1> DEFINE c == ServerClose(p)
           d == [c EXCEPT !.state = "FORWARDING_TERMINAL"]
           e == [c EXCEPT !.state = "FORWARDING_TERMINAL", !.payloads = payloads]
<1>1. c \in Phones /\ SameSession(p, c) /\ SameTransport(p, c) /\ c.payloads = p.payloads
  BY ServerCloseFields DEF Core
<1>2. "FORWARDING_TERMINAL" \in SessionStates
  BY DEF SessionStates
<1> HIDE DEF c
<1>3. d \in Phones /\ e \in Phones
  BY <1>1, <1>2 DEF Phones
<1>4. /\ SameSession(p, d) /\ SameTransport(p, d) /\ d.payloads = p.payloads
      /\ d.state = "FORWARDING_TERMINAL"
  BY <1>1, <1>3 DEF Phones, SameSession, SameTransport
<1>5. /\ SameSession(p, e) /\ SameTransport(p, e) /\ e.payloads = payloads
      /\ e.state = "FORWARDING_TERMINAL"
  BY <1>1, <1>3 DEF Phones, SameSession, SameTransport
<1> HIDE DEF d, e
<1>6. ASSUME NEW g \in Phones, SameSession(p, g), SameTransport(p, g),
             g.state = "FORWARDING_TERMINAL", g.payloads \in {p.payloads, payloads}
      PROVE  Outcome(p, g, fate, S, C)
  <2>1. Transport(g) /\ g.serial > 0
    BY <1>6 DEF Core, Transport, SameSession, SameTransport
  <2>2. Flying(g, fate, S, C) /\ Queued(g, S, C)
    BY <1>6 DEF Lined, Flying, Queued, InFlight, SameSession, SameTransport
  <2>3. Numbered(g)
    BY <1>6 DEF Lined, Numbered, SameSession
  <2> QED
    BY <1>6, <2>1, <2>2, <2>3 DEF Outcome, Lined
<1>7. Outcome(p, d, fate, S, C) /\ Outcome(p, e, fate, S, C)
  BY <1>3, <1>4, <1>5, <1>6
<1> QED
  BY <1>7 DEF c, d, e

\* A failure may be told at any time.
LEMMA SessionFailAligned ==
  ASSUME NEW fate, NEW S, NEW C, NEW p, Core(p), Lined(p, fate, S, C),
         NEW status \in StatusCodes, NEW x, NEW q, q = SessionFail(p, status, x)
  PROVE  Aligned(q, fate, S, C)
<1>1. CASE Stopped(p)
  BY <1>1, StoppedAligned DEF SessionFail, Stopped
<1>2. CASE ~Stopped(p)
  <2> DEFINE d == [ServerClose(p) EXCEPT !.state = "FORWARDING_TERMINAL"]
             m == Failure(p.id, status)
  <2>1. p.id \in ReqIds /\ p.state # "CLOSED" /\ q = Enqueue(d, m, x)
    BY <1>2 DEF Core, Stopped, SessionFail
  <2>2. Outcome(p, d, fate, S, C)
    <3>1. <<>> \in Seq(PhoneMessages) /\ \A i \in DOMAIN <<>> : FALSE
      OBVIOUS
    <3> QED
      BY <2>1, <3>1, OutcomeLined
  <2>3. m \in PhoneMessages /\ m.type = "FAILURE" /\ m.id = p.id
    BY <2>1, MessageTypes DEF Failure
  <2> HIDE DEF d, m
  <2>4. Lined(q, fate, S, C) /\ q.state \in {"CLOSED", d.state}
    <3>1. m.id = d.id /\ Awaited(m, S, C)
      BY <2>2, <2>3 DEF Outcome, SameSession, Awaited
    <3> QED
      BY <2>1, <2>2, <2>3, <3>1, EnqueueLined DEF Outcome
  <2> QED
    BY <2>2, <2>4, StoppedAligned DEF Outcome, Stopped
<1> QED
  BY <1>1, <1>2

LEMMA ServerFailAligned ==
  ASSUME NEW fate, NEW S, NEW C, NEW p, Core(p), Aligned(p, fate, S, C),
         NEW error \in DOMAIN StatusForServerError, NEW x, NEW q, q = ServerFail(p, error, x)
  PROVE  Aligned(q, fate, S, C)
<1>1. StatusForServerError[error] \in StatusCodes
  BY DEF StatusForServerError, StatusCodes
<1> QED
  BY <1>1, SessionFailAligned DEF ServerFail, Aligned

\* The chunks of a result are numbered.
LEMMA ResultChunksNumbered ==
  ASSUME NEW r, NEW success, NEW response \in Texts
  PROVE  \A i \in DOMAIN ResultChunks(r, success, response) :
           /\ ResultChunks(r, success, response)[i].id = r
           /\ ResultChunks(r, success, response)[i].index = i - 1
<1>1. Len(response) \in Nat
  OBVIOUS
<1>2. CASE Len(response) = 0
  BY <1>2 DEF ResultChunks
<1>3. CASE Len(response) # 0
  BY <1>1, <1>3 DEF ResultChunks
<1> QED
  BY <1>2, <1>3

\* The first chunk of a result is told when the watch awaits it, or SEND_STARTED
\* goes before it.
LEMMA ForwardResultAligned ==
  ASSUME NEW fate, NEW S, NEW C, NEW p, Core(p), Aligned(p, fate, S, C),
         p.state = "AWAITING_RESULT",
         NEW f \in Frames \cup {NoFrame}, NEW x, NEW q, q = ForwardResult(p, f, x)
  PROVE  Aligned(q, fate, S, C)
<1> DEFINE payloads == ResultChunks(p.id, f.success, f.response)
           d == [ServerClose(p) EXCEPT !.state = "FORWARDING_TERMINAL",
                                       !.payloads = payloads]
<1>1. p.id \in ReqIds /\ f.success \in BOOLEAN /\ f.response \in Texts
  BY FrameTypes DEF Core
<1>2. /\ payloads \in Seq(PhoneMessages) /\ Len(payloads) > 0
      /\ \A i \in DOMAIN payloads : payloads[i].type = "SERVER_RESULT_CHUNK"
                                    /\ payloads[i].id = p.id /\ payloads[i].index = i - 1
  BY <1>1, ResultChunksType, ResultChunksNumbered
<1>3. q = Enqueue(d, payloads[1], x)
  BY DEF ForwardResult
<1> HIDE DEF payloads
<1>4. Outcome(p, d, fate, S, C)
  BY <1>2, OutcomeLined DEF Aligned
<1>5. /\ payloads[1] \in PhoneMessages /\ payloads[1].type = "SERVER_RESULT_CHUNK"
      /\ payloads[1].id = p.id /\ payloads[1].index = 0
  BY <1>2
<1> HIDE DEF d
<1>6. payloads[1].id = d.id /\ (~InFlight(d) /\ d.queue = <<>> => Awaited(payloads[1], S, C))
  BY <1>4, <1>5 DEF Outcome, SameSession, SameTransport, InFlight, Aligned, Awaited
<1>7. Lined(q, fate, S, C) /\ q.state \in {"CLOSED", d.state}
  BY <1>3, <1>4, <1>5, <1>6, EnqueueLined DEF Outcome
<1> QED
  BY <1>4, <1>7, StoppedAligned DEF Outcome, Stopped

LEMMA HandleFrameAligned ==
  ASSUME NEW fate, NEW S, NEW C, NEW p, Sound(p), Aligned(p, fate, S, C),
         NEW f \in Frames \cup {NoFrame}, NEW x, NEW q, q = HandleFrame(p, f, x)
  PROVE  Aligned(q, fate, S, C)
<1>1. \/ q = p
      \/ p.server = "AWAITING_RESULT" /\ q = ForwardResult(p, f, x)
      \/ q = ServerFail(p, "SERVER", x)
      \/ q = ServerFail(p, "PROTOCOL", x)
  BY DEF HandleFrame
<1>2. {"SERVER", "PROTOCOL"} \subseteq DOMAIN StatusForServerError
  BY DEF StatusForServerError
<1>3. p.server = "AWAITING_RESULT" => p.state = "AWAITING_RESULT"
  BY DEF Sound, Core, Agree, Waiting, Phones, SessionStates
<1> QED
  BY <1>1, <1>2, <1>3, ForwardResultAligned, ServerFailAligned DEF Sound

\* SEND_STARTED is told when the watch has sent its last chunk.
LEMMA TrySendAligned ==
  ASSUME NEW fate, NEW S, NEW C, NEW p, Handing(p), Aligned(p, fate, S, C),
         NEW f \in Frames \cup {NoFrame}, NEW x, NEW q, q = TrySend(p, x, f)
  PROVE  Aligned(q, fate, S, C)
<1>1. /\ p \in Phones /\ Core(p) /\ p.state = "WAITING_TO_SEND"
      /\ p.server \in {"CONNECTING", "READY"} /\ p.id \in ReqIds /\ p.id \in S
  BY DEF Handing, Core, Aligned
<1>2. CASE p.socket # "open"
  BY <1>2 DEF TrySend
<1>3. CASE p.socket = "open" /\ "send" \in x
  <2>1. q = ServerFail(p, "SEND", x)
    BY <1>1, <1>3 DEF TrySend, Handing
  <2>2. "SEND" \in DOMAIN StatusForServerError
    BY DEF StatusForServerError
  <2> QED
    BY <1>1, <2>1, <2>2, ServerFailAligned
<1>4. CASE p.socket = "open" /\ "send" \notin x
  <2> DEFINE d == [p EXCEPT
               !.server = "AWAITING_RESULT",
               !.state = "AWAITING_RESULT",
               !.timers = {"result"},
               !.requests = Append(@, RequestOf(p))]
             e == Enqueue(d, SendStarted(p.id), x)
  <2>1. q = HandleFrame(e, f, x)
    BY <1>1, <1>4 DEF TrySend, Handing, RequestOf
  <2>2. SentFrom(p, d)
    BY <1>4, SentFields
  <2> HIDE DEF d
  <2>3. Sound(e)
    BY <2>2, AnnouncementSound
  <2>4. /\ d \in Phones /\ Transport(d) /\ d.serial > 0 /\ d.id = p.id
        /\ d.state = "AWAITING_RESULT"
    BY <1>1, <2>2 DEF SentFrom, SameTransport, Core, Transport
  <2>5. Lined(d, fate, S, C)
    <3>1. Flying(d, fate, S, C) /\ Queued(d, S, C)
      BY <2>2 DEF SentFrom, SameTransport, Aligned, Lined, Flying, Queued, InFlight
    <3>2. Numbered(d)
      BY <2>2 DEF SentFrom, Aligned, Lined, Numbered
    <3> QED
      BY <3>1, <3>2 DEF Lined
  <2>6. /\ SendStarted(p.id) \in PhoneMessages /\ SendStarted(p.id).id = d.id
        /\ SendStarted(p.id).type = "SEND_STARTED" /\ Awaited(SendStarted(p.id), S, C)
    BY <1>1, <2>4, MessageTypes DEF SendStarted, Awaited
  <2> HIDE DEF e
  <2>7. /\ Lined(e, fate, S, C)
        /\ e.state = "CLOSED" \/ (e.state = d.state /\ (InFlight(e) \/ e.queue # <<>>))
    BY <2>4, <2>5, <2>6, EnqueueLined DEF e
  <2>8. Aligned(e, fate, S, C)
    BY <2>4, <2>7 DEF Aligned
  <2> QED
    BY <2>1, <2>3, <2>8, HandleFrameAligned
<1> QED
  BY <1>2, <1>3, <1>4

\* A new session follows messages of earlier requests only.
LEMMA StartSessionAligned ==
  ASSUME NEW fate, NEW S, NEW C, NEW p, Sound(p), Aligned(p, fate, S, C), NEW r \in ReqIds,
         p.inflight # NoEntry /\ p.inflight.msg.type # "FAILURE" => p.inflight.msg.id # r,
         NEW x, NEW q, q = StartSession(p, r, x)
  PROVE  Aligned(q, fate, S, C)
<1> DEFINE s == SessionClose(p)
           fresh == Fresh(s, r, "connecting")
           bare == Fresh(s, r, "none")
<1>1. Sound(s) /\ s.state = "CLOSED" /\ s.inflight = p.inflight /\ s \in Phones
  BY SessionCloseSound DEF Sound, Core
<1>2. Lined(s, fate, S, C) /\ s.queue = <<>> /\ s.inflight.owner <= s.serial /\ s.serial \in Nat
  BY <1>1, SoundOwns, CloseLined DEF Aligned, Sound, Core, Ordered, Transport, Phones
<1>3. q = fresh \/ q = ServerFail(bare, "SERVER", x)
  <2>1. [fresh EXCEPT !.socket = "none"] = bare
    BY DEF Fresh
  <2> QED
    BY <2>1 DEF StartSession, Fresh
<1> HIDE DEF s
<1>4. ASSUME NEW socket \in {"connecting", "none"}
      PROVE  Core(Fresh(s, r, socket)) /\ Aligned(Fresh(s, r, socket), fate, S, C)
  <2> DEFINE t == Fresh(s, r, socket)
  <2>1. /\ Core(t) /\ t.inflight = s.inflight /\ t.state = "RECEIVING_TRANSCRIPT"
        /\ t.id = r /\ t.serial = s.serial + 1
    BY <1>1, FreshSound
  <2>2. t.queue = <<>> /\ t.payloads = <<>>
    BY <1>1, <1>2 DEF Fresh, Phones, Lined, Numbered
  <2> HIDE DEF t
  <2>3. ~InFlight(t)
    <3>1. s.inflight.owner \in Nat
      BY <1>1, EntryTypes DEF Phones
    <3> QED
      BY <1>2, <2>1, <3>1 DEF InFlight
  <2>4. Flying(t, fate, S, C) /\ Queued(t, S, C) /\ Numbered(t)
    BY <1>1, <1>2, <2>1, <2>2, <2>3 DEF Lined, Flying, Queued, Numbered
  <2>5. Core(t) /\ Aligned(t, fate, S, C)
    BY <2>1, <2>4 DEF Aligned, Lined
  <2> QED
    BY <2>5 DEF t
<1>5. "SERVER" \in DOMAIN StatusForServerError
  BY DEF StatusForServerError
<1>6. /\ Aligned(fresh, fate, S, C)
      /\ Core(bare) /\ Aligned(bare, fate, S, C)
  BY <1>4
<1> HIDE DEF fresh, bare
<1> QED
  BY <1>3, <1>5, <1>6, ServerFailAligned

\* The bridges may change when the line and the session do not.
LEMMA SameLine ==
  ASSUME NEW fate, NEW S, NEW C, NEW p, Lined(p, fate, S, C),
         NEW q, SameSession(p, q), SameTransport(p, q), q.payloads = p.payloads,
         q.state = "CLOSED" => p.state = "CLOSED"
  PROVE  Lined(q, fate, S, C)
<1>1. Flying(q, fate, S, C) /\ Queued(q, S, C)
  BY DEF Lined, Flying, Queued, InFlight, SameSession, SameTransport
<1>2. Numbered(q)
  BY DEF Lined, Numbered, SameSession
<1> QED
  BY <1>1, <1>2 DEF Lined

\* A message of the watch keeps the line as it is, if the last chunk of a
\* transcript comes from a watch that expects SEND_STARTED.
LEMMA OnAppMessageAligned ==
  ASSUME NEW fate, NEW S, NEW C, NEW p, Sound(p), Aligned(p, fate, S, C),
         NEW m \in WatchInbox, NEW f \in Frames \cup {NoFrame},
         NEW x, NEW q, q = OnAppMessage(p, m, x, f),
         m.type = "SESSION_BEGIN" /\ p.inflight # NoEntry
           /\ p.inflight.msg.type # "FAILURE" => p.inflight.msg.id # m.id,
         m.type = "TRANSCRIPT_CHUNK" /\ m.index + 1 = m.count
           /\ m.id = p.id /\ p.state = "RECEIVING_TRANSCRIPT" => m.id \in S
  PROVE  Aligned(q, fate, S, C)
<1>1. CASE q = SessionFail(p, "ERROR_PROTOCOL", x)
  <2>1. "ERROR_PROTOCOL" \in StatusCodes
    BY DEF StatusCodes
  <2> QED
    BY <1>1, <2>1, SessionFailAligned DEF Sound, Aligned
<1>2. CASE q = p \/ q = SessionClose(p)
  <2>1. CASE q = SessionClose(p)
    BY <2>1, SoundOwns, CloseLined, StoppedAligned DEF Aligned, Stopped
  <2> QED
    BY <1>2, <2>1
<1>3. CASE Parses(m) /\ m.type = "SESSION_BEGIN"
  <2>1. q = StartSession(p, m.id, x) /\ m.id \in ReqIds
    BY <1>3, WatchMessageTypes DEF OnAppMessage
  <2> QED
    BY <1>3, <2>1, StartSessionAligned
<1>4. CASE /\ Parses(m) /\ m.type \notin {"SESSION_BEGIN", "SESSION_END"}
           /\ p.state \notin {"CLOSED", "FORWARDING_TERMINAL"} /\ m.id = p.id
           /\ q = HandleChunk(p, m, x, f)
  <2>1. m.type = "TRANSCRIPT_CHUNK"
    <3>1. m.type \in {"SESSION_BEGIN", "TRANSCRIPT_CHUNK", "SESSION_END", "MALFORMED"}
      BY WatchInboxAssumption DEF WatchMessages
    <3> QED
      BY <1>4, <3>1 DEF Parses
  <2>2. \/ q = SessionFail(p, "ERROR_PROTOCOL", x)
        \/ Sound(q) /\ Collects(p, q, m) /\ SameTransport(p, q) /\ q.payloads = p.payloads
        \/ \E w \in Phones :
             /\ Completes(p, w, m) /\ Handing(w) /\ SameTransport(p, w)
             /\ w.payloads = p.payloads /\ q = TrySend(w, x, f)
    BY <1>4, <2>1, HandleChunkCases
  <2>3. CASE Collects(p, q, m) /\ SameTransport(p, q) /\ q.payloads = p.payloads
    BY <2>3, SameLine DEF Collects, Aligned
  <2>4. CASE \E w \in Phones :
               /\ Completes(p, w, m) /\ Handing(w) /\ SameTransport(p, w)
               /\ w.payloads = p.payloads /\ q = TrySend(w, x, f)
    <3>1. PICK w \in Phones :
               /\ Completes(p, w, m) /\ Handing(w) /\ SameTransport(p, w)
               /\ w.payloads = p.payloads /\ q = TrySend(w, x, f)
      BY <2>4
    <3>2. w.id = p.id /\ w.state = "WAITING_TO_SEND" /\ m.id \in S
      BY <1>4, <2>1, <3>1 DEF Completes, SameSession
    <3>3. Lined(w, fate, S, C)
      BY <3>1, <3>2, SameLine DEF Completes, Aligned
    <3>4. Aligned(w, fate, S, C)
      BY <1>4, <3>2, <3>3 DEF Aligned
    <3> QED
      BY <3>1, <3>4, TrySendAligned
  <2> QED
    BY <1>1, <2>2, <2>3, <2>4
<1> QED
  BY <1>1, <1>2, <1>3, <1>4 DEF OnAppMessage

\* The transport goes on after a message that is settled.
LEMMA PumpAligned ==
  ASSUME NEW S, NEW C, NEW p, Owns(p), Aligned(p, "idle", S, C), p.inflight = NoEntry,
         NEW x, NEW q, q = Pump(p, x)
  PROVE  Aligned(q, "idle", S, C)
BY PumpLined DEF Aligned

\* A phone whose message is settled is in line, if what waits is awaited.
LEMMA SettledAligned ==
  ASSUME NEW fate, NEW S, NEW C, NEW p, Aligned(p, fate, S, C), NEW d, Settled(p, d),
         p.queue # <<>> => Awaited(p.queue[1].msg, S, C),
         p.state = "AWAITING_RESULT" /\ p.queue = <<>> => <<p.id, 0>> \in C
  PROVE  Aligned(d, "idle", S, C)
<1>1. Flying(d, "idle", S, C)
  BY DEF Settled, Flying
<1>2. Queued(d, S, C)
  BY DEF Settled, SameSession, Aligned, Lined, Queued
<1>3. Numbered(d)
  BY DEF Settled, SameSession, SameBridges, Aligned, Lined, Numbered
<1> QED
  BY <1>1, <1>2, <1>3 DEF Aligned, Lined, Settled, SameSession, SameBridges

\* The session closes once its own message is settled.
LEMMA CloseAligned ==
  ASSUME NEW S, NEW C, NEW d, Owns(d), d.inflight = NoEntry, d.state # "CLOSED",
         NEW x, NEW q, q = Pump(SessionClose(d), x)
  PROVE  Aligned(q, "idle", S, C)
<1> DEFINE g == SessionClose(d)
<1>1. Shut(g) /\ g.inflight = NoEntry
  BY SessionCloseFields DEF Owns
<1> HIDE DEF g
<1>2. q = g
  BY <1>1 DEF Pump, g, Shut
<1>3. Lined(g, "idle", S, C) /\ Stopped(g)
  BY <1>1 DEF Lined, Flying, Queued, Numbered, Shut, Stopped
<1> QED
  BY <1>2, <1>3, StoppedAligned

\* The completion of a message brings the next one that the watch awaits.
LEMMA DoneAligned ==
  ASSUME NEW S, NEW C, NEW p, Sound(p), NEW fate \in {"delivered", "failed"},
         Aligned(p, fate, S, C), p.inflight # NoEntry,
         NEW ok, ok = (fate = "delivered"), NEW x, NEW d, Settled(p, d),
         NEW q, q = Pump(Delivered(d, p.inflight, ok, x), x)
  PROVE  Aligned(q, "idle", S, C)
<1> DEFINE e == p.inflight
           m == e.msg
<1>1. /\ p \in Phones /\ e \in Entries /\ e.owner \in Nat \ {0} /\ m \in PhoneMessages
      /\ p.queue \in Seq(Entries) /\ p.payloads \in Seq(PhoneMessages)
  BY EntryTypes DEF Sound, Core, Phones
<1>2. Ordered(p) /\ Owns(p) /\ Transport(p)
  BY SoundOwns DEF Sound, Core
<1>3. Owns(d) /\ d.inflight = NoEntry /\ d.state = p.state /\ d.serial = p.serial
      /\ d.queue = p.queue /\ d.payloads = p.payloads /\ d.id = p.id
  BY <1>2 DEF Settled, SameSession, SameBridges, Owns
<1>4. CASE ~Concerns(d, e)
  <2>1. q = Pump(d, x)
    BY <1>4 DEF Delivered
  <2>2. p.state = "CLOSED" \/ ~InFlight(p)
    BY <1>3, <1>4 DEF Concerns, InFlight
  <2>3. /\ p.queue # <<>> => Awaited(p.queue[1].msg, S, C)
        /\ p.state = "AWAITING_RESULT" /\ p.queue = <<>> => <<p.id, 0>> \in C
    BY <1>2, <2>2 DEF Ordered, Aligned, Lined, Queued
  <2>4. Aligned(d, "idle", S, C)
    BY <2>3, SettledAligned
  <2> QED
    BY <1>3, <2>1, <2>4, PumpAligned
<1>5. CASE Concerns(d, e)
  <2>1. p.state # "CLOSED" /\ InFlight(p) /\ m.id = p.id
    BY <1>3, <1>5 DEF Concerns, InFlight, Aligned, Lined, Flying
  <2>2. \/ q = Pump(SessionClose(d), x)
        \/ fate = "delivered" /\ m.type = "SEND_STARTED" /\ q = Pump(d, x)
        \/ /\ fate = "delivered" /\ m.type \notin {"FAILURE", "SEND_STARTED"}
           /\ m.index + 1 < Len(p.payloads)
           /\ q = Pump(Enqueue(d, p.payloads[m.index + 2], x), x)
    BY <1>3, <1>5 DEF Delivered, EndsSession
  <2>3. CASE fate = "delivered" /\ m.type = "SEND_STARTED" /\ q = Pump(d, x)
    <3>1. <<p.id, 0>> \in C
      BY <2>1, <2>3 DEF Aligned, Lined, Flying, Taken
    <3>2. p.queue # <<>> => /\ 1 \in DOMAIN p.queue
                            /\ p.queue[1].msg.type \in {"FAILURE", "SERVER_RESULT_CHUNK"}
      <4>1. p.queue # <<>> => Len(p.queue) = 1 /\ Terminal(p.queue[1])
        BY <1>1, <1>2, <2>1 DEF Ordered, Sound, Core, Phones, SessionStates
      <4> QED
        BY <1>1, <4>1 DEF Terminal
    <3>3. p.queue # <<>> => Awaited(p.queue[1].msg, S, C)
      BY <3>1, <3>2 DEF Aligned, Lined, Queued, Awaited
    <3>4. Aligned(d, "idle", S, C)
      BY <3>1, <3>3, SettledAligned
    <3> QED
      BY <1>3, <2>3, <3>4, PumpAligned
  <2>4. CASE /\ fate = "delivered" /\ m.type \notin {"FAILURE", "SEND_STARTED"}
             /\ m.index + 1 < Len(p.payloads)
             /\ q = Pump(Enqueue(d, p.payloads[m.index + 2], x), x)
    <3> DEFINE n == p.payloads[m.index + 2]
               g == Enqueue(d, n, x)
    <3>1. m.type = "SERVER_RESULT_CHUNK" /\ m.index \in Nat
      BY <1>1, <2>4 DEF PhoneMessages
    <3>2. m.index + 2 \in DOMAIN p.payloads /\ n \in PhoneMessages
      BY <1>1, <2>4, <3>1
    <3>3. n.id = p.id /\ n.index = m.index + 1
      <4>1. n.index = (m.index + 2) - 1
        BY <3>2 DEF Aligned, Lined, Numbered
      <4>2. n.id = p.id
        BY <3>2 DEF Aligned, Lined, Numbered
      <4> QED
        BY <3>1, <4>1, <4>2
    <3>4. n.type = "SERVER_RESULT_CHUNK"
      BY <3>2 DEF Sound, Core
    <3>5. <<m.id, m.index + 1>> \in C
      BY <2>4, <3>1 DEF Aligned, Lined, Flying, Taken
    <3>6. p.state = "FORWARDING_TERMINAL" /\ p.queue = <<>>
      <4>1. ~Announcing(e) /\ p.state \in SessionStates
        BY <1>1, <3>1 DEF Announcing, Phones
      <4> QED
        BY <1>1, <1>2, <2>1, <4>1 DEF Ordered, Terminal, SessionStates
    <3>7. Aligned(d, "idle", S, C)
      BY <3>6, SettledAligned
    <3>8. Awaited(n, S, C)
      BY <2>1, <3>3, <3>4, <3>5 DEF Awaited
    <3>9. Transport(d) /\ d \in Phones /\ d.serial > 0 /\ d.state # "CLOSED"
      BY <1>1, <1>3, <2>1, <3>6, EntryTypes DEF Transport, Owns, Phones
    <3> HIDE DEF n
    <3>10. Lined(g, "idle", S, C) /\ Stopped(g)
      <4>1. /\ Lined(g, "idle", S, C)
            /\ g.state = "CLOSED" \/ g.state = d.state
        BY <1>3, <3>2, <3>3, <3>7, <3>8, <3>9, EnqueueLined DEF Aligned
      <4> QED
        BY <1>3, <3>6, <4>1 DEF Stopped
    <3>11. g.inflight # NoEntry \/ g.queue = <<>>
      <4>1. \/ Shut(g)
            \/ g.inflight = EntryOf(d, n)
        BY <1>3, <3>2, <3>9, EnqueueFields
      <4> QED
        BY <3>9, <4>1, EntryTypes DEF Shut, EntryOf
    <3>12. q = Pump(g, x)
      BY <2>4 DEF n
    <3> HIDE DEF g
    <3>13. q = g
      BY <3>11, <3>12 DEF Pump
    <3> QED
      BY <3>10, <3>13, StoppedAligned
  <2> QED
    BY <1>3, <2>1, <2>2, <2>3, <2>4, CloseAligned
<1> QED
  BY <1>4, <1>5

\* An event keeps the line as it is.
LEMMA EventAligned ==
  ASSUME IInv, NEW fate, NEW S, NEW C, Aligned(phone, fate, S, C),
         \/ \E m \in WatchInbox :
              /\ Receive(m)
              /\ m.type = "SESSION_BEGIN" /\ phone.inflight # NoEntry
                   /\ phone.inflight.msg.type # "FAILURE" => phone.inflight.msg.id # m.id
              /\ m.type = "TRANSCRIPT_CHUNK" /\ m.index + 1 = m.count
                   /\ m.id = phone.id /\ phone.state = "RECEIVING_TRANSCRIPT" => m.id \in S
         \/ SocketOpens \/ SocketCloses \/ OnOpen
         \/ OnErrorOrClose \/ HandoffTimeout \/ ResultTimeout
         \/ \E f \in Frames : OnFrame(f)
  PROVE  Aligned(phone', fate, S, C)
<1>1. Sound(phone) /\ Core(phone) /\ phone \in Phones
  BY DEF IInv, Sound, Core
<1>2. \A f \in PromptFrames \cup {NoFrame} : f \in Frames \cup {NoFrame}
  BY FramesAssumption
<1>3. {"SERVER", "HANDOFF_TIMEOUT", "RESULT_TIMEOUT"} \subseteq DOMAIN StatusForServerError
  BY DEF StatusForServerError
<1>4. CASE \E m \in WatchInbox :
             /\ Receive(m)
             /\ m.type = "SESSION_BEGIN" /\ phone.inflight # NoEntry
                  /\ phone.inflight.msg.type # "FAILURE" => phone.inflight.msg.id # m.id
             /\ m.type = "TRANSCRIPT_CHUNK" /\ m.index + 1 = m.count
                  /\ m.id = phone.id /\ phone.state = "RECEIVING_TRANSCRIPT" => m.id \in S
  BY <1>1, <1>2, <1>4, OnAppMessageAligned DEF Receive
<1>5. CASE SocketOpens \/ SocketCloses
  <2>1. /\ SameSession(phone, phone') /\ SameTransport(phone, phone')
        /\ phone'.payloads = phone.payloads /\ phone'.state = phone.state
    BY <1>1, <1>5 DEF SocketOpens, SocketCloses, Phones, SameSession, SameTransport
  <2>2. Lined(phone', fate, S, C)
    BY <2>1, SameLine DEF Aligned
  <2> QED
    BY <2>1, <2>2 DEF Aligned, SameSession, SameTransport, InFlight
<1>6. CASE OnOpen
  <2>1. PICK x \in SUBSET MayThrow, f \in PromptFrames \cup {NoFrame} :
          phone' = TrySend(Opened(phone), x, f)
    BY <1>6 DEF OnOpen, Opened
  <2> DEFINE d == Opened(phone)
  <2>2. /\ Follows(phone, d) /\ SameTransport(phone, d) /\ d.payloads = phone.payloads
        /\ \/ phone' = d
           \/ d.state = "WAITING_TO_SEND" /\ Handing(d)
    BY <1>1, <1>2, <1>6, <2>1, OpenCases DEF OnOpen
  <2>3. d.state = phone.state
    BY <1>1 DEF Opened, Phones
  <2>4. phone' = TrySend(d, x, f)
    BY <2>1
  <2> HIDE DEF d
  <2>5. Lined(d, fate, S, C)
    BY <2>2, <2>3, SameLine DEF Follows, Aligned
  <2>6. Aligned(d, fate, S, C)
    BY <2>2, <2>3, <2>5 DEF Follows, Aligned, SameSession, SameTransport, InFlight
  <2> QED
    BY <1>2, <2>2, <2>4, <2>6, TrySendAligned
<1>7. CASE OnErrorOrClose \/ HandoffTimeout \/ ResultTimeout
  BY <1>1, <1>3, <1>7, ServerFailAligned DEF OnErrorOrClose, HandoffTimeout, ResultTimeout
<1>8. CASE \E f \in Frames : OnFrame(f)
  BY <1>1, <1>8, HandleFrameAligned DEF OnFrame
<1> QED
  BY <1>4, <1>5, <1>6, <1>7, <1>8

\* A completion that tells what became of the message brings the next one.
LEMMA CompletionAligned ==
  ASSUME IInv, NEW S, NEW C, NEW fate \in {"delivered", "failed"},
         Aligned(phone, fate, S, C), AppMessageDone(fate = "delivered")
  PROVE  Aligned(phone', "idle", S, C)
<1> DEFINE d == [phone EXCEPT !.inflight = NoEntry]
<1>1. PICK x \in SUBSET MayThrow :
        phone' = Pump(Delivered(d, phone.inflight, fate = "delivered", x), x)
  BY DEF AppMessageDone
<1>2. Sound(phone) /\ phone.inflight # NoEntry
  BY DEF IInv, AppMessageDone
<1>3. Settled(phone, d)
  BY <1>2, SettledFields DEF Sound, Core
<1> HIDE DEF d
<1> QED
  BY <1>1, <1>2, <1>3, DoneAligned

-----------------------------------------------------------------------------
(* Whether the phone is ready for what the watch sends it.                 *)

\* No session begins to receive, and one that receives goes on unless it ends.
Remains(p, q) ==
  /\ q.id = p.id
  /\ \/ Stopped(q)
     \/ q.state = p.state /\ q.assembler = p.assembler
     \/ p.state = "WAITING_TO_SEND" /\ q.state = "AWAITING_RESULT"

\* What is in flight stays in flight.
Holds(p, q) == p.inflight # NoEntry => q.inflight = p.inflight

LEMMA EndsRemains ==
  ASSUME NEW p, NEW q, Ends(p, q)
  PROVE  Remains(p, q) /\ Holds(p, q)
BY DEF Ends, SameSession, Remains, Holds

LEMMA HandsRemains ==
  ASSUME NEW p, p.state = "WAITING_TO_SEND", NEW q, q \in Phones, Hands(p, q)
  PROVE  Remains(p, q) /\ Holds(p, q)
BY DEF Hands, Phones, SessionStates, Waiting, Stopped, Remains, Holds

LEMMA EventRemains ==
  ASSUME IInv,
         \/ SocketOpens \/ SocketCloses \/ OnOpen
         \/ OnErrorOrClose \/ HandoffTimeout \/ ResultTimeout
         \/ \E f \in Frames : OnFrame(f)
  PROVE  Remains(phone, phone') /\ Holds(phone, phone')
<1>1. Sound(phone) /\ Core(phone) /\ phone \in Phones
  BY DEF IInv, Sound, Core
<1>2. \A f \in PromptFrames \cup {NoFrame} : f \in Frames \cup {NoFrame}
  BY FramesAssumption
<1>3. {"SERVER", "HANDOFF_TIMEOUT", "RESULT_TIMEOUT"} \subseteq DOMAIN StatusForServerError
  BY DEF StatusForServerError
<1>4. CASE SocketOpens \/ SocketCloses
  BY <1>1, <1>4 DEF SocketOpens, SocketCloses, Phones, Remains, Holds
<1>5. CASE OnOpen
  <2>1. PICK x \in SUBSET MayThrow, f \in PromptFrames \cup {NoFrame} :
          phone' = TrySend(Opened(phone), x, f)
    BY <1>5 DEF OnOpen, Opened
  <2> DEFINE d == Opened(phone)
  <2>2. /\ Sound(phone') /\ d.inflight = phone.inflight
        /\ phone' = d \/ (d.state = "WAITING_TO_SEND" /\ Hands(d, phone'))
    BY <1>1, <1>2, <1>5, <2>1, OpenSound DEF OnOpen
  <2>3. d.state = phone.state /\ d.assembler = phone.assembler /\ d.id = phone.id
    BY <1>1 DEF Opened, Phones
  <2> HIDE DEF d
  <2>4. CASE d.state = "WAITING_TO_SEND" /\ Hands(d, phone')
    <3>1. phone' \in Phones
      BY <2>2 DEF Sound, Core
    <3>2. Remains(d, phone') /\ Holds(d, phone')
      BY <2>4, <3>1, HandsRemains
    <3> QED
      BY <2>2, <2>3, <3>2 DEF Remains, Holds
  <2> QED
    BY <2>2, <2>3, <2>4 DEF Remains, Holds
<1>6. CASE OnErrorOrClose \/ HandoffTimeout \/ ResultTimeout
  BY <1>1, <1>3, <1>6, ServerFailSound, EndsRemains
     DEF OnErrorOrClose, HandoffTimeout, ResultTimeout
<1>7. CASE \E f \in Frames : OnFrame(f)
  BY <1>1, <1>7, HandleFrameSound, EndsRemains DEF OnFrame
<1> QED
  BY <1>4, <1>5, <1>6, <1>7

LEMMA PumpRemains ==
  ASSUME NEW d, Owns(d), NEW x, NEW q, q = Pump(d, x)
  PROVE  Remains(d, q)
<1>1. /\ SameSession(d, q)
      /\ q = d \/ q.state = "CLOSED" \/ SameBridges(d, q)
  BY PumpFields DEF Owns
<1> QED
  BY <1>1 DEF Remains, Stopped, SameSession, SameBridges

LEMMA DoneRemains ==
  ASSUME IInv, NEW ok \in BOOLEAN, AppMessageDone(ok)
  PROVE  Remains(phone, phone')
<1> DEFINE p == phone
           d == [p EXCEPT !.inflight = NoEntry]
           e == p.inflight
<1>1. PICK x \in SUBSET MayThrow : phone' = Pump(Delivered(d, e, ok, x), x)
  BY DEF AppMessageDone
<1>2. Sound(p) /\ e # NoEntry /\ p \in Phones /\ Ordered(p) /\ Transport(p)
  BY DEF IInv, AppMessageDone, Sound, Core
<1>3. Settled(p, d) /\ Owns(p)
  BY <1>2, SettledFields, SoundOwns
<1> HIDE DEF d
<1>4. /\ Owns(d) /\ d.inflight = NoEntry /\ d.state = p.state /\ d.serial = p.serial
      /\ d.queue = p.queue /\ d.payloads = p.payloads /\ d.id = p.id
      /\ d.assembler = p.assembler
  BY <1>3 DEF Settled, SameSession, SameBridges, Owns
<1>5. CASE phone' = Pump(d, x)
  BY <1>4, <1>5, PumpRemains DEF Remains
<1>6. CASE d.state # "CLOSED" /\ phone' = Pump(SessionClose(d), x)
  <2> DEFINE g == SessionClose(d)
  <2>1. Shut(g) /\ SameSession(d, g)
    BY <1>4, <1>6, SessionCloseFields DEF Owns
  <2>2. phone' = Pump(g, x)
    BY <1>6
  <2> HIDE DEF g
  <2>3. phone' = g
    BY <2>1, <2>2 DEF Pump, Shut
  <2> QED
    BY <1>4, <2>1, <2>3 DEF Remains, Shut, Stopped, SameSession
<1>7. CASE /\ Concerns(d, e) /\ e.msg.type \notin {"FAILURE", "SEND_STARTED"}
           /\ e.msg.index + 1 < Len(d.payloads)
           /\ phone' = Pump(Enqueue(d, d.payloads[e.msg.index + 2], x), x)
  <2>1. e \in Entries /\ e.owner \in Nat \ {0} /\ e.msg \in PhoneMessages
    BY <1>2, EntryTypes DEF Phones
  <2>2. e.msg.type = "SERVER_RESULT_CHUNK" /\ e.msg.index \in Nat
    BY <1>7, <2>1 DEF PhoneMessages
  <2>3. InFlight(p) /\ ~Announcing(e) /\ p.state # "CLOSED"
    BY <1>4, <1>7, <2>2 DEF Concerns, InFlight, Announcing
  <2>4. p.state = "FORWARDING_TERMINAL" /\ p.queue = <<>>
    <3>1. /\ p.state \in SessionStates /\ p.queue \in Seq(Entries)
      BY <1>2 DEF Phones
    <3> QED
      BY <1>2, <2>2, <2>3, <3>1 DEF Ordered, Terminal, SessionStates
  <2>5. e.msg.index + 2 \in 1 .. Len(p.payloads)
    <3> DEFINE i == e.msg.index
    <3>1. i + 1 < Len(p.payloads)
      BY <1>4, <1>7
    <3>2. i \in Nat
      BY <2>2
    <3>3. p.payloads \in Seq(PhoneMessages)
      BY <1>2 DEF Phones
    <3>4. Len(p.payloads) \in Nat
      BY <3>3
    <3> HIDE DEF i, p
    <3>5. i + 2 \in 1 .. Len(p.payloads)
      BY <3>1, <3>2, <3>4
    <3> QED
      BY <3>5 DEF i
  <2> DEFINE n == e.msg.index + 2
  <2>6. /\ n \in 1 .. Len(p.payloads)
        /\ phone' = Pump(Enqueue(d, p.payloads[n], x), x)
    BY <1>4, <1>7, <2>5
  <2> HIDE DEF n
  <2> DEFINE g == Enqueue(d, p.payloads[n], x)
  <2>7. Transport(d) /\ d \in Phones /\ d.serial > 0 /\ d.state # "CLOSED"
    BY <1>2, <1>4, <2>3, <2>4, EntryTypes DEF Transport, Owns, Phones
  <2>8. p.payloads[n] \in PhoneMessages
    BY <1>2, <2>6 DEF Phones
  <2>9. \/ Shut(g)
        \/ SameBridges(d, g) /\ g.inflight = EntryOf(d, p.payloads[n])
    BY <1>4, <2>7, <2>8, EnqueueFields
  <2>10. SameSession(d, g)
    BY <2>7, <2>8, EnqueueFields
  <2>11. phone' = g
    <3>1. phone' = Pump(g, x)
      BY <2>6
    <3>2. EntryOf(d, p.payloads[n]) # NoEntry
      BY <2>7, <2>8, EntryTypes DEF EntryOf
    <3> HIDE DEF g
    <3> QED
      BY <2>9, <3>1, <3>2 DEF Pump, Shut
  <2> HIDE DEF g
  <2> QED
    BY <1>4, <2>9, <2>10, <2>11 DEF Remains, Shut, Stopped, SameSession, SameBridges
<1> QED
  BY <1>1, <1>5, <1>6, <1>7 DEF Delivered, EndsSession, Concerns

\* What a message of the watch makes of the session.
Takes(p, q, m) ==
  IF m.type = "SESSION_BEGIN"
    THEN /\ q.id = m.id
         /\ \/ Stopped(q)
            \/ q.state = "RECEIVING_TRANSCRIPT" /\ q.assembler = NoTranscript
    ELSE /\ q.id = p.id
         /\ \/ Stopped(q)
            \/ q = p /\ ~ (m.type = "TRANSCRIPT_CHUNK" /\ m.id = p.id)
            \/ m.type = "TRANSCRIPT_CHUNK" /\ m.id = p.id /\ Collects(p, q, m)
            \/ /\ m.type = "TRANSCRIPT_CHUNK" /\ m.id = p.id /\ m.index + 1 = m.count
               /\ q.state # "RECEIVING_TRANSCRIPT"

LEMMA ReceiveTakes ==
  ASSUME IInv, NEW m \in WatchInbox, Receive(m)
  PROVE  Takes(phone, phone', m) /\ Holds(phone, phone')
<1>1. PICK x \in SUBSET MayThrow, f \in PromptFrames \cup {NoFrame} :
        phone' = OnAppMessage(phone, m, x, f)
  BY DEF Receive
<1>2. f \in Frames \cup {NoFrame} /\ Sound(phone)
  BY FramesAssumption DEF IInv
<1>3. /\ Sound(phone')
      /\ IF m.type = "SESSION_BEGIN" THEN Begins(phone, phone', m)
         ELSE \/ /\ Ends(phone, phone')
                 /\ m.type = "TRANSCRIPT_CHUNK" /\ m.id = phone.id => Stopped(phone')
              \/ /\ m.type = "TRANSCRIPT_CHUNK" /\ Parses(m) /\ m.id = phone.id
                 /\ Collects(phone, phone', m)
                      \/ \E w \in Phones : Completes(phone, w, m) /\ Hands(w, phone')
  BY <1>1, <1>2, OnAppMessageSound
<1>4. CASE m.type = "SESSION_BEGIN"
  <2>1. Begins(phone, phone', m)
    BY <1>3, <1>4
  <2> QED
    BY <1>4, <2>1 DEF Begins, Takes, Holds
<1>5. CASE /\ m.type # "SESSION_BEGIN" /\ Ends(phone, phone')
           /\ m.type = "TRANSCRIPT_CHUNK" /\ m.id = phone.id => Stopped(phone')
  BY <1>5 DEF Ends, SameSession, Takes, Holds
<1>6. CASE m.type = "TRANSCRIPT_CHUNK" /\ m.id = phone.id /\ Collects(phone, phone', m)
  BY <1>6 DEF Collects, SameSession, Takes, Holds
<1>7. CASE /\ m.type = "TRANSCRIPT_CHUNK" /\ m.id = phone.id
           /\ \E w \in Phones : Completes(phone, w, m) /\ Hands(w, phone')
  <2>1. PICK w \in Phones : Completes(phone, w, m) /\ Hands(w, phone')
    BY <1>7
  <2>2. Remains(w, phone') /\ Holds(w, phone')
    BY <1>3, <2>1, HandsRemains DEF Completes, Sound, Core
  <2>3. phone'.id = phone.id /\ Holds(phone, phone')
    BY <2>1, <2>2 DEF Completes, SameSession, Remains, Holds
  <2>4. m.index + 1 = m.count /\ phone'.state # "RECEIVING_TRANSCRIPT"
    BY <2>1, <2>2 DEF Completes, Remains, Stopped
  <2> QED
    BY <1>7, <2>3, <2>4 DEF Takes
<1> QED
  BY <1>3, <1>4, <1>5, <1>6, <1>7

\* Each chunk that a session has collected carried one piece.
Tidy(p) ==
  p.state = "RECEIVING_TRANSCRIPT" =>
    /\ Len(p.assembler.text) = p.assembler.next
    /\ p.assembler.next = 0 => p.assembler.count = 0

LEMMA RemainsTidy ==
  ASSUME NEW p, Tidy(p), NEW q, Remains(p, q)
  PROVE  Tidy(q)
BY DEF Tidy, Remains, Stopped

LEMMA TakesTidy ==
  ASSUME NEW p \in Phones, Tidy(p), NEW m \in WatchMessages, NEW q, Takes(p, q, m),
         m.type = "TRANSCRIPT_CHUNK" => m.text \in Texts /\ Len(m.text) = 1
  PROVE  Tidy(q)
<1>1. CASE q = p \/ q.state # "RECEIVING_TRANSCRIPT"
  BY <1>1 DEF Tidy
<1>2. CASE q.state = "RECEIVING_TRANSCRIPT" /\ q.assembler = NoTranscript
  BY <1>2 DEF Tidy, NoTranscript
<1>3. CASE m.type = "TRANSCRIPT_CHUNK" /\ Collects(p, q, m)
  <2> DEFINE a == p.assembler
  <2>1. a.text \in Texts /\ a.next \in Nat /\ Len(a.text) = a.next
    BY <1>3 DEF Phones, Collects, Tidy
  <2>2. q.assembler.text = a.text \o m.text /\ q.assembler.next = a.next + 1
    <3>1. q.assembler = [text |-> a.text \o m.text, count |-> m.count,
                         total |-> m.total, next |-> a.next + 1]
      BY <1>3, Zenon DEF Collects
    <3> HIDE DEF a
    <3> DEFINE t == a.text \o m.text
               n == a.next + 1
    <3>2. q.assembler = [text |-> t, count |-> m.count, total |-> m.total, next |-> n]
      BY <3>1
    <3> HIDE DEF t, n
    <3>3. q.assembler.text = t /\ q.assembler.next = n
      BY <3>2
    <3> QED
      BY <3>3 DEF t, n
  <2>3. Len(a.text \o m.text) = a.next + 1
    <3>1. m.text \in Texts /\ Len(m.text) = 1
      BY <1>3
    <3>2. a.text \in Seq(Pieces) /\ m.text \in Seq(Pieces)
      BY <2>1, <3>1 DEF Texts
    <3>3. Len(a.text \o m.text) = Len(a.text) + Len(m.text)
      <4> DEFINE u == a.text
                 v == m.text
      <4>1. u \in Seq(Pieces) /\ v \in Seq(Pieces)
        BY <3>2
      <4> HIDE DEF u, v
      <4>2. Len(u \o v) = Len(u) + Len(v)
        BY <4>1
      <4> QED
        BY <4>2 DEF u, v
    <3> QED
      BY <2>1, <3>1, <3>3
  <2> QED
    BY <2>1, <2>2, <2>3 DEF Tidy
<1> QED
  BY <1>1, <1>2, <1>3 DEF Takes, Stopped

\* A session with nothing in flight that has not begun to receive.
LEMMA IdleAligned ==
  ASSUME NEW fate \in {"idle", "orphaned"}, NEW S, NEW C, NEW q,
         Shut(q), q.inflight = NoEntry
  PROVE  Aligned(q, fate, S, C) /\ Tidy(q)
<1>1. Lined(q, fate, S, C)
  BY DEF Shut, Lined, Flying, Queued, Numbered
<1>2. Stopped(q)
  BY DEF Shut, Stopped
<1> QED
  BY <1>1, <1>2, StoppedAligned DEF Tidy, Stopped

\* The watch takes the message in flight, and what it expects changes for the
\* request of that message only.
LEMMA DeliveredAligned ==
  ASSUME NEW S, NEW C, NEW p, Sound(p), Aligned(p, "sent", S, C), p.inflight # NoEntry,
         p.inflight.msg.type # "FAILURE",
         NEW T, \A r \in S : r # p.inflight.msg.id => r \in T,
         NEW D, \A c \in C : c[1] # p.inflight.msg.id => c \in D,
         Taken(p.inflight.msg, D)
  PROVE  Aligned(p, "delivered", T, D)
<1>1. Flying(p, "delivered", T, D)
  BY DEF Aligned, Lined, Flying
<1>2. ~InFlight(p) => p.inflight.msg.id # p.id
  BY DEF Aligned, Lined, Flying
<1>3. Queued(p, T, D)
  <2>1. ASSUME ~InFlight(p), p.queue # <<>>
        PROVE  Awaited(p.queue[1].msg, T, D)
    <3>1. p.queue[1].msg.id = p.id /\ Awaited(p.queue[1].msg, S, C)
      BY <2>1, SMT DEF Aligned, Lined, Queued, Sound, Core, Phones
    <3> DEFINE m == p.queue[1].msg
    <3>2. m.id # p.inflight.msg.id
      BY <1>2, <2>1, <3>1
    <3>3. \A k : << m.id, k >>[1] = m.id
      OBVIOUS
    <3> QED
      BY <3>1, <3>2, <3>3 DEF Awaited
  <2> QED
    BY <2>1 DEF Aligned, Lined, Queued
<1>4. p.state = "WAITING_TO_SEND" => p.id \in T
  BY <1>2 DEF Aligned, Sound, Core, Ordered
<1>5. p.state = "AWAITING_RESULT" /\ ~InFlight(p) /\ p.queue = <<>> => <<p.id, 0>> \in D
  <2>1. <<p.id, 0>>[1] = p.id
    OBVIOUS
  <2> QED
    BY <1>2, <2>1 DEF Aligned
<1> QED
  BY <1>1, <1>3, <1>4, <1>5 DEF Aligned, Lined

\* The fate of the message in flight is learnt, or the way is free for it.
LEMMA FateAligned ==
  ASSUME NEW fate, NEW S, NEW C, NEW p, Aligned(p, fate, S, C), NEW new,
         \/ new = "failed" /\ p.inflight # NoEntry
         \/ new = "sent" /\ p.inflight # NoEntry
         \/ new = "delivered" /\ p.inflight # NoEntry /\ p.inflight.msg.type = "FAILURE"
         \/ new = "idle" /\ fate \in {"idle", "orphaned"}
  PROVE  Aligned(p, new, S, C)
<1>1. Flying(p, new, S, C)
  BY DEF Aligned, Lined, Flying, Taken
<1> QED
  BY <1>1 DEF Aligned, Lined

=============================================================================
