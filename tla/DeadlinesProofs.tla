-------------------------- MODULE DeadlinesProofs --------------------------
(***************************************************************************)
(* Proofs about the watchdogs and the phone's timers, for any durations:   *)
(* every run settles in the time of all its watchdogs together, and, if    *)
(* the durations leave room for the delays of the link (Margins), the      *)
(* watch makes up no reason of its own.                                    *)
(*                                                                         *)
(* A countdown changes with every tick, but the time at which it is over   *)
(* (Due) does not: the invariant bounds when each armed timer is over,     *)
(* counted from the start or from the hand-over.  Which timers are armed,  *)
(* and where each message can be when they are, is the rest of it: the     *)
(* shape of the queue (QueueFits), the timers of each state (TimersFit),   *)
(* and how far each end is, given the other (StagesFit).                   *)
(***************************************************************************)
EXTENDS Deadlines, TLAPS

\* The watch has not heard that the transcript was sent.
Early == {"TRANSFERRING", "AWAITING_SEND_START"}

\* What the queue may hold.
SendStarted == [type |-> "SEND_STARTED"]
Lost == [type |-> "LOST"]
Chunk(n) == [type |-> "SERVER_RESULT_CHUNK", left |-> n]
Fails(s) == [type |-> "FAILURE", status |-> s]

Reasons == {"ERROR_SERVER", "ERROR_SERVER_RESULT_TIMEOUT", "ERROR_TRANSFER"}

\* Messages that end the session, or begin to: the chunk the phone is at, or
\* a failure.  That the transcript was not handed over in time is a reason
\* only if it was not.
TerminalsAt(k, h) ==
  {m \in {Chunk(k)} \cup {Fails(s) : s \in Reasons} :
     /\ m = Chunk(k) => h >= 0
     /\ m # Chunk(k) => k = 0
     /\ m = Fails("ERROR_TRANSFER") => h = -1}

Terminals == TerminalsAt(phone.chunks, handed)

\* What a session in each state has in its transport.
QueueFits ==
  /\ phone.state \in {"RECEIVING", "WAITING_TO_SEND", "CLOSED"} => queue = <<>>
  /\ phone.state = "AWAITING_RESULT" => queue \in {<<>>, <<SendStarted>>, <<Lost>>}
  /\ phone.state = "FORWARDING_TERMINAL" =>
       \E m \in Terminals : queue \in {<<m>>, <<SendStarted, m>>, <<Lost>>, <<Lost, m>>}
  /\ phone.state # "FORWARDING_TERMINAL" => phone.chunks = 0

\* Which timer is armed in which state.
TimersFit ==
  /\ Armed("ack") <=> watch.state = "TRANSFERRING"
  /\ Armed("send_start") <=> watch.state = "AWAITING_SEND_START"
  /\ Armed("request") <=> watch.state = "AWAITING_RESULT"
  /\ Armed("result_chunk") <=> watch.state = "RECEIVING_RESULT"
  /\ Armed("chunk") <=> phone.state = "RECEIVING"
  /\ Armed("handoff") <=> phone.state = "WAITING_TO_SEND"
  /\ Armed("server_result") <=> phone.state = "AWAITING_RESULT"
  /\ queue = <<>> => ~Armed("push") /\ ~Armed("done")
  /\ queue # <<>> => (Armed("push") <=> ~Armed("done"))

\* How far the watch is, given what the phone has sent.
StagesFit ==
  /\ handed = -1 => watch.state \in Early /\ phone.state # "AWAITING_RESULT"
  /\ handed >= 0 => phone.state \notin {"RECEIVING", "WAITING_TO_SEND"} /\ handed <= elapsed
  /\ phone.state = "AWAITING_RESULT" /\ queue = <<>> => watch.state = "AWAITING_RESULT"
  /\ phone.state = "CLOSED" => lost
  /\ queue # <<>> =>
       LET m == queue[1]
       IN  /\ m = Lost => lost /\ Armed("done")
           /\ m = SendStarted => handed >= 0
           /\ m = SendStarted /\ Armed("push") => watch.state \in Early
           /\ m = SendStarted /\ Armed("done") => watch.state = "AWAITING_RESULT"
           /\ m.type = "FAILURE" => Armed("push")
           /\ m.type = "FAILURE" /\ handed >= 0 => watch.state = "AWAITING_RESULT"
           /\ m.type = "SERVER_RESULT_CHUNK" /\ Armed("push") =>
                watch.state \in {"AWAITING_RESULT", "RECEIVING_RESULT"}
           /\ m.type = "SERVER_RESULT_CHUNK" /\ Armed("done") =>
                watch.state = "RECEIVING_RESULT" /\ phone.chunks > 0
  /\ watch.state = "RECEIVING_RESULT" =>
       \/ phone.state = "CLOSED"
       \/ /\ phone.state = "FORWARDING_TERMINAL"
          /\ queue = <<Chunk(phone.chunks)>> \/ queue = <<Lost>>

\* The latest time at which the watch gives up waiting for the first chunk.
Whole == Delay + SendStart + Request

\* The time of the whole run at which an armed timer is over.
Due(t) == elapsed + countdown[t]

\* The time the watch waits for chunks when k were not received.
Room(k) == (MaxChunks - k) * ResultChunk

\* How long each stage of the watch lasts at most.
WatchInTime ==
  /\ watch.state = "TRANSFERRING" => Due("ack") <= Delay
  /\ watch.state = "AWAITING_SEND_START" =>
       Due("send_start") <= Delay + SendStart /\ Due("send_start") >= SendStart
  /\ watch.state = "AWAITING_RESULT" =>
       Due("request") <= Whole /\ Due("request") >= handed + Request
  /\ watch.state = "RECEIVING_RESULT" => Due("result_chunk") <= Whole + Room(1)

ChunksInTime ==
  watch.state = "RECEIVING_RESULT" /\ queue = <<Chunk(phone.chunks)>> =>
    Due("result_chunk") <=
      Whole + Room(IF Armed("push") THEN phone.chunks + 1 ELSE phone.chunks)

\* How long each stage of the phone lasts at most.
PhoneInTime ==
  /\ phone.state = "AWAITING_RESULT" => Due("server_result") <= handed + ServerResult
  /\ queue # <<>> /\ queue[1] = SendStarted =>
       IF Armed("push") THEN Due("push") <= handed + Delay
                        ELSE Due("done") <= handed + 2 * Delay
  /\ queue # <<>> /\ Armed("push") /\ queue[1] # SendStarted /\ watch.state = "AWAITING_RESULT" =>
       Due("push") <= handed + ServerResult + Delay \/ Due("push") <= handed + 3 * Delay

InTime == WatchInTime /\ ChunksInTime /\ PhoneInTime

\* The inductive invariant, for any durations.
IInv == TypeOK /\ (Pending => QueueFits /\ TimersFit /\ StagesFit /\ InTime)

\* The durations leave room for the delays of the link.
Margins ==
  /\ ServerResult + Delay < Request /\ 3 * Delay < Request
  /\ 2 * Delay < ResultChunk

\* While chunks arrive, the next one is nearer than the watch's patience.
NextChunkInTime ==
  watch.state = "RECEIVING_RESULT" /\ ~lost =>
    /\ Armed("push") => Due("push") < Due("result_chunk")
    /\ Armed("done") => Due("done") + Delay < Due("result_chunk")

\* What Margins add to it.
JInv == NextChunkInTime /\ PhoneDecides

-----------------------------------------------------------------------------
(* Timers and short queues.                                                *)

LEMMA Messages ==
  /\ SendStarted.type = "SEND_STARTED" /\ Lost.type = "LOST"
  /\ \A n : Chunk(n).type = "SERVER_RESULT_CHUNK" /\ Chunk(n).left = n
  /\ \A s : Fails(s).type = "FAILURE" /\ Fails(s).status = s
BY DEF SendStarted, Lost, Chunk, Fails

LEMMA ShortQueue ==
  ASSUME NEW m, NEW n
  PROVE  Append(<<m>>, n) = <<m, n>> /\ <<m>> \o <<n>> = <<m, n>>
<1> DEFINE S == {m, n}
<1>1. ASSUME NEW s \in Seq(S), Len(s) = 2, s[1] = m, s[2] = n PROVE s = <<m, n>>
  <2>1. s = [i \in 1 .. 2 |-> s[i]] /\ <<m, n>> = [i \in 1 .. 2 |-> <<m, n>>[i]]
    BY <1>1
  <2>2. \A i \in 1 .. 2 : i = 1 \/ i = 2
    OBVIOUS
  <2>3. \A i \in 1 .. 2 : s[i] = <<m, n>>[i]
    BY <1>1, <2>2
  <2> QED
    BY <2>1, <2>3
<1>2. <<m>> \in Seq(S) /\ <<n>> \in Seq(S) /\ Len(<<m>>) = 1 /\ Len(<<n>>) = 1
  BY DEF S
<1>3. /\ Append(<<m>>, n) \in Seq(S) /\ Len(Append(<<m>>, n)) = 2
      /\ Append(<<m>>, n)[1] = m /\ Append(<<m>>, n)[2] = n
  BY <1>2
<1>4. /\ <<m>> \o <<n>> \in Seq(S) /\ Len(<<m>> \o <<n>>) = 2
      /\ (<<m>> \o <<n>>)[1] = m /\ (<<m>> \o <<n>>)[2] = n
  BY <1>2
<1> HIDE DEF S
<1> QED
  BY <1>1, <1>3, <1>4

LEMMA ShortQueues ==
  /\ \A m : Append(<<>>, m) = <<m>> /\ Head(<<m>>) = m /\ Tail(<<m>>) = <<>>
  /\ \A m : <<>> \o <<m>> = <<m>> /\ <<m>> \o <<>> = <<m>>
  /\ \A m : <<m>>[1] = m /\ <<m>> # <<>> /\ Len(<<m>>) = 1
  /\ \A m, n : Append(<<m>>, n) = <<m, n>> /\ <<m>> \o <<n>> = <<m, n>>
  /\ \A m, n : Head(<<m, n>>) = m /\ Tail(<<m, n>>) = <<n>>
  /\ \A m, n : <<m, n>>[1] = m /\ <<m, n>> # <<>> /\ Len(<<m, n>>) = 2
  /\ <<>> \o <<>> = <<>> /\ Len(<<>>) = 0
<1>1. ASSUME NEW m
      PROVE  /\ Append(<<>>, m) = <<m>> /\ Head(<<m>>) = m /\ Tail(<<m>>) = <<>>
             /\ <<>> \o <<m>> = <<m>> /\ <<m>> \o <<>> = <<m>>
             /\ <<m>>[1] = m /\ <<m>> # <<>> /\ Len(<<m>>) = 1
  OBVIOUS
<1>2. ASSUME NEW m, NEW n
      PROVE  /\ Append(<<m>>, n) = <<m, n>> /\ <<m>> \o <<n>> = <<m, n>>
             /\ Head(<<m, n>>) = m /\ Tail(<<m, n>>) = <<n>>
             /\ <<m, n>>[1] = m /\ <<m, n>> # <<>> /\ Len(<<m, n>>) = 2
  <2>1. Append(<<m>>, n) = <<m, n>> /\ <<m>> \o <<n>> = <<m, n>>
    BY ShortQueue, Zenon
  <2>2. Head(<<m, n>>) = m /\ Tail(<<m, n>>) = <<n>>
    OBVIOUS
  <2>3. <<m, n>>[1] = m /\ <<m, n>> # <<>> /\ Len(<<m, n>>) = 2
    OBVIOUS
  <2> QED
    BY <2>1, <2>2, <2>3
<1>3. <<>> \o <<>> = <<>> /\ Len(<<>>) = 0
  OBVIOUS
<1> QED
  BY <1>1, <1>2, <1>3, Zenon

LEMMA RoomFacts ==
  /\ \A k \in 1 .. MaxChunks : Room(k) \in Int /\ Room(k) <= Room(1)
  /\ \A k \in 1 .. MaxChunks - 1 : /\ Room(k + 1) + ResultChunk = Room(k)
                                   /\ ResultChunk <= Room(k)
<1>1. MaxChunks \in Nat /\ MaxChunks > 0 /\ ResultChunk \in Nat
  BY DurationAssumption
<1>2. \A a, b \in Int : (a - 1) * b + b = a * b
  BY Z3
<1>3. \A a, b \in Nat : a * b \in Nat
  BY Z3
<1>4. \A a, b, d \in Nat : (a + d) * b = a * b + d * b
  BY Z3
<1>5. ASSUME NEW k \in 1 .. MaxChunks PROVE Room(k) \in Int /\ Room(k) <= Room(1)
  <2>1. MaxChunks - k \in Nat /\ k - 1 \in Nat /\ MaxChunks - 1 = (MaxChunks - k) + (k - 1)
    BY <1>1
  <2>2. Room(1) = Room(k) + (k - 1) * ResultChunk
    BY <1>1, <1>4, <2>1 DEF Room
  <2>3. Room(k) \in Nat /\ (k - 1) * ResultChunk \in Nat
    BY <1>1, <1>3, <2>1 DEF Room
  <2> QED
    BY <2>2, <2>3
<1>6. ASSUME NEW k \in 1 .. MaxChunks - 1
      PROVE  Room(k + 1) + ResultChunk = Room(k) /\ ResultChunk <= Room(k)
  <2>1. MaxChunks - (k + 1) = (MaxChunks - k) - 1 /\ MaxChunks - k \in Int
        /\ MaxChunks - (k + 1) \in Nat
    BY <1>1
  <2>2. Room(k + 1) + ResultChunk = Room(k)
    BY <1>1, <1>2, <2>1 DEF Room
  <2>3. Room(k + 1) \in Nat
    BY <1>1, <1>3, <2>1 DEF Room
  <2> QED
    BY <1>1, <2>2, <2>3
<1> QED
  BY <1>5, <1>6

TimerNames == WatchTimers \cup PhoneTimers \cup Journeys

\* What is armed has a time, and a time of the run at which it is over.
LEMMA Times ==
  ASSUME TypeOK
  PROVE  /\ \A t \in DOMAIN countdown : countdown[t] \in Nat /\ Due(t) \in Nat /\ elapsed <= Due(t)
         /\ DOMAIN countdown \subseteq TimerNames
         /\ elapsed \in Nat /\ (handed = -1 \/ handed \in Nat)
BY DEF TypeOK, Due, TimerNames

Keeps == IInv' /\ (Margins /\ JInv => JInv')

-----------------------------------------------------------------------------
(* Time passes.                                                            *)

LEMMA TickKeeps ==
  ASSUME IInv, Tick
  PROVE  Keeps
<1>1. /\ Pending /\ TypeOK /\ QueueFits /\ TimersFit /\ StagesFit /\ InTime
      /\ elapsed' = elapsed + 1
      /\ UNCHANGED <<phone, queue, watch, handed, lost>>
  BY DEF IInv, Tick
<1>2. /\ DOMAIN countdown' = DOMAIN countdown
      /\ \A t \in DOMAIN countdown : countdown[t] > 0 /\ countdown'[t] = countdown[t] - 1
  BY DEF Tick
<1>3. \A t \in DOMAIN countdown : countdown'[t] \in Nat /\ Due(t)' = Due(t)
  BY <1>1, <1>2, Times DEF Due
<1>4. \A t : Armed(t)' <=> Armed(t)
  BY <1>2 DEF Armed
<1>5. TypeOK'
  BY <1>1, <1>2, <1>3 DEF TypeOK
<1>6. QueueFits' /\ TimersFit'
  BY <1>1, <1>4 DEF QueueFits, TimersFit, Terminals
<1>7. StagesFit'
  <2>1. handed >= 0 => handed <= elapsed'
    BY <1>1, Times DEF StagesFit
  <2> QED
    BY <1>1, <1>4, <2>1 DEF StagesFit
<1>8. InTime'
  <2>1. /\ watch.state = "TRANSFERRING" => Due("ack")' = Due("ack")
        /\ watch.state = "AWAITING_SEND_START" => Due("send_start")' = Due("send_start")
        /\ watch.state = "AWAITING_RESULT" => Due("request")' = Due("request")
        /\ watch.state = "RECEIVING_RESULT" => Due("result_chunk")' = Due("result_chunk")
        /\ phone.state = "AWAITING_RESULT" => Due("server_result")' = Due("server_result")
        /\ queue # <<>> => IF Armed("push") THEN Due("push")' = Due("push")
                                            ELSE Due("done")' = Due("done")
    BY <1>1, <1>3 DEF TimersFit, Armed
  <2> QED
    BY <1>1, <1>4, <2>1 DEF InTime, WatchInTime, ChunksInTime, PhoneInTime
<1>9. JInv => JInv'
  <2>1. PhoneDecides => PhoneDecides'
    BY <1>1 DEF PhoneDecides
  <2>2. NextChunkInTime => NextChunkInTime'
    BY <1>1, <1>3, <1>4 DEF NextChunkInTime, TimersFit, Armed
  <2> QED
    BY <2>1, <2>2 DEF JInv
<1> QED
  BY <1>1, <1>5, <1>6, <1>7, <1>8, <1>9 DEF Keeps, IInv

-----------------------------------------------------------------------------
(* The phone.                                                              *)

WatchWaits == WatchTimers \cup {"ack"}

\* A step of the phone leaves the watch and its watchdogs alone.
LEMMA PhoneKeeps ==
  ASSUME IInv, Pending, UNCHANGED <<watch, elapsed>>, TypeOK',
         QueueFits', TimersFit', StagesFit',
         \A t \in WatchWaits : Armed(t)' <=> Armed(t),
         \A t \in WatchWaits : Armed(t) => Due(t)' = Due(t),
         handed' = handed \/ watch.state \in Early,
         PhoneInTime', ChunksInTime',
         NextChunkInTime => NextChunkInTime',
         lost => lost'
  PROVE  Keeps
<1>1. TimersFit /\ InTime /\ WatchWaits = {"send_start", "request", "result_chunk", "ack"}
  BY DEF IInv, WatchWaits, WatchTimers
<1>2. Pending'
  BY DEF Pending
<1>3. InTime'
  <2>1. watch.state = "TRANSFERRING" => Due("ack")' <= Delay
    BY <1>1 DEF InTime, WatchInTime, TimersFit
  <2>2. watch.state = "AWAITING_SEND_START" =>
          Due("send_start")' <= Delay + SendStart /\ Due("send_start")' >= SendStart
    BY <1>1 DEF InTime, WatchInTime, TimersFit
  <2>3. watch.state = "AWAITING_RESULT" =>
          Due("request")' <= Whole /\ Due("request")' >= handed' + Request
    BY <1>1 DEF InTime, WatchInTime, TimersFit, Early
  <2>4. watch.state = "RECEIVING_RESULT" => Due("result_chunk")' <= Whole + Room(1)
    BY <1>1 DEF InTime, WatchInTime, TimersFit
  <2> QED
    BY <2>1, <2>2, <2>3, <2>4 DEF InTime, WatchInTime
<1>4. JInv => JInv'
  BY DEF JInv, PhoneDecides, Pending
<1> QED
  BY <1>2, <1>3, <1>4 DEF Keeps, IInv

PhoneRecords ==
  [state : {"RECEIVING", "WAITING_TO_SEND", "AWAITING_RESULT",
            "FORWARDING_TERMINAL", "CLOSED"}, chunks : 0 .. MaxChunks - 1]

WatchRecords ==
  [state : {"TRANSFERRING", "AWAITING_SEND_START", "AWAITING_RESULT",
            "RECEIVING_RESULT", "DISPLAYING_RESULT", "ERROR"},
   status : {"NORMAL", "ERROR_SERVER", "ERROR_TRANSFER",
             "ERROR_SERVER_RESULT_TIMEOUT", "ERROR_WS_REQUEST_TIMEOUT",
             "ERROR_TRANSCRIPT_DELIVERY_TIMEOUT", "ERROR_RESULT_TRANSFER_TIMEOUT"}]

\* A step from a countdown whose timers are those of the phase.
LEMMA BasicsKept ==
  ASSUME TypeOK, phone' \in PhoneRecords, Len(queue') <= 2,
         watch' \in WatchRecords,
         DOMAIN countdown' \subseteq TimerNames,
         \A t \in DOMAIN countdown' : countdown'[t] \in Nat,
         elapsed' = elapsed, handed' = handed \/ handed' = elapsed, lost' \in BOOLEAN
  PROVE  TypeOK'
BY DEF TypeOK, PhoneRecords, WatchRecords, TimerNames

LEMMA LastChunkKeeps ==
  ASSUME IInv, LastChunk
  PROVE  Keeps
<1>1. /\ Pending /\ TypeOK /\ QueueFits /\ TimersFit /\ StagesFit /\ InTime
      /\ Armed("chunk") /\ phone \in PhoneRecords /\ phone.state = "RECEIVING"
      /\ phone' = [phone EXCEPT !.state = "WAITING_TO_SEND"]
      /\ UNCHANGED <<queue, watch, elapsed, handed, lost>>
      /\ queue = <<>>
  BY DEF IInv, LastChunk, TimersFit, TypeOK, PhoneRecords, QueueFits
<1>2. /\ DOMAIN countdown' = (DOMAIN countdown \ {"chunk"}) \cup {"handoff"}
      /\ countdown'["handoff"] = Handoff
      /\ \A u \in DOMAIN countdown \ {"chunk"} : u # "handoff" => countdown'[u] = countdown[u]
  BY DEF LastChunk, Arm, Disarm
<1>3. /\ \A t : t # "chunk" /\ t # "handoff" =>
             (Armed(t)' <=> Armed(t)) /\ (Armed(t) => Due(t)' = Due(t))
      /\ ~Armed("chunk")' /\ Armed("handoff")'
  BY <1>1, <1>2 DEF Armed, Due
<1>4. /\ phone' \in PhoneRecords /\ phone'.state = "WAITING_TO_SEND" /\ phone'.chunks = phone.chunks
  BY <1>1 DEF PhoneRecords
<1>5. TypeOK'
  <2>1. /\ DOMAIN countdown' \subseteq TimerNames
        /\ \A t \in DOMAIN countdown' : countdown'[t] \in Nat
    BY <1>1, <1>2, Times, DurationAssumption DEF TimerNames, PhoneTimers
  <2> QED
    BY <1>1, <1>4, <2>1, BasicsKept DEF TypeOK, WatchRecords
<1>6. QueueFits'
  BY <1>1, <1>4 DEF QueueFits
<1>7. TimersFit'
  BY <1>1, <1>3, <1>4 DEF TimersFit
<1>8. StagesFit'
  BY <1>1, <1>3, <1>4 DEF StagesFit
<1>9. PhoneInTime' /\ ChunksInTime'
  BY <1>1, <1>3, <1>4 DEF StagesFit, PhoneInTime, ChunksInTime, Early
<1>10. NextChunkInTime => NextChunkInTime'
  BY <1>1, <1>3 DEF NextChunkInTime, TimersFit
<1> QED
  BY <1>1, <1>3, <1>5, <1>6, <1>7, <1>8, <1>9, <1>10, PhoneKeeps
     DEF WatchWaits, WatchTimers

LEMMA HandOverKeeps ==
  ASSUME IInv, HandOver
  PROVE  Keeps
<1>1. /\ Pending /\ TypeOK /\ QueueFits /\ TimersFit /\ StagesFit /\ InTime
      /\ phone \in PhoneRecords /\ phone.state = "WAITING_TO_SEND"
      /\ phone' = [phone EXCEPT !.state = "AWAITING_RESULT"]
      /\ handed' = elapsed
      /\ UNCHANGED <<watch, elapsed, lost>>
      /\ queue = <<>> /\ handed = -1 /\ watch.state \in Early
      /\ elapsed \in Nat
  BY Times DEF IInv, HandOver, TypeOK, PhoneRecords, QueueFits, StagesFit
<1> DEFINE c == Arm(Disarm(countdown, {"handoff"}), "server_result", ServerResult)
<1>2. /\ DOMAIN c = (DOMAIN countdown \ {"handoff"}) \cup {"server_result"}
      /\ c["server_result"] = ServerResult
      /\ \A u \in DOMAIN countdown \ {"handoff"} : u # "server_result" => c[u] = countdown[u]
  BY DEF Arm, Disarm
<1>3. /\ countdown' = Arm(c, "push", Delay)
      /\ queue' = <<SendStarted>>
  BY <1>1, ShortQueues DEF HandOver, Enqueue, SendStarted
<1>4. DOMAIN countdown' = DOMAIN c \cup {"push"} /\ countdown'["push"] = Delay
      /\ \A u \in DOMAIN c : u # "push" => countdown'[u] = c[u]
  BY <1>3 DEF Arm
<1> HIDE DEF c
<1>5. /\ \A t : t \notin {"handoff", "server_result", "push"} =>
             (Armed(t)' <=> Armed(t)) /\ (Armed(t) => Due(t)' = Due(t))
      /\ ~Armed("handoff")' /\ Armed("server_result")' /\ Armed("push")' /\ ~Armed("done")'
      /\ Due("server_result")' = elapsed + ServerResult /\ Due("push")' = elapsed + Delay
  BY <1>1, <1>2, <1>4 DEF Armed, Due, TimersFit
<1>6. /\ phone' \in PhoneRecords /\ phone'.state = "AWAITING_RESULT" /\ phone'.chunks = phone.chunks
      /\ queue' # <<>> /\ queue'[1] = SendStarted /\ Len(queue') = 1
  BY <1>1, <1>3, ShortQueues DEF PhoneRecords
<1>7. TypeOK'
  <2>1. /\ DOMAIN countdown' \subseteq TimerNames
        /\ \A t \in DOMAIN countdown' : countdown'[t] \in Nat
    BY <1>1, <1>2, <1>4, Times, DurationAssumption DEF TimerNames, PhoneTimers, Journeys
  <2> QED
    BY <1>1, <1>6, <2>1, BasicsKept DEF TypeOK, WatchRecords
<1>8. QueueFits'
  BY <1>1, <1>3, <1>6 DEF QueueFits
<1>9. TimersFit'
  BY <1>1, <1>5, <1>6 DEF TimersFit
<1>10. StagesFit'
  BY <1>1, <1>5, <1>6, Messages DEF StagesFit, Early
<1>11. PhoneInTime' /\ ChunksInTime'
  BY <1>1, <1>5, <1>6, DurationAssumption DEF PhoneInTime, ChunksInTime, Early
<1>12. NextChunkInTime => NextChunkInTime'
  BY <1>1 DEF NextChunkInTime, Early
<1> QED
  BY <1>1, <1>5, <1>7, <1>8, <1>9, <1>10, <1>11, <1>12, PhoneKeeps
     DEF WatchWaits, WatchTimers

LEMMA TerminalFacts ==
  ASSUME NEW k, NEW h, NEW m \in TerminalsAt(k, h)
  PROVE  /\ m.type \in {"SERVER_RESULT_CHUNK", "FAILURE"} /\ m # SendStarted /\ m # Lost
         /\ m.type = "SERVER_RESULT_CHUNK" => h >= 0 /\ m = Chunk(k) /\ m.left = k
         /\ m.type = "FAILURE" => /\ k = 0 /\ m.status \in Reasons
                                  /\ m.status = "ERROR_TRANSFER" => h = -1
<1>1. m = Chunk(k) \/ \E s \in Reasons : m = Fails(s)
  BY DEF TerminalsAt
<1>2. CASE m = Chunk(k)
  BY <1>2, Messages DEF TerminalsAt
<1>3. ASSUME NEW s \in Reasons, m = Fails(s)
      PROVE  /\ m.type = "FAILURE" /\ m # SendStarted /\ m # Lost /\ m.status = s
             /\ k = 0 /\ (m.status = "ERROR_TRANSFER" => h = -1)
  <2>1. m.type = "FAILURE" /\ m.status = s /\ m # Chunk(k)
    BY <1>3, Messages
  <2>2. m # SendStarted /\ m # Lost
    BY <2>1, Messages
  <2> QED
    BY <1>3, <2>1, <2>2 DEF TerminalsAt
<1> QED
  BY <1>1, <1>2, <1>3

\* The phone has something to end the session with.
LEMMA TerminalKeeps ==
  ASSUME IInv, Pending, phone.state \in {"WAITING_TO_SEND", "AWAITING_RESULT"},
         phone' \in PhoneRecords, phone'.state = "FORWARDING_TERMINAL",
         NEW m, m \in Terminals', Enqueue(m, Disarm(countdown, PhoneTimers)),
         UNCHANGED <<watch, elapsed, handed, lost>>
  PROVE  Keeps
<1>1. /\ TypeOK /\ QueueFits /\ TimersFit /\ StagesFit /\ InTime
      /\ elapsed \in Nat /\ (handed = -1 \/ handed \in Nat)
  BY Times DEF IInv
<1> DEFINE c == Disarm(countdown, PhoneTimers)
<1>2. /\ DOMAIN c = DOMAIN countdown \ PhoneTimers
      /\ \A u \in DOMAIN c : c[u] = countdown[u]
  BY DEF Disarm
<1>3. /\ queue' = Append(queue, m)
      /\ countdown' = IF queue = <<>> THEN Arm(c, "push", Delay) ELSE c
  BY DEF Enqueue
<1> HIDE DEF c
<1>4. queue \in {<<>>, <<SendStarted>>, <<Lost>>} /\ phone.chunks = 0
  BY <1>1 DEF QueueFits
<1>5. \/ queue = <<>> /\ queue' = <<m>>
      \/ queue = <<SendStarted>> /\ queue' = <<SendStarted, m>>
      \/ queue = <<Lost>> /\ queue' = <<Lost, m>>
  <2>1. CASE queue = <<>>
    BY <1>3, <2>1
  <2>2. Append(<<SendStarted>>, m) = <<SendStarted, m>> /\ Append(<<Lost>>, m) = <<Lost, m>>
    BY ShortQueues, Zenon
  <2> QED
    BY <1>3, <1>4, <2>1, <2>2
<1>6. /\ DOMAIN countdown' = DOMAIN c \cup (IF queue = <<>> THEN {"push"} ELSE {})
      /\ queue = <<>> => countdown'["push"] = Delay
      /\ \A u \in DOMAIN c : u # "push" \/ queue # <<>> => countdown'[u] = c[u]
  BY <1>3 DEF Arm
<1>7. /\ \A t : t \notin {"handoff", "server_result", "push"} =>
             (Armed(t)' <=> Armed(t)) /\ (Armed(t) => Due(t)' = Due(t))
      /\ ~Armed("handoff")' /\ ~Armed("server_result")'
      /\ Armed("push")' <=> queue = <<>> \/ Armed("push")
      /\ queue = <<>> => Due("push")' = elapsed + Delay
      /\ queue # <<>> /\ Armed("push") => Due("push")' = Due("push")
  BY <1>2, <1>6 DEF Armed, Due, PhoneTimers
<1>8. TypeOK'
  <2>1. /\ DOMAIN countdown' \subseteq TimerNames
        /\ \A t \in DOMAIN countdown' : countdown'[t] \in Nat
    BY <1>1, <1>2, <1>6, Times, DurationAssumption DEF TimerNames, Journeys
  <2>2. Len(queue') <= 2
    <3>1. Len(<<m>>) <= 2 /\ Len(<<SendStarted, m>>) <= 2 /\ Len(<<Lost, m>>) <= 2
      OBVIOUS
    <3> QED
      BY <1>5, <3>1
  <2> QED
    BY <1>1, <2>1, <2>2, BasicsKept DEF TypeOK, WatchRecords
<1>9. QueueFits'
  BY <1>1, <1>5 DEF QueueFits
<1>10. queue' # <<>> /\ queue'[1] = IF queue = <<>> THEN m ELSE queue[1]
  BY <1>5, ShortQueues
<1>11. TimersFit'
  <2>1. Armed("push")' <=> ~Armed("done")'
    BY <1>1, <1>7 DEF TimersFit
  <2> QED
    BY <1>1, <1>7, <1>10, <2>1 DEF TimersFit
<1>12. /\ m # SendStarted /\ m # Lost /\ m.type \in {"SERVER_RESULT_CHUNK", "FAILURE"}
       /\ m.type = "SERVER_RESULT_CHUNK" => handed >= 0
  BY TerminalFacts DEF Terminals
<1>13. watch.state # "RECEIVING_RESULT"
  BY <1>1 DEF StagesFit
<1>14. StagesFit'
  <2>1. CASE queue = <<>>
    <3>1. Armed("push")' /\ ~Armed("done")' /\ queue'[1] = m
      BY <1>1, <1>7, <1>10, <2>1 DEF TimersFit
    <3>2. handed >= 0 => watch.state = "AWAITING_RESULT"
      BY <1>1, <2>1 DEF StagesFit
    <3> QED
      BY <1>1, <1>10, <1>12, <1>13, <3>1, <3>2 DEF StagesFit
  <2>2. CASE queue # <<>>
    <3>1. queue'[1] = queue[1] /\ queue[1] \in {SendStarted, Lost}
      BY <1>4, <1>10, <2>2, ShortQueues
    <3>2. queue[1].type \in {"SEND_STARTED", "LOST"}
      BY <3>1, Messages
    <3> QED
      BY <1>1, <1>7, <1>10, <1>13, <2>2, <3>1, <3>2 DEF StagesFit
  <2> QED
    BY <2>1, <2>2
<1>15. PhoneInTime' /\ ChunksInTime'
  <2>1. CASE queue = <<>>
    <3>1. phone.state = "AWAITING_RESULT" => elapsed <= handed + ServerResult
      <4>1. phone.state = "AWAITING_RESULT" =>
              /\ Due("server_result") \in Nat /\ elapsed <= Due("server_result")
              /\ Due("server_result") <= handed + ServerResult
        BY <1>1, Times DEF TimersFit, Armed, InTime, PhoneInTime
      <4> QED
        BY <1>1, <4>1, DurationAssumption
    <3>2. phone.state = "AWAITING_RESULT" => elapsed + Delay <= handed + ServerResult + Delay
      BY <1>1, <3>1, DurationAssumption
    <3>3. phone.state = "WAITING_TO_SEND" => watch.state # "AWAITING_RESULT"
      BY <1>1 DEF StagesFit, Early
    <3> QED
      BY <1>7, <1>10, <1>12, <1>13, <2>1, <3>2, <3>3 DEF PhoneInTime, ChunksInTime
  <2>2. CASE queue # <<>>
    BY <1>1, <1>7, <1>10, <1>13, <2>2 DEF InTime, PhoneInTime, ChunksInTime, TimersFit
  <2> QED
    BY <2>1, <2>2
<1>16. NextChunkInTime => NextChunkInTime'
  BY <1>13 DEF NextChunkInTime
<1> QED
  BY <1>7, <1>8, <1>9, <1>11, <1>14, <1>15, <1>16, PhoneKeeps
     DEF WatchWaits, WatchTimers

LEMMA FailKeeps ==
  ASSUME IInv, SocketFails \/ HandoffTimeout \/ ResultTimeout
  PROVE  Keeps
<1>1. /\ Pending /\ TypeOK /\ TimersFit /\ StagesFit /\ QueueFits /\ phone \in PhoneRecords
      /\ handed = -1 \/ handed \in Nat
  BY Times DEF IInv, TypeOK, PhoneRecords, SocketFails, HandoffTimeout, ResultTimeout
<1>2. PICK s \in Reasons :
        /\ PhoneFails(s)
        /\ phone.state \in {"WAITING_TO_SEND", "AWAITING_RESULT"}
        /\ s = "ERROR_TRANSFER" => phone.state = "WAITING_TO_SEND"
  <2>1. CASE SocketFails
    BY <2>1 DEF SocketFails, Reasons
  <2>2. CASE HandoffTimeout
    BY <1>1, <2>2 DEF HandoffTimeout, Reasons, TimersFit
  <2>3. CASE ResultTimeout
    BY <1>1, <2>3 DEF ResultTimeout, Reasons, TimersFit
  <2> QED
    BY <2>1, <2>2, <2>3
<1>3. /\ phone' = [phone EXCEPT !.state = "FORWARDING_TERMINAL"]
      /\ Enqueue(Fails(s), Disarm(countdown, PhoneTimers))
      /\ UNCHANGED <<watch, elapsed, handed, lost>>
  BY <1>2 DEF PhoneFails, Fails
<1>4. phone' \in PhoneRecords /\ phone'.state = "FORWARDING_TERMINAL" /\ phone'.chunks = 0
  <2>1. phone.chunks = 0
    BY <1>1, <1>2 DEF QueueFits
  <2> QED
    BY <1>1, <1>3, <2>1 DEF PhoneRecords
<1>5. Fails(s) \in Terminals'
  <2>1. Fails(s) # Chunk(phone'.chunks) /\ (Fails(s) = Fails("ERROR_TRANSFER") => s = "ERROR_TRANSFER")
    BY Messages
  <2>2. s = "ERROR_TRANSFER" => handed' = -1
    BY <1>1, <1>2, <1>3 DEF StagesFit
  <2> QED
    BY <1>4, <2>1, <2>2 DEF Terminals, TerminalsAt
<1> QED
  BY <1>1, <1>2, <1>3, <1>4, <1>5, TerminalKeeps

LEMMA ResultKeeps ==
  ASSUME IInv, Result
  PROVE  Keeps
<1>1. /\ Pending /\ StagesFit /\ phone.state = "AWAITING_RESULT"
      /\ handed = -1 \/ handed \in Nat
  BY Times DEF IInv, Result
<1>2. PICK n \in 1 .. MaxChunks :
        /\ phone' = [state |-> "FORWARDING_TERMINAL", chunks |-> n - 1]
        /\ Enqueue(Chunk(n - 1), Disarm(countdown, PhoneTimers))
        /\ UNCHANGED <<watch, elapsed, handed, lost>>
  BY DEF Result, Chunk
<1>3. phone' \in PhoneRecords /\ phone'.state = "FORWARDING_TERMINAL" /\ phone'.chunks = n - 1
  BY <1>2, DurationAssumption DEF PhoneRecords
<1>4. Chunk(n - 1) \in Terminals'
  <2>1. Chunk(n - 1) # Fails("ERROR_TRANSFER")
    BY Messages
  <2>2. handed' >= 0
    BY <1>1, <1>2 DEF StagesFit
  <2> QED
    BY <1>3, <2>1, <2>2 DEF Terminals, TerminalsAt
<1> QED
  BY <1>1, <1>2, <1>3, <1>4, TerminalKeeps

\* What can be at the head of the queue.
LEMMA Heads ==
  ASSUME IInv, Pending, queue # <<>>
  PROVE  /\ Head(queue) = queue[1]
         /\ \/ phone.state = "AWAITING_RESULT" /\ queue \in {<<SendStarted>>, <<Lost>>}
            \/ /\ phone.state = "FORWARDING_TERMINAL"
               /\ \E t \in Terminals : queue \in {<<t>>, <<SendStarted, t>>, <<Lost>>, <<Lost, t>>}
<1>1. QueueFits /\ phone \in PhoneRecords
  BY DEF IInv, TypeOK, PhoneRecords
<1>2. \/ phone.state = "AWAITING_RESULT" /\ queue \in {<<SendStarted>>, <<Lost>>}
      \/ /\ phone.state = "FORWARDING_TERMINAL"
         /\ \E t \in Terminals : queue \in {<<t>>, <<SendStarted, t>>, <<Lost>>, <<Lost, t>>}
  BY <1>1 DEF QueueFits, PhoneRecords
<1>3. Head(queue) = queue[1]
  <2>1. \A m : Head(<<m>>) = <<m>>[1]
    BY ShortQueues, Zenon
  <2>2. \A m, n : Head(<<m, n>>) = <<m, n>>[1]
    OBVIOUS
  <2> QED
    BY <1>2, <2>1, <2>2
<1> QED
  BY <1>2, <1>3

LEMMA PushDoneKeeps ==
  ASSUME IInv, PushDone
  PROVE  Keeps
<1>1. /\ Pending /\ TypeOK /\ QueueFits /\ TimersFit /\ StagesFit /\ InTime
      /\ phone \in PhoneRecords /\ elapsed \in Nat /\ (handed = -1 \/ handed \in Nat)
      /\ Armed("done") /\ ~Armed("push") /\ queue # <<>>
      /\ UNCHANGED <<watch, elapsed, handed, lost>>
  BY Times DEF IInv, PushDone, TypeOK, PhoneRecords, TimersFit
<1> DEFINE m == queue[1]
           more == m.type = "SERVER_RESULT_CHUNK" /\ phone.chunks > 0
           c == Disarm(countdown, {"done"})
<1>2. Head(queue) = m /\ m.type # "LOST" /\ m # Lost
  BY <1>1, Heads, Messages DEF PushDone
<1>3. /\ queue' = Tail(queue) \o (IF more THEN <<Chunk(phone.chunks - 1)>> ELSE <<>>)
      /\ phone' = CASE m.type = "SEND_STARTED" -> phone
                    [] m.type # "SEND_STARTED" /\ more -> [phone EXCEPT !.chunks = @ - 1]
                    [] OTHER -> [state |-> "CLOSED", chunks |-> 0]
      /\ countdown' = IF queue' = <<>> THEN c ELSE Arm(c, "push", Delay)
  BY <1>2 DEF PushDone, Chunk
<1>4. /\ DOMAIN c = DOMAIN countdown \ {"done"}
      /\ \A u \in DOMAIN c : c[u] = countdown[u]
  BY DEF Disarm
<1> HIDE DEF c
<1>5. \/ /\ phone.state = "AWAITING_RESULT" /\ phone' = phone
         /\ queue' = <<>> /\ m = SendStarted
      \/ /\ phone.state = "FORWARDING_TERMINAL" /\ phone' = phone /\ m = SendStarted
         /\ \E t \in Terminals : queue' = <<t>>
      \/ /\ phone.state = "FORWARDING_TERMINAL" /\ phone' = [phone EXCEPT !.chunks = @ - 1]
         /\ phone.chunks > 0 /\ queue = <<Chunk(phone.chunks)>>
         /\ queue' = <<Chunk(phone.chunks - 1)>>
         /\ watch.state = "RECEIVING_RESULT"
  <2>1. CASE phone.state = "AWAITING_RESULT"
    <3>1. queue = <<SendStarted>> /\ m = SendStarted /\ m.type = "SEND_STARTED" /\ Tail(queue) = <<>>
      <4>1. queue = <<SendStarted>> \/ queue = <<Lost>>
        BY <1>1, <2>1, Heads
      <4>2. <<SendStarted>>[1] = SendStarted /\ <<Lost>>[1] = Lost /\ Tail(<<SendStarted>>) = <<>>
        OBVIOUS
      <4> QED
        BY <1>2, <4>1, <4>2, Messages
    <3>2. queue' = <<>> \o <<>> /\ phone' = phone
      BY <1>3, <3>1
    <3> QED
      BY <2>1, <3>1, <3>2, ShortQueues
  <2>2. CASE phone.state = "FORWARDING_TERMINAL"
    <3>1. PICK t \in Terminals : queue \in {<<t>>, <<SendStarted, t>>, <<Lost>>, <<Lost, t>>}
      BY <1>1, <2>2, Heads
    <3>2. /\ <<t>>[1] = t /\ <<SendStarted, t>>[1] = SendStarted /\ <<Lost>>[1] = Lost
          /\ <<Lost, t>>[1] = Lost /\ Tail(<<t>>) = <<>>
      OBVIOUS
    <3>3. Tail(<<SendStarted, t>>) = <<t>> /\ <<t>> \o <<>> = <<t>>
      BY ShortQueues, Zenon
    <3>4. queue = <<t>> \/ queue = <<SendStarted, t>>
      BY <1>2, <3>1, <3>2
    <3>5. CASE queue = <<SendStarted, t>>
      <4>1. m = SendStarted /\ m.type = "SEND_STARTED"
        BY <3>2, <3>5, Messages
      <4>2. queue' = <<t>> \o <<>> /\ phone' = phone
        BY <1>3, <3>3, <3>5, <4>1
      <4> QED
        BY <2>2, <3>3, <4>1, <4>2
    <3>6. CASE queue = <<t>>
      <4>1. m = t
        BY <3>2, <3>6
      <4>2. m.type = "SERVER_RESULT_CHUNK" /\ m = Chunk(phone.chunks)
        BY <1>1, <4>1, TerminalFacts DEF StagesFit, Terminals
      <4>3. watch.state = "RECEIVING_RESULT" /\ phone.chunks > 0
        BY <1>1, <4>2 DEF StagesFit
      <4>4. /\ queue' = <<>> \o <<Chunk(phone.chunks - 1)>>
            /\ phone' = [phone EXCEPT !.chunks = @ - 1]
        BY <1>3, <3>2, <3>6, <4>2, <4>3
      <4>5. queue' = <<Chunk(phone.chunks - 1)>>
        BY <4>4, ShortQueues
      <4> QED
        BY <2>2, <3>6, <4>1, <4>2, <4>3, <4>4, <4>5
    <3> QED
      BY <3>4, <3>5, <3>6
  <2> QED
    BY <1>1, <2>1, <2>2, Heads
<1> HIDE DEF m, more
<1>6. /\ phone' \in PhoneRecords /\ phone'.state = phone.state
      /\ phone'.chunks = phone.chunks \/ phone'.chunks = phone.chunks - 1
  <2>1. CASE phone' = phone
    BY <1>1, <2>1
  <2>2. CASE phone' = [phone EXCEPT !.chunks = @ - 1] /\ phone.chunks > 0
    <3>1. phone.chunks - 1 \in 0 .. MaxChunks - 1
      BY <1>1, <2>2, DurationAssumption DEF PhoneRecords
    <3> QED
      BY <1>1, <2>2, <3>1 DEF PhoneRecords
  <2> QED
    BY <1>5, <2>1, <2>2
<1>7. Len(queue') <= 2 /\ (queue' # <<>> => queue' = <<queue'[1]>>)
  <2>1. CASE queue' = <<>>
    BY <2>1
  <2>2. ASSUME NEW t, queue' = <<t>> PROVE Len(queue') <= 2 /\ queue' = <<queue'[1]>>
    BY <2>2
  <2> QED
    BY <1>5, <2>1, <2>2
<1>8. /\ DOMAIN countdown' = DOMAIN c \cup (IF queue' = <<>> THEN {} ELSE {"push"})
      /\ queue' # <<>> => countdown'["push"] = Delay
      /\ \A u \in DOMAIN c : u # "push" => countdown'[u] = c[u]
  BY <1>3 DEF Arm
<1>9. /\ \A t : t \notin {"push", "done"} =>
             (Armed(t)' <=> Armed(t)) /\ (Armed(t) => Due(t)' = Due(t))
      /\ ~Armed("done")' /\ (Armed("push")' <=> queue' # <<>>)
      /\ Armed("push")' => Due("push")' = elapsed + Delay
  BY <1>1, <1>4, <1>8 DEF Armed, Due
<1>10. TypeOK'
  <2>1. /\ DOMAIN countdown' \subseteq TimerNames
        /\ \A t \in DOMAIN countdown' : countdown'[t] \in Nat
    <3>1. \A t \in DOMAIN countdown' : \/ t = "push" /\ countdown'[t] = Delay
                                       \/ t \in DOMAIN countdown /\ countdown'[t] = countdown[t]
      BY <1>1, <1>4, <1>8 DEF Armed
    <3> QED
      BY <1>1, <3>1, Times, DurationAssumption DEF TimerNames, Journeys
  <2> QED
    BY <1>1, <1>6, <1>7, <2>1, BasicsKept DEF TypeOK, WatchRecords
<1>11. TimersFit'
  BY <1>1, <1>6, <1>9 DEF TimersFit
<1>12. handed \in Nat /\ watch.state \notin Early
  <2>1. m = SendStarted => watch.state = "AWAITING_RESULT"
    BY <1>1 DEF StagesFit, m
  <2> QED
    BY <1>1, <1>5, <2>1 DEF StagesFit, Early
<1>13. /\ elapsed <= Due("done")
       /\ m = SendStarted => Due("done") <= handed + 2 * Delay
  <2>1. elapsed <= Due("done")
    BY <1>1, Times DEF Armed
  <2> QED
    BY <1>1, <2>1 DEF InTime, PhoneInTime, m
<1>14. CASE phone.state = "AWAITING_RESULT"
  <2>1. queue' = <<>> /\ phone' = phone /\ m = SendStarted
    BY <1>5, <1>14
  <2>2. watch.state = "AWAITING_RESULT"
    BY <1>1, <2>1 DEF StagesFit, m
  <2>3. QueueFits'
    BY <1>1, <1>14, <2>1 DEF QueueFits
  <2>4. StagesFit'
    BY <1>1, <1>12, <2>1, <2>2 DEF StagesFit
  <2>5. PhoneInTime' /\ ChunksInTime'
    BY <1>1, <1>9, <1>14, <2>1, <2>2 DEF InTime, PhoneInTime, ChunksInTime, TimersFit
  <2>6. NextChunkInTime => NextChunkInTime'
    BY <1>1, <2>2 DEF NextChunkInTime
  <2> QED
    BY <1>1, <1>9, <1>10, <1>11, <2>3, <2>4, <2>5, <2>6, PhoneKeeps DEF WatchWaits, WatchTimers
<1>15. CASE phone' = phone /\ m = SendStarted /\ \E t \in Terminals : queue' = <<t>>
  <2>1. PICK t \in Terminals : queue' = <<t>>
    BY <1>15
  <2>2. /\ queue' # <<>> /\ queue'[1] = t /\ t # SendStarted /\ t # Lost
        /\ t.type \in {"SERVER_RESULT_CHUNK", "FAILURE"}
    BY <2>1, TerminalFacts, ShortQueues DEF Terminals
  <2>3. watch.state = "AWAITING_RESULT" /\ phone.state = "FORWARDING_TERMINAL"
    BY <1>1, <1>5, <1>15, <2>1, <2>2 DEF StagesFit, m
  <2>4. Terminals' = Terminals
    BY <1>1, <1>15 DEF Terminals
  <2>5. QueueFits'
    BY <1>1, <1>15, <2>1, <2>3, <2>4 DEF QueueFits
  <2>6. StagesFit'
    BY <1>1, <1>9, <1>12, <1>15, <2>2, <2>3 DEF StagesFit, Early
  <2>7. elapsed + Delay <= handed + 3 * Delay
    BY SMTT(30), <1>1, <1>12, <1>13, <1>15, Times, DurationAssumption DEF Armed
  <2>8. PhoneInTime' /\ ChunksInTime'
    BY <1>1, <1>9, <1>15, <2>2, <2>3, <2>7 DEF PhoneInTime, ChunksInTime
  <2>9. NextChunkInTime => NextChunkInTime'
    BY <1>1, <2>3 DEF NextChunkInTime
  <2> QED
    BY <1>1, <1>9, <1>10, <1>11, <2>5, <2>6, <2>8, <2>9, PhoneKeeps DEF WatchWaits, WatchTimers
<1>16. CASE /\ phone.state = "FORWARDING_TERMINAL" /\ phone' = [phone EXCEPT !.chunks = @ - 1]
            /\ phone.chunks > 0 /\ queue = <<Chunk(phone.chunks)>>
            /\ queue' = <<Chunk(phone.chunks - 1)>>
            /\ watch.state = "RECEIVING_RESULT"
  <2>1. phone'.state = "FORWARDING_TERMINAL" /\ phone'.chunks = phone.chunks - 1
        /\ phone.chunks \in 1 .. MaxChunks - 1
    BY <1>1, <1>16, DurationAssumption DEF PhoneRecords
  <2>2. queue' = <<Chunk(phone'.chunks)>> /\ queue' # <<>> /\ queue'[1] = Chunk(phone'.chunks)
    BY <1>16, <2>1, ShortQueues
  <2>3. Chunk(phone'.chunks) \in Terminals'
    <3>1. Chunk(phone'.chunks) # Fails("ERROR_TRANSFER")
      BY Messages
    <3> QED
      BY <1>1, <1>12, <3>1 DEF Terminals, TerminalsAt
  <2>4. QueueFits'
    BY <2>1, <2>2, <2>3 DEF QueueFits
  <2>5. /\ queue'[1].type = "SERVER_RESULT_CHUNK" /\ queue'[1] # Lost /\ queue'[1] # SendStarted
    BY <2>2, Messages
  <2>6. StagesFit'
    BY <1>1, <1>9, <1>12, <1>16, <2>1, <2>2, <2>5 DEF StagesFit, Early
  <2>7. Due("result_chunk")' <= Whole + Room(phone'.chunks + 1)
    <3>1. Due("result_chunk") <= Whole + Room(phone.chunks)
      BY <1>1, <1>16 DEF InTime, ChunksInTime
    <3>2. Due("result_chunk")' = Due("result_chunk")
      BY <1>1, <1>9, <1>16 DEF TimersFit
    <3>3. phone'.chunks + 1 = phone.chunks
      BY <2>1, DurationAssumption
    <3> QED
      BY <3>1, <3>2, <3>3
  <2>8. PhoneInTime' /\ ChunksInTime'
    BY <1>9, <1>16, <2>1, <2>2, <2>5, <2>7, <1>1 DEF PhoneInTime, ChunksInTime
  <2>9. NextChunkInTime => NextChunkInTime'
    <3>1. Due("result_chunk")' = Due("result_chunk") /\ Due("result_chunk") \in Nat /\ Due("done") \in Nat
      BY <1>1, <1>9, <1>16, Times DEF TimersFit, Armed
    <3> QED
      BY <1>1, <1>9, <1>13, <1>16, <3>1, DurationAssumption DEF NextChunkInTime
  <2> QED
    BY <1>1, <1>9, <1>10, <1>11, <2>4, <2>6, <2>8, <2>9, PhoneKeeps DEF WatchWaits, WatchTimers
<1> QED
  BY <1>5, <1>14, <1>15, <1>16

LEMMA PushLostKeeps ==
  ASSUME IInv, PushLost
  PROVE  Keeps
<1>1. /\ Pending /\ TypeOK /\ QueueFits /\ TimersFit /\ StagesFit /\ InTime
      /\ phone \in PhoneRecords /\ elapsed \in Nat /\ (handed = -1 \/ handed \in Nat)
      /\ Armed("push") /\ ~Armed("done") /\ queue # <<>>
      /\ lost' = TRUE /\ queue' = <<Lost>> \o Tail(queue)
      /\ UNCHANGED <<phone, watch, elapsed, handed>>
  BY Times DEF IInv, PushLost, TypeOK, PhoneRecords, TimersFit, Lost
<1>2. /\ DOMAIN countdown' = (DOMAIN countdown \ {"push"}) \cup {"done"}
      /\ countdown'["done"] = Delay
      /\ \A u \in DOMAIN countdown \ {"push"} : u # "done" => countdown'[u] = countdown[u]
  BY DEF PushLost, Arm, Disarm
<1>3. /\ \A t : t \notin {"push", "done"} =>
             (Armed(t)' <=> Armed(t)) /\ (Armed(t) => Due(t)' = Due(t))
      /\ ~Armed("push")' /\ Armed("done")'
  BY <1>1, <1>2 DEF Armed, Due
<1>4. \/ phone.state = "AWAITING_RESULT" /\ queue' = <<Lost>>
      \/ /\ phone.state = "FORWARDING_TERMINAL"
         /\ \E t \in Terminals : queue \in {<<t>>, <<SendStarted, t>>} /\ queue' \in {<<Lost>>, <<Lost, t>>}
  <2>1. queue[1] # Lost
    BY <1>1 DEF StagesFit
  <2>2. CASE phone.state = "AWAITING_RESULT"
    <3>1. <<Lost>>[1] = Lost /\ Tail(<<SendStarted>>) = <<>>
      OBVIOUS
    <3>2. queue = <<SendStarted>>
      BY <1>1, <2>1, <2>2, <3>1, Heads
    <3> QED
      BY <1>1, <2>2, <3>1, <3>2, ShortQueues
  <2>3. CASE phone.state = "FORWARDING_TERMINAL"
    <3>1. PICK t \in Terminals : queue \in {<<t>>, <<SendStarted, t>>, <<Lost>>, <<Lost, t>>}
      BY <1>1, <2>3, Heads
    <3>2. /\ <<Lost>>[1] = Lost /\ <<Lost, t>>[1] = Lost /\ Tail(<<t>>) = <<>>
      OBVIOUS
    <3>3. Tail(<<SendStarted, t>>) = <<t>> /\ <<Lost>> \o <<t>> = <<Lost, t>> /\ <<Lost>> \o <<>> = <<Lost>>
      BY ShortQueues, Zenon
    <3> QED
      BY <1>1, <2>1, <2>3, <3>1, <3>2, <3>3
  <2> QED
    BY <1>1, <2>2, <2>3, Heads
<1>5. Len(queue') <= 2 /\ queue' # <<>> /\ queue'[1] = Lost
  <2>1. ASSUME NEW t, queue' \in {<<Lost>>, <<Lost, t>>}
        PROVE  Len(queue') <= 2 /\ queue' # <<>> /\ queue'[1] = Lost
    <3>1. CASE queue' = <<Lost>>
      BY <3>1
    <3>2. CASE queue' = <<Lost, t>>
      BY <3>2
    <3> QED
      BY <2>1, <3>1, <3>2
  <2> QED
    BY <1>4, <2>1
<1>6. TypeOK'
  <2>1. /\ DOMAIN countdown' \subseteq TimerNames
        /\ \A t \in DOMAIN countdown' : countdown'[t] \in Nat
    BY <1>1, <1>2, Times, DurationAssumption DEF TimerNames, Journeys
  <2> QED
    BY <1>1, <1>5, <2>1, BasicsKept DEF TypeOK, WatchRecords
<1>7. TimersFit'
  BY <1>1, <1>3, <1>5 DEF TimersFit
<1>8. QueueFits'
  <2>1. Terminals' = Terminals
    BY <1>1 DEF Terminals
  <2> QED
    BY <1>1, <1>4, <2>1 DEF QueueFits
<1>9. StagesFit'
  <2>1. watch.state = "RECEIVING_RESULT" => phone.state = "FORWARDING_TERMINAL" /\ queue' = <<Lost>>
    <3> SUFFICES ASSUME watch.state = "RECEIVING_RESULT"
                 PROVE  phone.state = "FORWARDING_TERMINAL" /\ queue' = <<Lost>>
      OBVIOUS
    <3>1. phone.state = "FORWARDING_TERMINAL" /\ queue \in {<<Chunk(phone.chunks)>>, <<Lost>>}
      BY <1>1, <1>4 DEF StagesFit
    <3>2. Tail(<<Chunk(phone.chunks)>>) = <<>> /\ Tail(<<Lost>>) = <<>> /\ <<Lost>> \o <<>> = <<Lost>>
      OBVIOUS
    <3>3. Tail(queue) = <<>>
      BY <3>1, <3>2
    <3> QED
      BY <1>1, <3>1, <3>2, <3>3
  <2>2. Lost # SendStarted /\ Lost.type = "LOST"
    BY Messages
  <2> QED
    BY <1>1, <1>3, <1>5, <2>1, <2>2 DEF StagesFit
<1>10. PhoneInTime' /\ ChunksInTime'
  <2>1. Lost # SendStarted /\ \A n : <<Lost>> # <<Chunk(n)>>
    <3>1. \A n : <<Lost>>[1] = Lost /\ <<Chunk(n)>>[1] = Chunk(n) /\ Chunk(n).type # Lost.type
      BY Messages
    <3> QED
      BY <3>1, Messages
  <2>2. \A n : queue' # <<Chunk(n)>>
    <3>1. \A n : <<Chunk(n)>>[1] = Chunk(n) /\ Chunk(n).type # Lost.type
      BY Messages
    <3> QED
      BY <1>5, <3>1
  <2> QED
    BY <1>1, <1>3, <1>5, <2>1, <2>2 DEF InTime, PhoneInTime, ChunksInTime, TimersFit
<1>11. NextChunkInTime => NextChunkInTime'
  BY <1>1 DEF NextChunkInTime
<1> QED
  BY <1>1, <1>3, <1>6, <1>7, <1>8, <1>9, <1>10, <1>11, PhoneKeeps DEF WatchWaits, WatchTimers

LEMMA PushFailsKeeps ==
  ASSUME IInv, PushFails
  PROVE  Keeps
<1>1. /\ Pending /\ TypeOK /\ TimersFit /\ StagesFit /\ InTime
      /\ phone \in PhoneRecords /\ elapsed \in Nat /\ (handed = -1 \/ handed \in Nat)
      /\ Armed("done") /\ queue # <<>> /\ Head(queue).type = "LOST"
      /\ phone' = [state |-> "CLOSED", chunks |-> 0] /\ queue' = <<>>
      /\ UNCHANGED <<watch, elapsed, handed, lost>>
  BY Times DEF IInv, PushFails, TypeOK, PhoneRecords, TimersFit
<1>2. lost /\ (handed = -1 => watch.state \in Early)
  <2>1. queue[1] = Lost
    <3>1. Head(queue) = queue[1]
      BY <1>1, Heads
    <3>2. \/ queue = <<SendStarted>> \/ queue = <<Lost>>
          \/ \E t \in Terminals : queue \in {<<t>>, <<SendStarted, t>>, <<Lost>>, <<Lost, t>>}
      BY <1>1, Heads
    <3>3. \A t : /\ <<t>>[1] = t /\ <<SendStarted, t>>[1] = SendStarted /\ <<Lost, t>>[1] = Lost
      OBVIOUS
    <3>4. \A t \in Terminals : t.type # "LOST"
      BY TerminalFacts DEF Terminals
    <3> QED
      BY <1>1, <3>1, <3>2, <3>3, <3>4, Messages
  <2>2. lost
    BY <1>1, <2>1 DEF StagesFit
  <2>3. handed = -1 => watch.state \in Early
    BY <1>1 DEF StagesFit
  <2> QED
    BY <2>2, <2>3
<1>3. /\ DOMAIN countdown' = DOMAIN countdown \ (PhoneTimers \cup {"done"})
      /\ \A u \in DOMAIN countdown' : countdown'[u] = countdown[u]
  BY DEF PushFails, Disarm
<1>4. /\ \A t : t \notin {"done", "handoff", "server_result"} =>
             (Armed(t)' <=> Armed(t)) /\ (Armed(t) => Due(t)' = Due(t))
      /\ ~Armed("done")' /\ ~Armed("handoff")' /\ ~Armed("server_result")'
  BY <1>1, <1>3 DEF Armed, Due, PhoneTimers
<1>5. phone' \in PhoneRecords /\ phone'.state = "CLOSED" /\ phone'.chunks = 0
  BY <1>1, DurationAssumption DEF PhoneRecords
<1>6. TypeOK'
  <2>1. /\ DOMAIN countdown' \subseteq TimerNames
        /\ \A t \in DOMAIN countdown' : countdown'[t] \in Nat
    BY <1>1, <1>3, Times
  <2>2. Len(queue') <= 2
    BY <1>1
  <2> QED
    BY <1>1, <1>5, <2>1, <2>2, BasicsKept DEF TypeOK, WatchRecords
<1>7. ~Armed("chunk") /\ ~Armed("push")
  <2>1. phone.state # "RECEIVING"
    BY <1>1, Heads
  <2> QED
    BY <1>1, <2>1 DEF TimersFit
<1>8. TimersFit'
  BY <1>1, <1>4, <1>5, <1>7 DEF TimersFit
<1>9. QueueFits'
  BY <1>1, <1>5 DEF QueueFits
<1>10. StagesFit'
  BY <1>1, <1>2, <1>5 DEF StagesFit
<1>11. PhoneInTime' /\ ChunksInTime'
  <2>1. \A n : <<Chunk(n)>> # <<>>
    OBVIOUS
  <2> QED
    BY <1>1, <1>5, <2>1 DEF PhoneInTime, ChunksInTime
<1>12. NextChunkInTime => NextChunkInTime'
  BY <1>1, <1>2 DEF NextChunkInTime
<1> QED
  BY <1>1, <1>4, <1>6, <1>8, <1>9, <1>10, <1>11, <1>12, PhoneKeeps DEF WatchWaits, WatchTimers

-----------------------------------------------------------------------------
(* The watch.                                                              *)

LEMMA AckKeeps ==
  ASSUME IInv, AckArrives
  PROVE  Keeps
<1>1. /\ Pending /\ TypeOK /\ QueueFits /\ TimersFit /\ StagesFit /\ InTime
      /\ elapsed \in Nat /\ (handed = -1 \/ handed \in Nat)
      /\ Armed("ack") /\ watch.state = "TRANSFERRING"
      /\ watch' = [watch EXCEPT !.state = "AWAITING_SEND_START"]
      /\ UNCHANGED <<phone, queue, elapsed, handed, lost>>
  BY Times DEF IInv, AckArrives, TimersFit
<1>2. /\ DOMAIN countdown' = (DOMAIN countdown \ {"ack"}) \cup {"send_start"}
      /\ countdown'["send_start"] = SendStart
      /\ \A u \in DOMAIN countdown \ {"ack"} : u # "send_start" => countdown'[u] = countdown[u]
  BY DEF AckArrives, Arm, Disarm
<1>3. /\ \A t : t \notin {"ack", "send_start"} =>
             (Armed(t)' <=> Armed(t)) /\ (Armed(t) => Due(t)' = Due(t))
      /\ ~Armed("ack")' /\ Armed("send_start")' /\ Due("send_start")' = elapsed + SendStart
  BY <1>1, <1>2 DEF Armed, Due
<1>4. watch' \in WatchRecords /\ watch'.state = "AWAITING_SEND_START"
  BY <1>1 DEF TypeOK, WatchRecords
<1>5. TypeOK'
  <2>1. /\ DOMAIN countdown' \subseteq TimerNames
        /\ \A t \in DOMAIN countdown' : countdown'[t] \in Nat
    BY <1>1, <1>2, Times, DurationAssumption DEF TimerNames, WatchTimers
  <2> QED
    BY <1>1, <1>4, <2>1, BasicsKept DEF TypeOK, PhoneRecords
<1>6. QueueFits'
  BY <1>1 DEF QueueFits, Terminals
<1>7. TimersFit'
  BY <1>1, <1>3, <1>4 DEF TimersFit
<1>8. StagesFit'
  BY <1>1, <1>3, <1>4 DEF StagesFit, Early
<1>9. WatchInTime'
  <2>1. elapsed <= Due("ack") /\ Due("ack") \in Nat /\ Due("ack") <= Delay
    BY <1>1, Times DEF InTime, WatchInTime, Armed
  <2> QED
    BY <1>1, <1>3, <1>4, <2>1, DurationAssumption DEF WatchInTime
<1>10. PhoneInTime' /\ ChunksInTime'
  BY <1>1, <1>3, <1>4 DEF InTime, PhoneInTime, ChunksInTime, TimersFit
<1>11. JInv => JInv'
  BY <1>4 DEF JInv, NextChunkInTime, PhoneDecides
<1> QED
  BY <1>5, <1>6, <1>7, <1>8, <1>9, <1>10, <1>11 DEF Keeps, IInv, InTime

\* Nothing is left to prove of a watch that shows how its run ended.
LEMMA Over ==
  ASSUME TypeOK', watch'.state \in {"ERROR", "DISPLAYING_RESULT"},
         Margins /\ JInv => PhoneDecides'
  PROVE  Keeps
<1>1. ~Pending'
  BY DEF Pending
<1>2. NextChunkInTime'
  BY DEF NextChunkInTime
<1> QED
  BY <1>1, <1>2 DEF Keeps, IInv, JInv

LEMMA PushArrivesKeeps ==
  ASSUME IInv, PushArrives
  PROVE  Keeps
<1> DEFINE m == queue[1]
<1>1. /\ Pending /\ TypeOK /\ QueueFits /\ TimersFit /\ StagesFit /\ InTime
      /\ phone \in PhoneRecords /\ watch \in WatchRecords
      /\ elapsed \in Nat /\ (handed = -1 \/ handed \in Nat)
      /\ Armed("push") /\ ~Armed("done") /\ queue # <<>>
      /\ watch.state # "TRANSFERRING" /\ ~Armed("ack")
      /\ UNCHANGED <<phone, queue, elapsed, handed, lost>>
  BY Times DEF IInv, PushArrives, TypeOK, PhoneRecords, WatchRecords, TimersFit
<1>2. /\ Head(queue) = m
      /\ watch' =
           CASE m.type = "SEND_STARTED" -> [watch EXCEPT !.state = "AWAITING_RESULT"]
             [] m.type = "FAILURE" -> [state |-> "ERROR", status |-> m.status]
             [] OTHER -> [watch EXCEPT !.state = IF m.left > 0 THEN "RECEIVING_RESULT"
                                                 ELSE "DISPLAYING_RESULT"]
      /\ countdown' = Arm(Disarm(WatchAfter(m, countdown), {"push"}), "done", Delay)
  BY <1>1, Heads DEF PushArrives
<1>3. \/ m = SendStarted
      \/ m \in Terminals /\ phone.state = "FORWARDING_TERMINAL" /\ queue = <<m>>
  <2>1. m # Lost
    BY <1>1 DEF StagesFit
  <2>2. <<SendStarted>>[1] = SendStarted /\ <<Lost>>[1] = Lost
    OBVIOUS
  <2>3. \A t : <<t>>[1] = t /\ <<SendStarted, t>>[1] = SendStarted /\ <<Lost, t>>[1] = Lost
    OBVIOUS
  <2>4. CASE phone.state = "AWAITING_RESULT"
    BY <1>1, <2>1, <2>2, <2>4, Heads
  <2>5. CASE phone.state = "FORWARDING_TERMINAL"
    <3>1. PICK t \in Terminals : queue \in {<<t>>, <<SendStarted, t>>, <<Lost>>, <<Lost, t>>}
      BY <1>1, <2>5, Heads
    <3> QED
      BY <2>1, <2>2, <2>3, <2>5, <3>1
  <2> QED
    BY <1>1, <2>4, <2>5, Heads
<1>4. elapsed <= Due("push") /\ Due("push") \in Nat
  BY <1>1, Times DEF Armed
<1>5. CASE m = SendStarted
  <2>1. watch' \in WatchRecords /\ watch'.state = "AWAITING_RESULT"
    BY <1>1, <1>2, <1>5, Messages DEF WatchRecords
  <2>2. countdown' = Arm(Disarm(Arm(Disarm(countdown, {"send_start"}), "request", Request),
                                {"push"}), "done", Delay)
    BY <1>2, <1>5, Messages DEF WatchAfter
  <2>3. /\ DOMAIN countdown' =
             (DOMAIN countdown \ {"send_start", "push"}) \cup {"request", "done"}
        /\ countdown'["request"] = Request /\ countdown'["done"] = Delay
        /\ \A u \in DOMAIN countdown \ {"send_start", "push", "request", "done"} :
             countdown'[u] = countdown[u]
    BY <2>2 DEF Arm, Disarm
  <2>4. watch.state = "AWAITING_SEND_START" /\ handed \in Nat
    BY <1>1, <1>5 DEF StagesFit, Early
  <2>5. /\ \A t : t \notin {"send_start", "push", "request", "done"} =>
               (Armed(t)' <=> Armed(t)) /\ (Armed(t) => Due(t)' = Due(t))
        /\ Armed("done")' /\ ~Armed("push")' /\ Armed("request")' /\ ~Armed("send_start")'
        /\ Due("request")' = elapsed + Request /\ Due("done")' = elapsed + Delay
    BY <1>1, <2>3 DEF Armed, Due
  <2>6. TypeOK'
    <3>1. /\ DOMAIN countdown' \subseteq TimerNames
          /\ \A t \in DOMAIN countdown' : countdown'[t] \in Nat
      BY <1>1, <2>3, Times, DurationAssumption DEF TimerNames, WatchTimers, Journeys
    <3> QED
      BY <1>1, <2>1, <3>1, BasicsKept DEF TypeOK, PhoneRecords
  <2>7. QueueFits'
    BY <1>1 DEF QueueFits, Terminals
  <2>8. TimersFit'
    BY <1>1, <2>1, <2>4, <2>5 DEF TimersFit
  <2>9. StagesFit'
    BY <1>1, <1>5, <2>1, <2>4, <2>5, Messages DEF StagesFit, Early
  <2>10. WatchInTime'
    <3>1. elapsed <= Due("send_start") /\ Due("send_start") \in Nat
          /\ Due("send_start") <= Delay + SendStart
      BY <1>1, <2>4, Times DEF InTime, WatchInTime, TimersFit, Armed
    <3>2. elapsed + Request <= Whole /\ elapsed + Request >= handed + Request
      BY <1>1, <2>4, <3>1, DurationAssumption DEF Whole, StagesFit
    <3> QED
      BY <1>1, <2>1, <2>5, <3>2 DEF WatchInTime
  <2>11. PhoneInTime' /\ ChunksInTime'
    <3>1. Due("push") <= handed + Delay
      BY <1>1, <1>5 DEF InTime, PhoneInTime
    <3>2. elapsed + Delay <= handed + 2 * Delay
      BY <1>1, <1>4, <2>4, <3>1, DurationAssumption
    <3>3. phone.state = "AWAITING_RESULT" => Due("server_result")' <= handed + ServerResult
      BY <1>1, <2>5 DEF InTime, PhoneInTime, TimersFit
    <3> QED
      BY <1>1, <1>5, <2>1, <2>5, <3>2, <3>3 DEF PhoneInTime, ChunksInTime
  <2>12. JInv => JInv'
    BY <2>1 DEF JInv, NextChunkInTime, PhoneDecides
  <2> QED
    BY <2>6, <2>7, <2>8, <2>9, <2>10, <2>11, <2>12 DEF Keeps, IInv, InTime
<1>6. CASE m \in Terminals /\ m.type = "FAILURE"
  <2>1. m.status \in Reasons /\ (m.status = "ERROR_TRANSFER" => handed = -1)
    BY <1>6, TerminalFacts DEF Terminals
  <2>2. watch' = [state |-> "ERROR", status |-> m.status]
    BY <1>2, <1>6
  <2>3. watch' \in WatchRecords /\ watch'.state = "ERROR" /\ watch'.status = m.status
    BY <2>1, <2>2 DEF WatchRecords, Reasons
  <2>4. countdown' = Arm(Disarm(Disarm(countdown, WatchTimers), {"push"}), "done", Delay)
    BY <1>2, <1>6 DEF WatchAfter
  <2>5. TypeOK'
    <3>1. /\ DOMAIN countdown' = (DOMAIN countdown \ (WatchTimers \cup {"push"})) \cup {"done"}
          /\ countdown'["done"] = Delay
          /\ \A u \in DOMAIN countdown \ (WatchTimers \cup {"push", "done"}) :
               countdown'[u] = countdown[u]
      BY <2>4 DEF Arm, Disarm
    <3>2. /\ DOMAIN countdown' \subseteq TimerNames
          /\ \A t \in DOMAIN countdown' : countdown'[t] \in Nat
      BY <1>1, <3>1, Times, DurationAssumption DEF TimerNames, Journeys
    <3> QED
      BY <1>1, <2>3, <3>2, BasicsKept DEF TypeOK, PhoneRecords
  <2>6. PhoneDecides'
    BY <1>1, <2>1, <2>3 DEF PhoneDecides, Reasons
  <2> QED
    BY <2>3, <2>5, <2>6, Over
<1>7. CASE m \in Terminals /\ m.type = "SERVER_RESULT_CHUNK"
  <2>1. /\ m = Chunk(phone.chunks) /\ m.left = phone.chunks /\ handed \in Nat
        /\ phone.chunks \in 0 .. MaxChunks - 1 /\ m # SendStarted /\ m # Lost
        /\ phone.state = "FORWARDING_TERMINAL" /\ queue = <<m>>
    <3>1. /\ m = Chunk(phone.chunks) /\ m.left = phone.chunks /\ handed >= 0
          /\ m # SendStarted /\ m # Lost
      BY <1>7, TerminalFacts DEF Terminals
    <3> QED
      BY <1>1, <1>3, <3>1 DEF PhoneRecords
  <2>2. watch.state \in {"AWAITING_RESULT", "RECEIVING_RESULT"}
    BY <1>1, <1>7 DEF StagesFit
  <2>3. watch' = [watch EXCEPT !.state = IF phone.chunks > 0 THEN "RECEIVING_RESULT"
                                         ELSE "DISPLAYING_RESULT"]
    BY <1>2, <1>7, <2>1
  <2>4. CASE ~(phone.chunks > 0)
    <3>1. watch' \in WatchRecords /\ watch'.state = "DISPLAYING_RESULT"
      BY <1>1, <2>3, <2>4 DEF WatchRecords
    <3>2. countdown' = Arm(Disarm(Disarm(countdown, WatchTimers), {"push"}), "done", Delay)
      BY <1>2, <1>7, <2>1, <2>4 DEF WatchAfter
    <3>3. /\ DOMAIN countdown' = (DOMAIN countdown \ (WatchTimers \cup {"push"})) \cup {"done"}
          /\ countdown'["done"] = Delay
          /\ \A u \in DOMAIN countdown \ (WatchTimers \cup {"push", "done"}) :
               countdown'[u] = countdown[u]
      BY <3>2 DEF Arm, Disarm
    <3>4. /\ DOMAIN countdown' \subseteq TimerNames
          /\ \A t \in DOMAIN countdown' : countdown'[t] \in Nat
      BY <1>1, <3>3, Times, DurationAssumption DEF TimerNames, Journeys
    <3>5. TypeOK'
      BY <1>1, <3>1, <3>4, BasicsKept DEF TypeOK, PhoneRecords
    <3>6. PhoneDecides'
      BY <3>1 DEF PhoneDecides
    <3> QED
      BY <3>1, <3>5, <3>6, Over
  <2>5. CASE phone.chunks > 0
    <3>1. watch' \in WatchRecords /\ watch'.state = "RECEIVING_RESULT"
      BY <1>1, <2>3, <2>5 DEF WatchRecords
    <3>2. countdown' = Arm(Disarm(Arm(Disarm(countdown, WatchTimers), "result_chunk", ResultChunk),
                                  {"push"}), "done", Delay)
      BY <1>2, <1>7, <2>1, <2>5 DEF WatchAfter
    <3>3. /\ DOMAIN countdown' =
               (DOMAIN countdown \ (WatchTimers \cup {"push"})) \cup {"result_chunk", "done"}
          /\ countdown'["result_chunk"] = ResultChunk /\ countdown'["done"] = Delay
          /\ \A u \in DOMAIN countdown \ (WatchTimers \cup {"push", "done"}) :
               countdown'[u] = countdown[u]
      BY <3>2 DEF Arm, Disarm, WatchTimers
    <3>4. /\ \A t : t \notin WatchTimers \cup {"push", "done"} =>
                 (Armed(t)' <=> Armed(t)) /\ (Armed(t) => Due(t)' = Due(t))
          /\ Armed("done")' /\ ~Armed("push")' /\ Armed("result_chunk")'
          /\ ~Armed("request")' /\ ~Armed("send_start")'
          /\ Due("result_chunk")' = elapsed + ResultChunk /\ Due("done")' = elapsed + Delay
      BY <1>1, <3>3 DEF Armed, Due, WatchTimers
    <3>5. TypeOK'
      <4>1. /\ DOMAIN countdown' \subseteq TimerNames
            /\ \A t \in DOMAIN countdown' : countdown'[t] \in Nat
        BY <1>1, <3>3, Times, DurationAssumption DEF TimerNames, WatchTimers, Journeys
      <4> QED
        BY <1>1, <3>1, <4>1, BasicsKept DEF TypeOK, PhoneRecords
    <3>6. QueueFits'
      BY <1>1 DEF QueueFits, Terminals
    <3>7. TimersFit'
      BY <1>1, <2>1, <3>1, <3>4 DEF TimersFit, WatchTimers
    <3>8. StagesFit'
      BY <1>1, <1>7, <2>1, <2>5, <3>1, <3>4 DEF StagesFit, Early
    <3>9. elapsed + ResultChunk <= Whole + Room(phone.chunks)
          /\ Room(phone.chunks) <= Room(1)
          /\ Room(phone.chunks) \in Int /\ Room(1) \in Int
      <4>1. /\ phone.chunks \in 1 .. MaxChunks - 1 /\ phone.chunks \in 1 .. MaxChunks
            /\ phone.chunks + 1 \in 1 .. MaxChunks /\ 1 \in 1 .. MaxChunks
        BY <2>1, <2>5, DurationAssumption
      <4>2. /\ Room(phone.chunks) \in Int /\ Room(1) \in Int /\ Room(phone.chunks) <= Room(1)
            /\ Room(phone.chunks + 1) \in Int
            /\ Room(phone.chunks + 1) + ResultChunk = Room(phone.chunks)
            /\ ResultChunk <= Room(phone.chunks)
        BY <4>1, RoomFacts
      <4>3. CASE watch.state = "AWAITING_RESULT"
        <5>1. elapsed <= Due("request") /\ Due("request") \in Nat /\ Due("request") <= Whole
          BY <1>1, <4>3, Times DEF InTime, WatchInTime, TimersFit, Armed
        <5> QED
          BY SMTT(30), <1>1, <4>2, <5>1, DurationAssumption DEF Whole
      <4>4. CASE watch.state = "RECEIVING_RESULT"
        <5>1. /\ elapsed <= Due("result_chunk") /\ Due("result_chunk") \in Nat
              /\ Due("result_chunk") <= Whole + Room(phone.chunks + 1)
          BY <1>1, <2>1, <4>4, Times DEF InTime, ChunksInTime, TimersFit, Armed
        <5> QED
          BY SMTT(30), <1>1, <4>2, <5>1, DurationAssumption DEF Whole
      <4> QED
        BY <2>2, <4>2, <4>3, <4>4
    <3>10. WatchInTime'
      BY <1>1, <3>1, <3>4, <3>9, DurationAssumption DEF WatchInTime, Whole
    <3>11. PhoneInTime' /\ ChunksInTime'
      BY <1>1, <2>1, <3>1, <3>4, <3>9 DEF PhoneInTime, ChunksInTime
    <3>12. Margins /\ JInv => JInv'
      <4>1. Margins => elapsed + Delay + Delay < elapsed + ResultChunk
        BY <1>1, DurationAssumption DEF Margins
      <4> QED
        BY <3>1, <3>4, <4>1 DEF JInv, NextChunkInTime, PhoneDecides
    <3> QED
      BY <3>5, <3>6, <3>7, <3>8, <3>10, <3>11, <3>12 DEF Keeps, IInv, InTime
  <2> QED
    BY <2>4, <2>5
<1> QED
  BY <1>3, <1>5, <1>6, <1>7, TerminalFacts DEF Terminals

\* Without a loss, the watch gives up only for a hand-over that came late.
LEMMA WatchTimeoutKeeps ==
  ASSUME IInv, WatchTimeout
  PROVE  Keeps
<1>1. PICK t \in WatchTimers :
        Armed(t) /\ countdown[t] = 0 /\ watch' = [state |-> "ERROR", status |-> WatchdogStatus[t]]
  BY DEF WatchTimeout
<1>2. /\ Pending /\ TypeOK /\ QueueFits /\ TimersFit /\ StagesFit /\ InTime
      /\ phone \in PhoneRecords /\ elapsed \in Nat /\ (handed = -1 \/ handed \in Nat)
      /\ countdown' = Disarm(countdown, WatchTimers)
      /\ UNCHANGED <<phone, queue, elapsed, handed, lost>>
  BY Times DEF IInv, WatchTimeout, TypeOK, PhoneRecords
<1>3. Due(t) = elapsed
  BY <1>1, <1>2 DEF Due
<1>4. /\ watch' \in WatchRecords /\ watch'.state = "ERROR"
      /\ watch'.status = WatchdogStatus[t]
  BY <1>1 DEF WatchRecords, WatchdogStatus, WatchTimers
<1>5. TypeOK'
  <2>1. /\ DOMAIN countdown' \subseteq TimerNames
        /\ \A u \in DOMAIN countdown' : countdown'[u] \in Nat
    BY <1>2, Times DEF Disarm
  <2> QED
    BY <1>2, <1>4, <2>1, BasicsKept DEF TypeOK, PhoneRecords
\* Where the phone is when the watch still waits and nothing was lost.
<1>6. ASSUME ~lost, handed # -1
      PROVE  \/ phone.state = "AWAITING_RESULT"
             \/ /\ phone.state = "FORWARDING_TERMINAL" /\ queue # <<>>
                /\ \/ queue[1] = SendStarted
                   \/ queue[1].type \in {"FAILURE", "SERVER_RESULT_CHUNK"}
                /\ queue[1] # SendStarted => queue[1].type \in {"FAILURE", "SERVER_RESULT_CHUNK"}
  <2>1. phone.state \in {"AWAITING_RESULT", "FORWARDING_TERMINAL"}
    BY <1>2, <1>6 DEF StagesFit, PhoneRecords
  <2>2. CASE phone.state = "FORWARDING_TERMINAL"
    <3>1. PICK m \in Terminals : queue \in {<<m>>, <<SendStarted, m>>, <<Lost>>, <<Lost, m>>}
      BY <1>2, <2>2 DEF QueueFits
    <3>2. /\ <<m>> # <<>> /\ <<SendStarted, m>> # <<>> /\ <<Lost>> # <<>> /\ <<Lost, m>> # <<>>
          /\ <<m>>[1] = m /\ <<SendStarted, m>>[1] = SendStarted
          /\ <<Lost>>[1] = Lost /\ <<Lost, m>>[1] = Lost
      OBVIOUS
    <3>3. queue # <<>> /\ queue[1] # Lost
      BY <1>2, <1>6, <3>1, <3>2 DEF StagesFit
    <3>4. m.type \in {"FAILURE", "SERVER_RESULT_CHUNK"}
      BY TerminalFacts DEF Terminals
    <3> QED
      BY <2>2, <3>1, <3>2, <3>3, <3>4
  <2> QED
    BY <2>1, <2>2
<1>7. ASSUME ~lost, t = "send_start" PROVE handed = -1 \/ handed + Delay >= SendStart
  <2> SUFFICES ASSUME handed # -1 PROVE handed + Delay >= SendStart
    OBVIOUS
  <2>1. watch.state = "AWAITING_SEND_START" /\ elapsed >= SendStart
    BY <1>1, <1>2, <1>3, <1>7 DEF TimersFit, InTime, WatchInTime
  <2>2. queue # <<>> /\ queue[1] = SendStarted /\ Armed("push")
    <3>1. CASE phone.state = "AWAITING_RESULT"
      <4>1. queue # <<>>
        BY <1>2, <2>1, <3>1 DEF StagesFit
      <4>2. <<SendStarted>>[1] = SendStarted /\ <<Lost>>[1] = Lost
        OBVIOUS
      <4>3. queue[1] # Lost
        BY <1>2, <1>7, <4>1 DEF StagesFit
      <4>4. queue[1] = SendStarted
        BY <1>2, <3>1, <4>1, <4>2, <4>3 DEF QueueFits
      <4> QED
        BY <1>2, <2>1, <4>1, <4>4 DEF StagesFit, TimersFit
    <3>2. CASE phone.state = "FORWARDING_TERMINAL"
      <4>1. queue # <<>> /\ (queue[1] # SendStarted => queue[1].type \in {"FAILURE", "SERVER_RESULT_CHUNK"})
        BY <1>6, <1>7, <3>2
      <4>2. handed >= 0
        BY <1>2
      <4>3. queue[1] = SendStarted
        BY <1>2, <2>1, <4>1, <4>2 DEF StagesFit, TimersFit
      <4> QED
        BY <1>2, <2>1, <4>1, <4>3 DEF StagesFit, TimersFit
    <3> QED
      BY <1>6, <1>7, <3>1, <3>2
  <2>3. elapsed <= Due("push") /\ Due("push") \in Nat /\ Due("push") <= handed + Delay
    BY <1>2, <2>2, Times DEF InTime, PhoneInTime, Armed
  <2> QED
    BY <1>2, <2>1, <2>3, DurationAssumption
<1>8. ASSUME ~lost, Margins, t = "request" PROVE FALSE
  <2>1. watch.state = "AWAITING_RESULT" /\ elapsed >= handed + Request /\ handed \in Nat
    BY <1>1, <1>2, <1>3, <1>8 DEF TimersFit, InTime, WatchInTime, StagesFit, Early
  <2>2. CASE phone.state = "AWAITING_RESULT"
    <3>1. elapsed <= Due("server_result") /\ Due("server_result") \in Nat
          /\ Due("server_result") <= handed + ServerResult
      BY <1>2, <2>2, Times DEF TimersFit, Armed, InTime, PhoneInTime
    <3> QED
      BY <1>2, <1>8, <2>1, <3>1, DurationAssumption DEF Margins
  <2>3. CASE phone.state = "FORWARDING_TERMINAL"
    <3>1. queue # <<>> /\ (queue[1] # SendStarted => queue[1].type \in {"FAILURE", "SERVER_RESULT_CHUNK"})
      BY <1>6, <1>8, <2>1, <2>3
    <3>2. CASE queue[1] = SendStarted
      <4>1. Armed("done") /\ ~Armed("push")
        BY <1>2, <2>1, <3>1, <3>2 DEF StagesFit, TimersFit, Early
      <4>2. elapsed <= Due("done") /\ Due("done") \in Nat /\ Due("done") <= handed + 2 * Delay
        BY <1>2, <3>1, <3>2, <4>1, Times DEF InTime, PhoneInTime, Armed
      <4> QED
        BY <1>2, <1>8, <2>1, <4>2, DurationAssumption DEF Margins
    <3>3. CASE queue[1] # SendStarted
      <4>1. Armed("push")
        BY <1>2, <2>1, <3>1, <3>3 DEF StagesFit, TimersFit
      <4>2. /\ elapsed <= Due("push") /\ Due("push") \in Nat
            /\ Due("push") <= handed + ServerResult + Delay \/ Due("push") <= handed + 3 * Delay
        BY <1>2, <2>1, <3>1, <3>3, <4>1, Times DEF InTime, PhoneInTime, Armed
      <4> QED
        BY <1>2, <1>8, <2>1, <4>2, DurationAssumption DEF Margins
    <3> QED
      BY <3>2, <3>3
  <2> QED
    BY <1>6, <1>8, <2>1, <2>2, <2>3
<1>9. ASSUME ~lost, NextChunkInTime, t = "result_chunk" PROVE FALSE
  <2>1. watch.state = "RECEIVING_RESULT" /\ Due("result_chunk") = elapsed
    BY <1>1, <1>2, <1>3, <1>9 DEF TimersFit
  <2>2. queue # <<>>
    <3>1. \A m : <<m>> # <<>>
      OBVIOUS
    <3> QED
      BY <1>2, <1>9, <2>1, <3>1 DEF StagesFit
  <2>3. CASE Armed("push")
    <3>1. elapsed <= Due("push") /\ Due("push") \in Nat /\ Due("push") < elapsed
      BY <1>2, <1>9, <2>1, <2>3, Times DEF NextChunkInTime, Armed
    <3> QED
      BY <1>2, <3>1
  <2>4. CASE Armed("done")
    <3>1. elapsed <= Due("done") /\ Due("done") \in Nat /\ Due("done") + Delay < elapsed
      BY <1>2, <1>9, <2>1, <2>4, Times DEF NextChunkInTime, Armed
    <3> QED
      BY <1>2, <3>1, DurationAssumption
  <2> QED
    BY <1>2, <2>2, <2>3, <2>4 DEF TimersFit
<1>10. Margins /\ JInv => PhoneDecides'
  <2> SUFFICES ASSUME Margins, JInv, ~lost
               PROVE  /\ watch'.status = "ERROR_TRANSCRIPT_DELIVERY_TIMEOUT"
                      /\ handed = -1 \/ handed + Delay >= SendStart
    BY <1>2 DEF PhoneDecides
  <2>1. t = "send_start"
    BY <1>8, <1>9 DEF JInv, WatchTimers
  <2> QED
    BY <1>4, <1>7, <2>1 DEF WatchdogStatus
<1> QED
  BY <1>4, <1>5, <1>10, Over

-----------------------------------------------------------------------------
(* The theorems.                                                           *)

LEMMA InitHolds == Init => IInv /\ JInv
<1> SUFFICES ASSUME Init PROVE IInv /\ JInv
  OBVIOUS
<1>1. /\ phone = [state |-> "RECEIVING", chunks |-> 0] /\ queue = <<>>
      /\ watch = [state |-> "TRANSFERRING", status |-> "NORMAL"]
      /\ elapsed = 0 /\ handed = -1 /\ lost = FALSE
  BY DEF Init
<1>2. DOMAIN countdown = {"chunk", "ack"} /\ countdown["chunk"] = Delay /\ countdown["ack"] = Delay
  BY DEF Init
<1>3. TypeOK
  <2>1. phone \in PhoneRecords /\ watch \in WatchRecords
    BY <1>1, DurationAssumption DEF PhoneRecords, WatchRecords
  <2>2. Len(queue) <= 2
    BY <1>1
  <2>3. DOMAIN countdown \subseteq TimerNames /\ \A t \in DOMAIN countdown : countdown[t] \in Nat
    BY <1>2, DurationAssumption DEF TimerNames, Journeys
  <2> QED
    BY <1>1, <2>1, <2>2, <2>3 DEF TypeOK, PhoneRecords, WatchRecords, TimerNames
<1>4. QueueFits /\ TimersFit /\ StagesFit
  BY <1>1, <1>2 DEF QueueFits, TimersFit, StagesFit, Armed, Early
<1>5. InTime
  BY <1>1, <1>2, DurationAssumption DEF InTime, WatchInTime, PhoneInTime, ChunksInTime, Due
<1>6. JInv
  BY <1>1 DEF JInv, NextChunkInTime, PhoneDecides
<1> QED
  BY <1>3, <1>4, <1>5, <1>6 DEF IInv

LEMMA NextKeeps == IInv /\ [Next]_vars => Keeps
<1> SUFFICES ASSUME IInv, [Next]_vars PROVE Keeps
  OBVIOUS
<1>1. CASE UNCHANGED vars
  <2>1. IInv'
    BY <1>1 DEF vars, IInv, TypeOK, Pending, QueueFits, Terminals, TimersFit, StagesFit,
                Armed, InTime, WatchInTime, PhoneInTime, ChunksInTime, Due
  <2>2. JInv => JInv'
    BY <1>1 DEF vars, JInv, NextChunkInTime, PhoneDecides, Armed, Due
  <2> QED
    BY <2>1, <2>2 DEF Keeps
<1>2. CASE Settled
  BY <1>1, <1>2 DEF Settled
<1> QED
  BY <1>1, <1>2, TickKeeps, LastChunkKeeps, HandOverKeeps, FailKeeps, ResultKeeps,
     PushDoneKeeps, PushLostKeeps, PushFailsKeeps, AckKeeps, PushArrivesKeeps,
     WatchTimeoutKeeps DEF Next

\* The inductive invariant: timers, stages and the queue fit together.
THEOREM Invariance == Spec => []IInv
<1>1. IInv /\ [Next]_vars => IInv'
  BY NextKeeps DEF Keeps
<1> QED
  BY <1>1, InitHolds, PTL DEF Spec

\* For any durations, a run is over in the time of all watchdogs together,
\* whatever is lost or late.
THEOREM EveryRunSettles == Spec => []SettlesInTime
<1>1. IInv => SettlesInTime
  <2> SUFFICES ASSUME IInv, Pending
               PROVE  elapsed <= Delay + SendStart + Request + (MaxChunks - 1) * ResultChunk
    BY DEF IInv, SettlesInTime
  <2>1. TypeOK /\ TimersFit /\ InTime /\ elapsed \in Nat
    BY Times DEF IInv
  <2>2. 1 \in 1 .. MaxChunks
    BY DurationAssumption
  <2>3. Room(1) \in Nat /\ Room(1) = (MaxChunks - 1) * ResultChunk
    <3>1. MaxChunks - 1 \in Nat /\ ResultChunk \in Nat
      BY DurationAssumption
    <3>2. \A a, b \in Nat : a * b \in Nat
      BY Z3
    <3> QED
      BY <3>1, <3>2 DEF Room
  <2>4. CASE watch.state = "TRANSFERRING"
    BY SMTT(30), <2>1, <2>3, <2>4, Times, DurationAssumption DEF TimersFit, Armed, InTime, WatchInTime
  <2>5. CASE watch.state = "AWAITING_SEND_START"
    BY SMTT(30), <2>1, <2>3, <2>5, Times, DurationAssumption DEF TimersFit, Armed, InTime, WatchInTime
  <2>6. CASE watch.state = "AWAITING_RESULT"
    BY <2>1, <2>3, <2>6, Times, DurationAssumption DEF TimersFit, Armed, InTime, WatchInTime, Whole
  <2>7. CASE watch.state = "RECEIVING_RESULT"
    BY SMTT(30), <2>1, <2>3, <2>7, Times, DurationAssumption DEF TimersFit, Armed, InTime, WatchInTime, Whole
  <2> QED
    BY <2>1, <2>4, <2>5, <2>6, <2>7 DEF TypeOK, Pending
<1> QED
  BY <1>1, Invariance, PTL

\* If the durations leave room for the delays of the link, as those of the
\* code do for delays below 1.5 seconds, the watch makes up no reason of its
\* own but for a late hand-over.
THEOREM PhoneIsAuthoritative ==
  ASSUME Margins
  PROVE  Spec => []PhoneDecides
<1>1. IInv /\ JInv /\ [Next]_vars => JInv'
  BY NextKeeps DEF Keeps
<1>2. JInv => PhoneDecides
  BY DEF JInv
<1> QED
  BY <1>1, <1>2, InitHolds, Invariance, PTL DEF Spec

=============================================================================
