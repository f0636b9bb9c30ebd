---------------------------- MODULE ServerProofs ----------------------------
(***************************************************************************)
(* Proofs about the Python server, for any clients, any number of frames   *)
(* and any answers of the application.                                     *)
(*                                                                         *)
(* NothingForgotten is about sets; that it survives a frame needs to know  *)
(* that the frame's number is new.  So the inductive invariant numbers the *)
(* frames of a connection: those in `inbox` follow the one being handled,  *)
(* and nothing is known of a frame before it is read.                      *)
(***************************************************************************)
EXTENDS Server, TLAPS

\* Exchange n of connection c.
X(c, n) == [c |-> c, n |-> n]

\* The frames still to read follow the one being handled.
Numbered(c) ==
  \A i \in DOMAIN inbox[c] : inbox[c][i].n = current[c] + i

\* Replies were sent in the order of the frames, and none yet to the frame
\* whose answer is awaited.
RepliedSoFar(c) ==
  \A i \in DOMAIN replies[c] :
    /\ replies[c][i].n <= current[c]
    /\ task[c] = "awaiting" => replies[c][i].n < current[c]

\* The application knows of no frame that was not read; its undecided
\* exchange is the one its connection awaits.
KnownSoFar(c) ==
  /\ \A n \in Numbers : future[X(c, n)] # "none" => n <= current[c]
  /\ \A n \in Numbers : future[X(c, n)] = "pending" =>
                          task[c] = "awaiting" /\ current[c] = n
  /\ task[c] = "awaiting" => current[c] > 0 /\ future[X(c, current[c])] # "none"

Client(c) ==
  /\ Numbered(c) /\ RepliedSoFar(c) /\ KnownSoFar(c)
  /\ current[c] + Len(inbox[c]) = sent[c]
  /\ link[c] = "none" => task[c] = "none"

\* What the application can get hold of, or has.
Offered == ToSet(queue) \cup held

Awaited == {x \in Exchanges : task[x.c] = "awaiting" /\ current[x.c] = x.n}

\* The exchanges that are waited for are known, and each is in one place.
Kept ==
  /\ mode = "iterator" => pending = Awaited
  /\ mode = "callback" => pending = {}
  /\ ToSet(queue) \cap held = {} /\ IsInjective(queue)
  /\ \A x \in Exchanges : future[x] = "pending" => x \in Offered
  /\ \A x \in Offered : future[x] # "none"

IInv == TypeOK /\ Kept /\ \A c \in Clients : Client(c)

-----------------------------------------------------------------------------
(* Exchanges and the queue.                                                *)

LEMMA ExchangeFacts ==
  /\ \A c \in Clients, n \in Numbers : X(c, n) \in Exchanges
  /\ \A c, n : X(c, n).c = c /\ X(c, n).n = n
  /\ \A x \in Exchanges : x.c \in Clients /\ x.n \in Numbers /\ x = X(x.c, x.n)
BY DEF X, Exchanges

LEMMA NumbersAre == Numbers \subseteq Nat /\ \A n \in 0 .. MaxFrames : n > 0 => n \in Numbers
BY MaxFramesAssumption DEF Numbers

LEMMA SeqElement ==
  ASSUME NEW S, NEW s \in Seq(S), NEW i \in DOMAIN s
  PROVE  s[i] \in S
OBVIOUS

LEMMA SetOfSequence ==
  ASSUME NEW S, NEW s \in Seq(S)
  PROVE  /\ ToSet(s) \subseteq S
         /\ \A x : x \in ToSet(s) <=> \E i \in 1 .. Len(s) : s[i] = x
BY DEF ToSet

\* A new exchange at the end of the queue.
LEMMA QueueGrows ==
  ASSUME NEW s \in Seq(Exchanges), IsInjective(s),
         NEW x \in Exchanges, x \notin ToSet(s), NEW t, t = Append(s, x)
  PROVE  t \in Seq(Exchanges) /\ ToSet(t) = ToSet(s) \cup {x} /\ IsInjective(t)
<1> DEFINE n == Len(s)
<1>1. /\ t \in Seq(Exchanges) /\ Len(t) = n + 1 /\ DOMAIN t = 1 .. n + 1
      /\ n \in Nat /\ DOMAIN s = 1 .. n
      /\ t[n + 1] = x /\ \A i \in 1 .. n : t[i] = s[i]
  OBVIOUS
<1> HIDE DEF n
<1>2. \A i \in 1 .. n + 1 : i \in 1 .. n \/ i = n + 1
  BY <1>1
<1>3. \A i \in 1 .. n : s[i] # x
  BY <1>1 DEF ToSet
<1>4. IsInjective(t)
  BY <1>1, <1>2, <1>3 DEF IsInjective
<1>5. \A y : y \in ToSet(t) <=> y \in ToSet(s) \/ y = x
  BY <1>1, <1>2 DEF ToSet
<1> QED
  BY <1>1, <1>4, <1>5

\* The first exchange leaves the queue.
LEMMA QueueShrinks ==
  ASSUME NEW s \in Seq(Exchanges), s # <<>>, IsInjective(s)
  PROVE  /\ Tail(s) \in Seq(Exchanges) /\ Head(s) \in ToSet(s)
         /\ ToSet(Tail(s)) = ToSet(s) \ {Head(s)} /\ IsInjective(Tail(s))
<1> DEFINE n == Len(s)
           t == Tail(s)
<1>1. /\ n \in Nat /\ n > 0 /\ DOMAIN s = 1 .. n /\ Head(s) = s[1]
      /\ t \in Seq(Exchanges) /\ DOMAIN t = 1 .. n - 1
      /\ \A i \in 1 .. n - 1 : t[i] = s[i + 1]
  OBVIOUS
<1> HIDE DEF n, t
<1>2. \A i \in 1 .. n - 1 : i + 1 \in 1 .. n /\ i + 1 # 1
  BY <1>1
<1>3. \A i \in 1 .. n : i # 1 => i - 1 \in 1 .. n - 1 /\ (i - 1) + 1 = i
  BY <1>1
<1>4. IsInjective(t)
  <2> SUFFICES ASSUME NEW i \in 1 .. n - 1, NEW j \in 1 .. n - 1, t[i] = t[j]
               PROVE  i = j
    BY <1>1 DEF IsInjective
  <2>1. i + 1 = j + 1
    BY SMTT(30), <1>1, <1>2 DEF IsInjective
  <2> QED
    BY <1>1, <2>1
<1>5. 1 \in 1 .. n
  BY <1>1
<1>6. \A y : y \in ToSet(t) => y \in ToSet(s) /\ y # Head(s)
  <2> SUFFICES ASSUME NEW i \in 1 .. n - 1 PROVE t[i] \in ToSet(s) /\ t[i] # s[1]
    BY <1>1 DEF ToSet
  <2> QED
    BY <1>1, <1>2, <1>5 DEF ToSet, IsInjective
<1>7. \A y : y \in ToSet(s) /\ y # Head(s) => y \in ToSet(t)
  <2> SUFFICES ASSUME NEW i \in 1 .. n, s[i] # s[1] PROVE s[i] \in ToSet(t)
    BY <1>1 DEF ToSet
  <2>1. i - 1 \in 1 .. n - 1 /\ t[i - 1] = s[i]
    BY <1>1, <1>3
  <2> QED
    BY <1>1, <2>1 DEF ToSet
<1>8. Head(s) \in ToSet(s)
  BY <1>1, <1>5 DEF ToSet
<1>9. ToSet(t) = ToSet(s) \ {Head(s)}
  BY <1>6, <1>7
<1> QED
  BY <1>1, <1>4, <1>8, <1>9 DEF t

-----------------------------------------------------------------------------
(* What a step leaves alone.                                               *)

Simulated == A!Next \/ UNCHANGED A!answeringVars

Keeps == IInv' /\ Simulated

\* The service of Answering sees futures and replies only.
LEMMA Unseen ==
  ASSUME UNCHANGED <<future, replies>>
  PROVE  Simulated
BY DEF Simulated, A!answeringVars, Asked, Decided

\* A connection that a step does not touch.
LEMMA Untouched ==
  ASSUME NEW c \in Clients, current[c] \in 0 .. MaxFrames, Client(c),
         inbox'[c] = inbox[c], current'[c] = current[c], sent'[c] = sent[c],
         replies'[c] = replies[c], task'[c] = task[c],
         link'[c] = "none" => link[c] = "none",
         \A n \in Numbers : future'[X(c, n)] = future[X(c, n)]
  PROVE  Client(c)'
<1>1. Numbered(c)' /\ RepliedSoFar(c)' /\ current'[c] + Len(inbox'[c]) = sent'[c]
  BY DEF Client, Numbered, RepliedSoFar
<1>2. KnownSoFar(c)'
  BY NumbersAre DEF Client, KnownSoFar
<1> QED
  BY <1>1, <1>2 DEF Client

\* Connections come and go between frames.
LEMMA BetweenFrames ==
  ASSUME IInv, TypeOK', UNCHANGED <<inbox, sent, current, replies, exchangeVars, mode>>,
         \A c \in Clients : task'[c] = "awaiting" <=> task[c] = "awaiting",
         \A c \in Clients : link'[c] = "none" => link[c] = "none" /\ task'[c] = task[c]
  PROVE  Keeps
<1>1. Kept'
  <2>1. Awaited' = Awaited
    BY ExchangeFacts DEF Awaited
  <2> QED
    BY <2>1 DEF IInv, Kept, Offered, exchangeVars
<1>2. \A c \in Clients : Client(c)'
  BY DEF IInv, Client, Numbered, RepliedSoFar, KnownSoFar, exchangeVars
<1>3. Simulated
  BY Unseen DEF exchangeVars
<1> QED
  BY <1>1, <1>2, <1>3 DEF Keeps, IInv

LEMMA ConnectionKeeps ==
  ASSUME IInv, NEW c \in Clients,
         \/ Connect(c) \/ ClientCloses(c) \/ HandshakeEnds(c)
         \/ EndOfFrames(c) \/ Leave(c) \/ CloseConnection(c)
  PROVE  Keeps
<1>1. /\ UNCHANGED <<inbox, sent, current, replies, exchangeVars, mode, server>>
      /\ link' = link \/ \E l \in {"open", "closing", "closed"} : link' = [link EXCEPT ![c] = l]
      /\ \/ task' = task
         \/ /\ task[c] # "awaiting"
            /\ \E t \in {"reading", "leaving", "done"} : task' = [task EXCEPT ![c] = t]
            /\ link'[c] # "none"
  <2>1. TypeOK /\ task[c] \in {"none", "reading", "awaiting", "leaving", "done"}
        /\ (link[c] = "none" => task[c] = "none")
    BY DEF IInv, TypeOK, Client
  <2>2. CASE Connect(c)
    BY <2>1, <2>2 DEF Connect, TypeOK, controlVars
  <2>3. CASE ClientCloses(c) \/ HandshakeEnds(c) \/ CloseConnection(c)
    BY <2>3 DEF ClientCloses, HandshakeEnds, CloseConnection, controlVars
  <2>4. CASE EndOfFrames(c) \/ Leave(c)
    BY <2>4 DEF EndOfFrames, Leave, controlVars
  <2> QED
    BY <2>2, <2>3, <2>4
<1>2. TypeOK'
  <2>1. link' \in [Clients -> {"none", "open", "closing", "closed"}]
    BY <1>1 DEF IInv, TypeOK
  <2>2. task' \in [Clients -> {"none", "reading", "awaiting", "leaving", "done"}]
    BY <1>1 DEF IInv, TypeOK
  <2> QED
    BY <1>1, <2>1, <2>2 DEF IInv, TypeOK, exchangeVars
<1>3. /\ \A d \in Clients : task'[d] = "awaiting" <=> task[d] = "awaiting"
      /\ \A d \in Clients : link'[d] = "none" => link[d] = "none" /\ task'[d] = task[d]
  BY <1>1 DEF IInv, TypeOK
<1>4. UNCHANGED <<inbox, sent, current, replies, exchangeVars, mode>>
  BY <1>1
<1> QED
  BY <1>2, <1>3, <1>4, BetweenFrames

LEMMA WaitClosedKeeps ==
  ASSUME IInv, WaitClosed
  PROVE  Keeps
<1>1. TypeOK'
  BY DEF IInv, TypeOK, WaitClosed, connectionVars, exchangeVars
<1> QED
  BY <1>1, BetweenFrames DEF WaitClosed, connectionVars

-----------------------------------------------------------------------------
(* A frame arrives.                                                        *)

LEMMA FrameKeeps ==
  ASSUME IInv, NEW c \in Clients, NEW kind \in FrameKinds, FrameArrives(c, kind)
  PROVE  Keeps
<1> DEFINE f == [n |-> sent[c] + 1, kind |-> kind]
           q == inbox[c]
           n == Len(q)
<1>1. /\ UNCHANGED <<link, task, current, replies, exchangeVars, controlVars>>
      /\ sent' = [sent EXCEPT ![c] = sent[c] + 1]
      /\ inbox' = [inbox EXCEPT ![c] = Append(q, f)]
      /\ sent[c] < MaxFrames
  BY DEF FrameArrives
<1>2. /\ TypeOK /\ Client(c) /\ sent[c] \in 0 .. MaxFrames /\ current[c] \in 0 .. MaxFrames
      /\ q \in Seq([n : Numbers, kind : FrameKinds])
      /\ sent[c] + 1 \in Numbers /\ sent[c] + 1 \in 0 .. MaxFrames
      /\ f \in [n : Numbers, kind : FrameKinds]
  <2>1. TypeOK /\ Client(c) /\ sent[c] \in 0 .. MaxFrames /\ current[c] \in 0 .. MaxFrames
        /\ q \in Seq([n : Numbers, kind : FrameKinds])
    BY DEF IInv, TypeOK
  <2>2. sent[c] + 1 \in Numbers /\ sent[c] + 1 \in 0 .. MaxFrames
    BY <1>1, <2>1, MaxFramesAssumption DEF Numbers
  <2> QED
    BY <2>1, <2>2
<1>3. /\ Append(q, f) \in Seq([n : Numbers, kind : FrameKinds])
      /\ n \in Nat /\ Len(Append(q, f)) = n + 1
      /\ DOMAIN q = 1 .. n /\ DOMAIN Append(q, f) = 1 .. n + 1
      /\ Append(q, f)[n + 1] = f /\ \A i \in 1 .. n : Append(q, f)[i] = q[i]
  BY <1>2
<1>4. f.n = sent[c] + 1
  OBVIOUS
<1>5. /\ inbox'[c] = Append(q, f) /\ sent'[c] = sent[c] + 1
      /\ \A d \in Clients \ {c} : inbox'[d] = inbox[d] /\ sent'[d] = sent[d]
  BY <1>1 DEF IInv, TypeOK
<1>6. TypeOK'
  <2>1. inbox' \in [Clients -> Seq([n : Numbers, kind : FrameKinds])]
    BY <1>1, <1>2, <1>3 DEF TypeOK
  <2>2. sent' \in [Clients -> 0 .. MaxFrames]
    BY <1>1, <1>2 DEF TypeOK
  <2> QED
    BY <1>1, <1>2, <2>1, <2>2 DEF TypeOK, exchangeVars, controlVars
<1>7. Kept'
  <2>1. Awaited' = Awaited
    BY <1>1 DEF Awaited
  <2> QED
    BY <1>1, <2>1 DEF IInv, Kept, Offered, exchangeVars, controlVars
<1>8. Client(c)'
  <2> HIDE DEF f, q, n
  <2>1. current[c] + n = sent[c] /\ \A i \in 1 .. n : q[i].n = current[c] + i
    BY <1>2, <1>3 DEF Client, Numbered, q, n
  <2>2. \A i \in 1 .. n + 1 : i \in 1 .. n \/ i = n + 1
    BY <1>3
  <2>3. current[c] + (n + 1) = sent[c] + 1
    <3>1. current[c] \in Int /\ n \in Int
      BY <1>2, <1>3
    <3>2. \A a, b \in Int : a + (b + 1) = (a + b) + 1
      OBVIOUS
    <3> QED
      BY <2>1, <3>1, <3>2, Zenon
  <2>4. \A i \in 1 .. n + 1 : Append(q, f)[i].n = current[c] + i
    BY <1>3, <1>4, <2>1, <2>2, <2>3
  <2>5. current'[c] = current[c]
    BY <1>1
  <2>6. Numbered(c)' /\ current'[c] + Len(inbox'[c]) = sent'[c]
    BY <1>3, <1>5, <2>3, <2>4, <2>5 DEF Numbered
  <2>7. RepliedSoFar(c)' /\ KnownSoFar(c)' /\ (link'[c] = "none" => task'[c] = "none")
    BY <1>1, <1>2 DEF Client, RepliedSoFar, KnownSoFar, exchangeVars
  <2> QED
    BY <2>6, <2>7 DEF Client
<1>9. \A d \in Clients \ {c} : Client(d)'
  <2> SUFFICES ASSUME NEW d \in Clients \ {c} PROVE Client(d)'
    OBVIOUS
  <2>1. current[d] \in 0 .. MaxFrames /\ Client(d)
    BY DEF IInv, TypeOK
  <2> QED
    BY <1>1, <1>5, <2>1, Untouched DEF exchangeVars
<1>10. Simulated
  BY <1>1, Unseen DEF exchangeVars
<1> QED
  BY <1>6, <1>7, <1>8, <1>9, <1>10 DEF Keeps, IInv

-----------------------------------------------------------------------------
(* A frame is read.                                                        *)

\* The frame that is read is the next one, and nothing is known of it yet.
LEMMA NextFrame ==
  ASSUME IInv, NEW c \in Clients, ReadFrame(c),
         NEW n, n = current[c] + 1
  PROVE  /\ n \in Numbers /\ n \in 0 .. MaxFrames /\ Head(inbox[c]).n = n
         /\ task[c] = "reading" /\ link[c] # "none"
         /\ current' = [current EXCEPT ![c] = n]
         /\ inbox' = [inbox EXCEPT ![c] = Tail(inbox[c])]
         /\ inbox' \in [Clients -> Seq([n : Numbers, kind : FrameKinds])]
         /\ current' \in [Clients -> 0 .. MaxFrames]
         /\ UNCHANGED <<sent, link, controlVars>>
         /\ Numbered(c)' /\ current'[c] + Len(inbox'[c]) = sent'[c]
         /\ \A m \in Numbers : future[X(c, m)] # "none" => m < n
         /\ \A i \in DOMAIN replies[c] : replies[c][i].n < n
         /\ future[X(c, n)] = "none" /\ X(c, n) \notin Offered
<1> DEFINE q == inbox[c]
           F == [n : Numbers, kind : FrameKinds]
<1>1. /\ task[c] = "reading" /\ q # <<>>
      /\ inbox' = [inbox EXCEPT ![c] = Tail(q)]
      /\ current' = [current EXCEPT ![c] = Head(q).n]
      /\ UNCHANGED <<sent, link, controlVars>>
  BY DEF ReadFrame, Send
<1>2. /\ TypeOK /\ Client(c) /\ sent[c] \in 0 .. MaxFrames /\ current[c] \in 0 .. MaxFrames
      /\ q \in Seq(F) /\ inbox \in [Clients -> Seq(F)] /\ current \in [Clients -> 0 .. MaxFrames]
  BY DEF IInv, TypeOK
<1>3. /\ Tail(q) \in Seq(F) /\ Len(q) \in Nat /\ Len(q) > 0
      /\ Len(Tail(q)) = Len(q) - 1 /\ Head(q) = q[1] /\ DOMAIN q = 1 .. Len(q)
      /\ DOMAIN Tail(q) = 1 .. Len(q) - 1
      /\ \A i \in 1 .. Len(q) - 1 : Tail(q)[i] = q[i + 1]
  BY <1>1, <1>2
<1>4. q[1] \in F /\ q[1].n \in Numbers
  <2>1. q[1] \in F
    <3>1. 1 \in DOMAIN q
      BY <1>3
    <3> QED
      BY <1>2, <3>1, SeqElement, Zenon
  <2> QED
    BY <2>1
<1>5. \A i \in 1 .. Len(q) : q[i].n = current[c] + i
  BY <1>2, <1>3 DEF Client, Numbered
<1>6. 1 \in 1 .. Len(q) /\ \A i \in 1 .. Len(q) - 1 : i + 1 \in 1 .. Len(q)
  BY <1>3
<1> HIDE DEF q, F
<1>7. Head(q).n = n
  BY <1>3, <1>5, <1>6
<1>8. n \in Numbers /\ n \in 0 .. MaxFrames
  <2>1. n \in Numbers
    BY <1>3, <1>4, <1>7
  <2> QED
    BY <2>1, MaxFramesAssumption DEF Numbers
<1>9. /\ current' = [current EXCEPT ![c] = n] /\ current'[c] = n
      /\ current' \in [Clients -> 0 .. MaxFrames]
      /\ inbox'[c] = Tail(q) /\ inbox' \in [Clients -> Seq(F)]
  BY <1>1, <1>2, <1>3, <1>7, <1>8
<1>10. current[c] \in Nat /\ sent[c] \in Nat /\ n \in Nat
  BY <1>2, <1>8, MaxFramesAssumption
<1>11. Numbered(c)'
  <2> SUFFICES ASSUME NEW i \in 1 .. Len(q) - 1 PROVE Tail(q)[i].n = n + i
    BY <1>3, <1>9 DEF Numbered
  <2>1. Tail(q)[i] = q[i + 1] /\ q[i + 1].n = current[c] + (i + 1)
    BY <1>3, <1>5, <1>6
  <2>2. \A a, b \in Nat : a + (b + 1) = (a + 1) + b
    OBVIOUS
  <2>3. i \in Nat
    BY <1>3
  <2> QED
    BY <2>1, <2>2, <2>3, <1>10
<1>12. current'[c] + Len(inbox'[c]) = sent'[c]
  <2>1. current[c] + Len(q) = sent[c]
    BY <1>2 DEF Client, q
  <2>2. \A a \in Nat, b \in Nat : (a + 1) + (b - 1) = a + b
    OBVIOUS
  <2>3. current'[c] + Len(inbox'[c]) = (current[c] + 1) + (Len(q) - 1)
    BY <1>3, <1>9
  <2> QED
    BY <1>1, <1>3, <1>10, <2>1, <2>2, <2>3
<1>13. \A m \in Numbers : future[X(c, m)] # "none" => m < n
  <2>1. \A m \in Numbers : future[X(c, m)] # "none" => m <= current[c]
    BY <1>2 DEF Client, KnownSoFar
  <2>2. \A m \in Numbers : m <= current[c] => m < n
    BY <1>10, NumbersAre
  <2> QED
    BY <2>1, <2>2
<1>14. \A i \in DOMAIN replies[c] : replies[c][i].n < n
  <2> SUFFICES ASSUME NEW i \in DOMAIN replies[c] PROVE replies[c][i].n < n
    OBVIOUS
  <2>1. replies[c] \in Seq([n : Numbers, reply :
       {"accept", "reject", "refused", "handler_error", "invalid_handler_result"}])
    BY <1>2 DEF TypeOK
  <2>2. replies[c][i] \in [n : Numbers, reply :
       {"accept", "reject", "refused", "handler_error", "invalid_handler_result"}]
    BY <2>1, SeqElement, Zenon
  <2>3. replies[c][i].n \in Nat
    BY <2>2, NumbersAre
  <2>4. replies[c][i].n <= current[c]
    BY <1>2 DEF Client, RepliedSoFar
  <2> QED
    BY <1>10, <2>3, <2>4
<1>15. future[X(c, n)] = "none"
  BY <1>8, <1>10, <1>13
<1>16. X(c, n) \notin Offered
  BY <1>15 DEF IInv, Kept
<1>17. link[c] # "none"
  BY <1>1, <1>2 DEF Client
<1>18. inbox' = [inbox EXCEPT ![c] = Tail(inbox[c])]
  BY <1>1 DEF q
<1>19. inbox' \in [Clients -> Seq([n : Numbers, kind : FrameKinds])]
  BY <1>9 DEF F
<1>20. Head(inbox[c]).n = n /\ task[c] = "reading" /\ UNCHANGED <<sent, link, controlVars>>
  BY <1>1, <1>7 DEF q
<1> QED
  BY <1>8, <1>9, <1>11, <1>12, <1>13, <1>14, <1>15, <1>16, <1>17, <1>18, <1>19, <1>20

ReplyRecords == [n : Numbers, reply :
  {"accept", "reject", "refused", "handler_error", "invalid_handler_result"}]

Told(c, n, reply) == [replies EXCEPT ![c] = Append(@, [n |-> n, reply |-> reply])]

\* A reply is sent after every earlier one, or the handler leaves.
LEMMA SendFacts ==
  ASSUME TypeOK, NEW c \in Clients, NEW n \in Numbers,
         NEW reply \in {"accept", "reject", "refused", "handler_error", "invalid_handler_result"},
         \A i \in DOMAIN replies[c] : replies[c][i].n < n,
         Send(c, n, reply)
  PROVE  /\ replies' \in [Clients -> Seq(ReplyRecords)]
         /\ \A d \in Clients : d # c => replies'[d] = replies[d]
         /\ \A i \in DOMAIN replies'[c] : replies'[c][i].n <= n
         /\ replies' = replies \/ replies' = Told(c, n, reply)
         /\ \E t \in {"reading", "leaving"} : task' = [task EXCEPT ![c] = t]
<1> DEFINE r == [n |-> n, reply |-> reply]
           q == replies[c]
<1>1. replies \in [Clients -> Seq(ReplyRecords)] /\ q \in Seq(ReplyRecords)
  BY DEF TypeOK, ReplyRecords
<1>2. r \in ReplyRecords /\ r.n = n
  BY DEF ReplyRecords
<1>3. /\ Append(q, r) \in Seq(ReplyRecords) /\ Len(q) \in Nat /\ DOMAIN q = 1 .. Len(q)
      /\ DOMAIN Append(q, r) = 1 .. Len(q) + 1
      /\ Append(q, r)[Len(q) + 1] = r /\ \A i \in 1 .. Len(q) : Append(q, r)[i] = q[i]
  BY <1>1, <1>2
<1>4. n \in Nat /\ \A i \in DOMAIN q : q[i].n <= n
  <2> SUFFICES ASSUME NEW i \in DOMAIN q PROVE n \in Nat /\ q[i].n <= n
    BY NumbersAre
  <2>1. q[i] \in ReplyRecords
    BY <1>1, SeqElement, Zenon
  <2>2. q[i].n \in Nat /\ n \in Nat
    BY <2>1, NumbersAre DEF ReplyRecords
  <2> QED
    BY <2>2
<1>5. \/ replies' = replies /\ \E t \in {"reading", "leaving"} : task' = [task EXCEPT ![c] = t]
      \/ /\ replies' = [replies EXCEPT ![c] = Append(q, r)]
         /\ \E t \in {"reading", "leaving"} : task' = [task EXCEPT ![c] = t]
  BY DEF Send
<1> HIDE DEF r, q
<1>6. CASE replies' = replies
  BY <1>1, <1>4, <1>5, <1>6 DEF q
<1>7. CASE replies' = [replies EXCEPT ![c] = Append(q, r)]
  <2>1. replies' \in [Clients -> Seq(ReplyRecords)] /\ replies'[c] = Append(q, r)
    BY <1>1, <1>3, <1>7
  <2>2. \A d \in Clients : d # c => replies'[d] = replies[d]
    BY <1>1, <1>7
  <2>3. \A i \in 1 .. Len(q) + 1 : i \in 1 .. Len(q) \/ i = Len(q) + 1
    BY <1>3
  <2>4. \A i \in DOMAIN replies'[c] : replies'[c][i].n <= n
    <3>1. n <= n
      BY <1>4
    <3> QED
      BY <1>2, <1>3, <1>4, <2>1, <2>3, <3>1
  <2>5. replies' = Told(c, n, reply)
    BY <1>7 DEF q, r, Told
  <2> QED
    BY <1>5, <2>1, <2>2, <2>4, <2>5
<1> QED
  BY <1>5, <1>6, <1>7

\* A frame that is no dictation: the client is told so, or the handler leaves.
LEMMA ReadOtherKeeps ==
  ASSUME IInv, NEW c \in Clients, ReadFrame(c), Head(inbox[c]).kind # "dictation"
  PROVE  Keeps
<1> DEFINE n == current[c] + 1
<1>1. /\ n \in Numbers /\ n \in 0 .. MaxFrames /\ Head(inbox[c]).n = n
      /\ task[c] = "reading" /\ link[c] # "none"
      /\ current' = [current EXCEPT ![c] = n]
      /\ inbox' = [inbox EXCEPT ![c] = Tail(inbox[c])]
      /\ inbox' \in [Clients -> Seq([n : Numbers, kind : FrameKinds])]
      /\ current' \in [Clients -> 0 .. MaxFrames]
      /\ UNCHANGED <<sent, link, controlVars>>
      /\ Numbered(c)' /\ current'[c] + Len(inbox'[c]) = sent'[c]
      /\ \A m \in Numbers : future[X(c, m)] # "none" => m < n
      /\ \A i \in DOMAIN replies[c] : replies[c][i].n < n
      /\ future[X(c, n)] = "none" /\ X(c, n) \notin Offered
  BY NextFrame
<1>2. /\ TypeOK /\ Client(c)
      /\ replies \in [Clients -> Seq(ReplyRecords)]
      /\ task \in [Clients -> {"none", "reading", "awaiting", "leaving", "done"}]
      /\ current \in [Clients -> 0 .. MaxFrames] /\ inbox \in [Clients -> Seq([n : Numbers, kind : FrameKinds])]
  BY DEF IInv, TypeOK, ReplyRecords
<1>3. /\ UNCHANGED exchangeVars
      /\ \/ Send(c, n, "refused")
         \/ task' = [task EXCEPT ![c] = "leaving"] /\ UNCHANGED replies
  BY <1>1 DEF ReadFrame
<1> HIDE DEF n
<1>4. /\ replies' \in [Clients -> Seq(ReplyRecords)]
      /\ \A d \in Clients : d # c => replies'[d] = replies[d]
      /\ \A i \in DOMAIN replies'[c] : replies'[c][i].n <= n
      /\ replies' = replies \/ replies' = Told(c, n, "refused")
      /\ \E t \in {"reading", "leaving"} : task' = [task EXCEPT ![c] = t]
  <2>1. CASE Send(c, n, "refused")
    BY <1>1, <1>2, <2>1, SendFacts
  <2>2. CASE task' = [task EXCEPT ![c] = "leaving"] /\ UNCHANGED replies
    <3> SUFFICES ASSUME NEW i \in DOMAIN replies[c] PROVE replies[c][i].n <= n
      BY <1>2, <2>2
    <3>1. replies[c][i] \in ReplyRecords
      BY <1>2, SeqElement, Zenon
    <3>2. replies[c][i].n \in Nat /\ n \in Nat /\ replies[c][i].n < n
      BY <3>1, <1>1, NumbersAre DEF ReplyRecords
    <3> QED
      BY <3>2
  <2> QED
    BY <1>3, <2>1, <2>2
<1>5. TypeOK'
  <2>1. task' \in [Clients -> {"none", "reading", "awaiting", "leaving", "done"}]
    BY <1>2, <1>4
  <2>2. UNCHANGED <<future, queue, held, pending, late, mode, server>>
    BY <1>1, <1>3 DEF exchangeVars, controlVars
  <2> QED
    BY <1>1, <1>2, <1>4, <2>1, <2>2 DEF TypeOK, ReplyRecords
<1>6. /\ task[c] # "awaiting" /\ task'[c] \in {"reading", "leaving"}
      /\ \A d \in Clients : d # c => task'[d] = task[d] /\ current'[d] = current[d] /\ inbox'[d] = inbox[d]
  BY <1>1, <1>2, <1>4
<1>7. Kept'
  <2>1. Awaited' = Awaited
    <3> SUFFICES ASSUME NEW x \in Exchanges
                 PROVE  task'[x.c] = "awaiting" /\ current'[x.c] = x.n <=>
                        task[x.c] = "awaiting" /\ current[x.c] = x.n
      BY DEF Awaited
    <3> QED
      BY <1>6, ExchangeFacts
  <2> QED
    BY <1>1, <1>3, <2>1 DEF IInv, Kept, Offered, exchangeVars, controlVars
<1>8. Client(c)'
  <2>1. current'[c] = n /\ n \in Nat
    BY <1>1, <1>2, NumbersAre
  <2>2. RepliedSoFar(c)'
    BY <1>4, <1>6, <2>1 DEF RepliedSoFar
  <2>3. KnownSoFar(c)'
    <3>1. \A m \in Numbers : future'[X(c, m)] # "none" => m <= current'[c]
      <4>1. \A m \in Numbers : m < n => m <= n
        BY <2>1, NumbersAre
      <4> QED
        BY <1>1, <1>3, <2>1, <4>1 DEF exchangeVars
    <3>2. \A m \in Numbers : future'[X(c, m)] # "pending"
      BY <1>2, <1>3, <1>6 DEF exchangeVars, Client, KnownSoFar
    <3> QED
      BY <1>6, <3>1, <3>2 DEF KnownSoFar
  <2> QED
    BY <1>1, <2>2, <2>3 DEF Client
<1>9. \A d \in Clients \ {c} : Client(d)'
  <2> SUFFICES ASSUME NEW d \in Clients \ {c} PROVE Client(d)'
    OBVIOUS
  <2>1. current[d] \in 0 .. MaxFrames /\ Client(d)
    BY DEF IInv, TypeOK
  <2> QED
    BY <1>1, <1>3, <1>4, <1>6, <2>1, Untouched DEF exchangeVars
<1>10. Simulated
  <2>1. UNCHANGED <<Asked, Decided>>
    BY <1>3 DEF Asked, Decided, exchangeVars
  <2>2. n \notin Asked[c]
    BY <1>1 DEF Asked, X
  <2>3. A!Refuse(c, n) \/ UNCHANGED replies
    BY <1>1, <1>4, <2>1, <2>2 DEF A!Refuse, Told
  <2> QED
    BY <1>1, <2>1, <2>3 DEF Simulated, A!Next, A!answeringVars
<1> QED
  BY <1>5, <1>7, <1>8, <1>9, <1>10 DEF Keeps, IInv

\* A dictation: the application gets an exchange, and the handler waits.
LEMMA ReadDictationKeeps ==
  ASSUME IInv, NEW c \in Clients, ReadFrame(c), Head(inbox[c]).kind = "dictation"
  PROVE  Keeps
<1> DEFINE n == current[c] + 1
           x == X(c, n)
<1>1. /\ n \in Numbers /\ n \in 0 .. MaxFrames /\ Head(inbox[c]).n = n
      /\ task[c] = "reading" /\ link[c] # "none"
      /\ current' = [current EXCEPT ![c] = n]
      /\ inbox' = [inbox EXCEPT ![c] = Tail(inbox[c])]
      /\ inbox' \in [Clients -> Seq([n : Numbers, kind : FrameKinds])]
      /\ current' \in [Clients -> 0 .. MaxFrames]
      /\ UNCHANGED <<sent, link, controlVars>>
      /\ Numbered(c)' /\ current'[c] + Len(inbox'[c]) = sent'[c]
      /\ \A m \in Numbers : future[X(c, m)] # "none" => m < n
      /\ \A i \in DOMAIN replies[c] : replies[c][i].n < n
      /\ future[x] = "none" /\ x \notin Offered
  BY NextFrame
<1>2. /\ TypeOK /\ Client(c) /\ Kept
      /\ task \in [Clients -> {"none", "reading", "awaiting", "leaving", "done"}]
      /\ current \in [Clients -> 0 .. MaxFrames] /\ inbox \in [Clients -> Seq([n : Numbers, kind : FrameKinds])]
      /\ future \in [Exchanges -> {"none", "pending", "cancelled"} \cup Answers]
      /\ mode \in Modes /\ mode \in {"iterator", "callback"}
      /\ queue \in Seq(Exchanges) /\ IsInjective(queue)
  BY ModesAssumption DEF IInv, TypeOK, Kept
<1>3. Exchange(x) /\ task' = [task EXCEPT ![c] = "awaiting"] /\ UNCHANGED replies
  BY <1>1 DEF ReadFrame, X
<1>4. x \in Exchanges /\ x.c = c /\ x.n = n /\ n \in Nat
  BY <1>1, ExchangeFacts, NumbersAre
<1> HIDE DEF n, x
<1>5. /\ future' = [future EXCEPT ![x] = "pending"]
      /\ \/ mode = "iterator" /\ queue' = Append(queue, x) /\ pending' = pending \cup {x} /\ held' = held
         \/ mode = "callback" /\ held' = held \cup {x} /\ queue' = queue /\ pending' = pending
      /\ late' = late \/ late' = late \cup {x}
      /\ mode' = mode /\ server' = server
  BY <1>1, <1>2, <1>3 DEF Exchange, controlVars
<1>6. /\ queue' \in Seq(Exchanges) /\ IsInjective(queue')
      /\ \/ ToSet(queue') = ToSet(queue) \cup {x} /\ held' = held
         \/ ToSet(queue') = ToSet(queue) /\ held' = held \cup {x}
  <2>1. x \notin ToSet(queue)
    BY <1>1 DEF Offered
  <2>2. CASE queue' = Append(queue, x) /\ held' = held
    BY <1>2, <1>4, <2>1, <2>2, QueueGrows
  <2>3. CASE queue' = queue /\ held' = held \cup {x}
    BY <1>2, <2>3
  <2> QED
    BY <1>5, <2>2, <2>3
<1>7. /\ future'[x] = "pending" /\ \A y \in Exchanges : y # x => future'[y] = future[y]
      /\ task'[c] = "awaiting" /\ current'[c] = n
      /\ \A d \in Clients : d # c => task'[d] = task[d] /\ current'[d] = current[d] /\ inbox'[d] = inbox[d]
  BY <1>1, <1>2, <1>3, <1>4, <1>5
<1>8. TypeOK'
  <2>1. task' \in [Clients -> {"none", "reading", "awaiting", "leaving", "done"}]
    BY <1>2, <1>3
  <2>2. future' \in [Exchanges -> {"none", "pending", "cancelled"} \cup Answers]
    BY <1>2, <1>5
  <2>3. held' \subseteq Exchanges /\ pending' \subseteq Exchanges /\ late' \subseteq Exchanges
    BY <1>2, <1>4, <1>5 DEF TypeOK
  <2>4. sent' = sent /\ link' = link /\ mode' = mode /\ server' = server /\ replies' = replies
    BY <1>1, <1>3 DEF controlVars
  <2> QED
    BY <1>1, <1>2, <1>6, <2>1, <2>2, <2>3, <2>4 DEF TypeOK
<1>9. Kept'
  <2>1. Offered' = Offered \cup {x}
    BY <1>6 DEF Offered
  <2>2. ToSet(queue') \cap held' = {}
    BY <1>1, <1>2, <1>6 DEF Kept, Offered
  <2>3. \A y \in Exchanges : future'[y] = "pending" => y \in Offered'
    BY <1>2, <1>7, <2>1 DEF Kept
  <2>4. \A y \in Offered' : future'[y] # "none"
    <3>1. Offered \subseteq Exchanges
      BY <1>2, SetOfSequence DEF Offered, TypeOK
    <3> QED
      BY <1>2, <1>7, <2>1, <3>1 DEF Kept
  <2>5. Awaited' = Awaited \cup {x}
    <3> SUFFICES ASSUME NEW y \in Exchanges
                 PROVE  task'[y.c] = "awaiting" /\ current'[y.c] = y.n <=>
                        y = x \/ (task[y.c] = "awaiting" /\ current[y.c] = y.n)
      BY <1>4 DEF Awaited
    <3>1. CASE y.c = c
      <4>1. y = x <=> y.n = n
        BY <3>1, <1>4, ExchangeFacts
      <4> QED
        BY <3>1, <1>1, <1>7, <4>1
    <3>2. CASE y.c # c
      BY <3>2, <1>4, <1>7, ExchangeFacts
    <3> QED
      BY <3>1, <3>2
  <2>6. (mode' = "iterator" => pending' = Awaited') /\ (mode' = "callback" => pending' = {})
    BY <1>2, <1>5, <2>5 DEF Kept
  <2> QED
    BY <1>6, <2>2, <2>3, <2>4, <2>6 DEF Kept
<1>10. Client(c)'
  <2>1. RepliedSoFar(c)'
    <3> SUFFICES ASSUME NEW i \in DOMAIN replies[c]
                 PROVE  replies[c][i].n <= n /\ replies[c][i].n < n
      BY <1>3, <1>7 DEF RepliedSoFar
    <3>1. replies[c] \in Seq(ReplyRecords)
      BY <1>2 DEF TypeOK, ReplyRecords
    <3>2. replies[c][i] \in ReplyRecords
      BY <3>1, SeqElement, Zenon
    <3>3. replies[c][i].n \in Nat /\ replies[c][i].n < n
      BY <3>2, <1>1, NumbersAre DEF ReplyRecords
    <3> QED
      BY <1>4, <3>3
  <2>2. \A m \in Numbers : m # n => future'[X(c, m)] = future[X(c, m)]
    BY <1>4, <1>7, ExchangeFacts DEF x
  <2>3. KnownSoFar(c)'
    <3>1. \A m \in Numbers : future'[X(c, m)] # "none" => m <= n
      <4>1. \A m \in Numbers : m < n \/ m = n => m <= n
        BY <1>4, NumbersAre
      <4> QED
        BY <1>1, <2>2, <4>1
    <3>2. \A m \in Numbers : future'[X(c, m)] = "pending" => m = n
      BY <1>1, <1>2, <2>2 DEF Client, KnownSoFar
    <3>3. n > 0
      BY <1>1, MaxFramesAssumption DEF Numbers
    <3>4. future'[X(c, n)] # "none"
      BY <1>7 DEF x
    <3> QED
      BY <1>7, <3>1, <3>2, <3>3, <3>4 DEF KnownSoFar
  <2> QED
    BY <1>1, <2>1, <2>3 DEF Client
<1>11. \A d \in Clients \ {c} : Client(d)'
  <2> SUFFICES ASSUME NEW d \in Clients \ {c} PROVE Client(d)'
    OBVIOUS
  <2>1. current[d] \in 0 .. MaxFrames /\ Client(d)
    BY DEF IInv, TypeOK
  <2>2. \A m \in Numbers : future'[X(d, m)] = future[X(d, m)]
    BY <1>4, <1>7, ExchangeFacts
  <2> QED
    BY <1>1, <1>3, <1>7, <2>1, <2>2, Untouched
<1>12. Simulated
  <2>1. Decided' = Decided
    <3>1. \A d \in Clients, m \in Numbers :
            (IF future'[X(d, m)] = "pending" THEN "none" ELSE future'[X(d, m)]) =
            (IF future[X(d, m)] = "pending" THEN "none" ELSE future[X(d, m)])
      BY <1>1, <1>7, ExchangeFacts
    <3> QED
      BY <3>1, Zenon DEF Decided, X
  <2>2. \A d \in Clients :
          {m \in Numbers : future'[X(d, m)] # "none"} =
          IF d = c THEN {m \in Numbers : future[X(d, m)] # "none"} \cup {n}
                   ELSE {m \in Numbers : future[X(d, m)] # "none"}
    <3>1. \A d \in Clients, m \in Numbers :
            future'[X(d, m)] # "none" <=> future[X(d, m)] # "none" \/ (d = c /\ m = n)
      BY <1>1, <1>4, <1>7, ExchangeFacts DEF x
    <3> QED
      BY <1>1, <3>1
  <2>3. Asked' = [Asked EXCEPT ![c] = @ \cup {n}]
    BY <2>2 DEF Asked, X
  <2>4. \A m \in Asked[c] : m < n
    BY <1>1 DEF Asked, X
  <2>5. A!Ask(c, n)
    BY <1>3, <2>1, <2>3, <2>4 DEF A!Ask
  <2> QED
    BY <1>1, <2>5 DEF Simulated, A!Next
<1> QED
  BY <1>8, <1>9, <1>10, <1>11, <1>12 DEF Keeps, IInv

-----------------------------------------------------------------------------
(* The application answers.                                                *)

LEMMA ReplyIsKnown ==
  ASSUME NEW a
  PROVE  Reply(a) \in {"accept", "reject", "refused", "handler_error", "invalid_handler_result"}
BY DEF Reply

\* The handler gets its answer: the client is told, or nothing is.
LEMMA ResumeKeeps ==
  ASSUME IInv, NEW c \in Clients, Resume(c)
  PROVE  Keeps
<1> DEFINE n == current[c]
           x == X(c, n)
<1>1. /\ task[c] = "awaiting" /\ future[x] # "pending"
      /\ pending' = pending \ {x}
      /\ \/ future[x] = "cancelled" /\ task' = [task EXCEPT ![c] = "done"] /\ replies' = replies
         \/ future[x] # "cancelled" /\ Send(c, n, Reply(future[x]))
      /\ UNCHANGED <<inbox, sent, link, current, future, queue, held, late, controlVars>>
  BY ExchangeFacts DEF Resume, Discarded, X
<1>2. /\ TypeOK /\ Client(c) /\ Kept
      /\ task \in [Clients -> {"none", "reading", "awaiting", "leaving", "done"}]
      /\ replies \in [Clients -> Seq(ReplyRecords)]
      /\ current \in [Clients -> 0 .. MaxFrames]
      /\ future \in [Exchanges -> {"none", "pending", "cancelled"} \cup Answers]
  BY DEF IInv, TypeOK, ReplyRecords
<1>3. n > 0 /\ n \in Numbers /\ future[x] # "none" /\ x \in Exchanges /\ x.c = c /\ x.n = n
  <2>1. n > 0 /\ future[x] # "none"
    BY <1>1, <1>2 DEF Client, KnownSoFar
  <2>2. n \in Numbers
    BY <1>2, <2>1, NumbersAre
  <2> QED
    BY <2>1, <2>2, ExchangeFacts
<1>4. \A i \in DOMAIN replies[c] : replies[c][i].n < n
  BY <1>1, <1>2 DEF Client, RepliedSoFar
<1> HIDE DEF n, x
<1>5. /\ replies' \in [Clients -> Seq(ReplyRecords)]
      /\ \A d \in Clients : d # c => replies'[d] = replies[d]
      /\ \A i \in DOMAIN replies'[c] : replies'[c][i].n <= n
      /\ \/ replies' = replies
         \/ future[x] # "cancelled" /\ replies' = Told(c, n, Reply(future[x]))
      /\ \E t \in {"reading", "leaving", "done"} : task' = [task EXCEPT ![c] = t]
  <2>1. CASE future[x] # "cancelled" /\ Send(c, n, Reply(future[x]))
    <3> DEFINE r == Reply(future[x])
    <3>1. /\ r \in {"accept", "reject", "refused", "handler_error", "invalid_handler_result"}
          /\ Send(c, n, r)
      BY <2>1, ReplyIsKnown
    <3> HIDE DEF r
    <3>2. /\ replies' \in [Clients -> Seq(ReplyRecords)]
          /\ \A d \in Clients : d # c => replies'[d] = replies[d]
          /\ \A i \in DOMAIN replies'[c] : replies'[c][i].n <= n
          /\ replies' = replies \/ replies' = Told(c, n, r)
          /\ \E t \in {"reading", "leaving"} : task' = [task EXCEPT ![c] = t]
      BY <1>2, <1>3, <1>4, <3>1, SendFacts
    <3> QED
      BY <2>1, <3>2 DEF r
  <2>2. CASE task' = [task EXCEPT ![c] = "done"] /\ replies' = replies
    <3> SUFFICES ASSUME NEW i \in DOMAIN replies[c] PROVE replies[c][i].n <= n
      BY <1>2, <2>2
    <3> QED
      BY <1>2 DEF Client, RepliedSoFar, n
  <2> QED
    BY <1>1, <2>1, <2>2
<1>6. /\ task'[c] \in {"reading", "leaving", "done"}
      /\ \A d \in Clients : d # c => task'[d] = task[d]
  BY <1>2, <1>5
<1>7. TypeOK'
  <2>1. task' \in [Clients -> {"none", "reading", "awaiting", "leaving", "done"}]
    BY <1>2, <1>5
  <2>2. pending' \subseteq Exchanges
    BY <1>1, <1>2 DEF TypeOK
  <2> QED
    BY <1>1, <1>2, <1>5, <2>1, <2>2 DEF TypeOK, ReplyRecords, controlVars
<1>8. Kept'
  <2>1. Awaited' = Awaited \ {x}
    <3> SUFFICES ASSUME NEW y \in Exchanges
                 PROVE  task'[y.c] = "awaiting" /\ current[y.c] = y.n <=>
                        y # x /\ task[y.c] = "awaiting" /\ current[y.c] = y.n
      BY <1>1 DEF Awaited
    <3>1. CASE y.c = c
      <4>1. y = x <=> y.n = n
        BY <3>1, <1>3, ExchangeFacts
      <4> QED
        BY <3>1, <1>6, <4>1 DEF n
    <3>2. CASE y.c # c
      BY <3>2, <1>3, <1>6, ExchangeFacts
    <3> QED
      BY <3>1, <3>2
  <2> QED
    BY <1>1, <1>2, <2>1 DEF Kept, Offered, controlVars
<1>9. Client(c)'
  <2>1. current'[c] = n
    BY <1>1 DEF n
  <2>2. RepliedSoFar(c)'
    BY <1>5, <1>6, <2>1 DEF RepliedSoFar
  <2>3. \A m \in Numbers : future[X(c, m)] # "pending"
    BY <1>1, <1>2 DEF Client, KnownSoFar, n, x
  <2>4. KnownSoFar(c)'
    BY <1>1, <1>2, <1>6, <2>3 DEF Client, KnownSoFar
  <2>5. link'[c] # "none"
    BY <1>1, <1>2 DEF Client
  <2>6. Numbered(c)' /\ current'[c] + Len(inbox'[c]) = sent'[c]
    BY <1>1, <1>2 DEF Client, Numbered
  <2> QED
    BY <2>2, <2>4, <2>5, <2>6 DEF Client
<1>10. \A d \in Clients \ {c} : Client(d)'
  <2> SUFFICES ASSUME NEW d \in Clients \ {c} PROVE Client(d)'
    OBVIOUS
  <2>1. current[d] \in 0 .. MaxFrames /\ Client(d)
    BY DEF IInv, TypeOK
  <2> QED
    BY <1>1, <1>5, <1>6, <2>1, Untouched
<1>11. Simulated
  <2>1. UNCHANGED <<Asked, Decided>>
    BY <1>1 DEF Asked, Decided
  <2>2. ASSUME future[x] # "cancelled" PROVE Decided[c][n] = future[x] /\ future[x] \in Answers
    <3>1. future[x] \in Answers
      BY <1>1, <1>2, <1>3, <2>2
    <3>2. Decided[c][n] = future[x]
      BY <1>1, <1>3 DEF Decided, x, X
    <3> QED
      BY <3>1, <3>2
  <2>3. CASE replies' = replies
    BY <2>1, <2>3 DEF Simulated, A!answeringVars
  <2>4. CASE future[x] # "cancelled" /\ replies' = Told(c, n, Reply(future[x]))
    <3>1. A!Tell(c, n)
      BY <1>4, <2>1, <2>2, <2>4 DEF A!Tell, Told
    <3> QED
      BY <1>3, <3>1 DEF Simulated, A!Next
  <2> QED
    BY <1>5, <2>3, <2>4
<1> QED
  BY <1>7, <1>8, <1>9, <1>10, <1>11 DEF Keeps, IInv

\* The application takes an exchange from the queue.
LEMMA TakeKeeps ==
  ASSUME IInv, Take
  PROVE  Keeps
<1>1. /\ queue # <<>> /\ held' = held \cup {Head(queue)} /\ queue' = Tail(queue)
      /\ UNCHANGED <<inbox, sent, link, task, current, replies, future, pending, late, mode, server>>
  BY DEF Take, connectionVars, controlVars
<1>2. /\ TypeOK /\ Kept /\ queue \in Seq(Exchanges) /\ IsInjective(queue)
  BY DEF IInv, TypeOK, Kept
<1>3. /\ Tail(queue) \in Seq(Exchanges) /\ Head(queue) \in ToSet(queue)
      /\ ToSet(Tail(queue)) = ToSet(queue) \ {Head(queue)} /\ IsInjective(Tail(queue))
  BY <1>1, <1>2, QueueShrinks
<1>4. /\ queue' \in Seq(Exchanges) /\ IsInjective(queue')
      /\ ToSet(queue') = ToSet(queue) \ {Head(queue)} /\ Head(queue) \in Exchanges
  <2>1. ToSet(queue) \subseteq Exchanges
    BY <1>2, SetOfSequence
  <2> QED
    BY <1>1, <1>3, <2>1
<1>5. TypeOK'
  BY <1>1, <1>2, <1>4 DEF TypeOK
<1>6. Kept'
  <2>1. Offered' = Offered /\ ToSet(queue') \cap held' = {}
    BY <1>1, <1>2, <1>3, <1>4 DEF Offered, Kept
  <2>2. Awaited' = Awaited
    BY <1>1 DEF Awaited
  <2> QED
    BY <1>1, <1>2, <1>4, <2>1, <2>2 DEF Kept
<1>7. \A c \in Clients : Client(c)'
  BY <1>1 DEF IInv, Client, Numbered, RepliedSoFar, KnownSoFar
<1>8. Simulated
  BY <1>1, Unseen
<1> QED
  BY <1>5, <1>6, <1>7, <1>8 DEF Keeps, IInv

LEMMA NestedExcept ==
  ASSUME NEW S, NEW T, NEW f, f = [a \in S |-> [b \in T |-> f[a][b]]],
         NEW s \in S, NEW t \in T, NEW v
  PROVE  [f EXCEPT ![s][t] = v] =
           [a \in S |-> [b \in T |-> IF a = s /\ b = t THEN v ELSE f[a][b]]]
<1>1. f[s] = [b \in T |-> f[s][b]]
  OBVIOUS
<1>2. [f[s] EXCEPT ![t] = v] = [b \in T |-> IF b = t THEN v ELSE f[s][b]]
  BY <1>1
<1>3. [f EXCEPT ![s][t] = v] = [f EXCEPT ![s] = [f[s] EXCEPT ![t] = v]]
  OBVIOUS
<1>4. \A a \in S : a # s => f[a] = [b \in T |-> IF a = s /\ b = t THEN v ELSE f[a][b]]
  OBVIOUS
<1>5. f[s] = [b \in T |-> f[s][b]]
  OBVIOUS
<1> QED
  BY <1>2, <1>3, <1>4

\* Only the future of x changes, from pending to an answer.
LEMMA RespondKeeps ==
  ASSUME IInv, NEW x \in held, NEW a \in Answers, Respond(x, a)
  PROVE  Keeps
<1>1. /\ future[x] = "pending" /\ future' = [future EXCEPT ![x] = a]
      /\ UNCHANGED <<inbox, sent, link, task, current, replies, queue, held, pending, late, mode, server>>
  BY DEF Respond, Unresolved, connectionVars, controlVars
<1>2. /\ TypeOK /\ Kept /\ x \in Exchanges
      /\ future \in [Exchanges -> {"none", "pending", "cancelled"} \cup Answers]
      /\ a # "none" /\ a # "pending"
  BY AnswersAssumption DEF IInv, TypeOK
<1>3. /\ future' \in [Exchanges -> {"none", "pending", "cancelled"} \cup Answers]
      /\ future'[x] = a /\ \A y \in Exchanges : y # x => future'[y] = future[y]
  BY <1>1, <1>2
<1>4. x.c \in Clients /\ x.n \in Numbers /\ x = X(x.c, x.n)
  BY <1>2, ExchangeFacts
<1>5. TypeOK'
  BY <1>1, <1>2, <1>3 DEF TypeOK
<1>6. Kept'
  <2>1. Offered' = Offered /\ Awaited' = Awaited /\ Offered \subseteq Exchanges
    BY <1>1, <1>2, SetOfSequence DEF Offered, Awaited, TypeOK
  <2>2. \A y \in Exchanges : future'[y] = "pending" => future[y] = "pending"
    BY <1>2, <1>3
  <2>3. \A y \in Offered : future'[y] # "none"
    BY <1>2, <1>3, <2>1 DEF Kept
  <2> QED
    BY <1>1, <1>2, <2>1, <2>2, <2>3 DEF Kept
<1>7. ASSUME NEW c \in Clients PROVE Client(c)'
  <2>1. Client(c) /\ current[c] \in 0 .. MaxFrames
    BY DEF IInv, TypeOK
  <2>2. /\ \A m \in Numbers : future'[X(c, m)] = "none" <=> future[X(c, m)] = "none"
        /\ \A m \in Numbers : future'[X(c, m)] = "pending" => future[X(c, m)] = "pending"
    BY <1>1, <1>2, <1>3, ExchangeFacts
  <2>3. KnownSoFar(c)'
    BY <1>1, <2>1, <2>2, NumbersAre DEF Client, KnownSoFar
  <2> QED
    BY <1>1, <2>1, <2>3 DEF Client, Numbered, RepliedSoFar
<1>8. Simulated
  <2>1. Asked' = Asked /\ x.n \in Asked[x.c]
    <3>1. \A c \in Clients, m \in Numbers : future'[X(c, m)] # "none" <=> future[X(c, m)] # "none"
      BY <1>1, <1>2, <1>3, ExchangeFacts
    <3>2. x.n \in Asked[x.c]
      BY <1>1, <1>4 DEF Asked, X
    <3> QED
      BY <3>1, <3>2 DEF Asked, X
  <2>2. Decided[x.c][x.n] = "none"
    BY <1>1, <1>4 DEF Decided, X
  <2>3. Decided' = [Decided EXCEPT ![x.c][x.n] = a]
    <3> DEFINE Old(c, m) == IF future[X(c, m)] = "pending" THEN "none" ELSE future[X(c, m)]
               New(c, m) == IF c = x.c /\ m = x.n THEN a ELSE Decided[c][m]
    <3>1. /\ Decided = [c \in Clients |-> [m \in Numbers |-> Decided[c][m]]]
          /\ \A c \in Clients, m \in Numbers : Decided[c][m] = Old(c, m)
      BY DEF Decided, X
    <3>2. [Decided EXCEPT ![x.c][x.n] = a] = [c \in Clients |-> [m \in Numbers |-> New(c, m)]]
      BY SMTT(30), <1>4, <3>1, NestedExcept
    <3>3. \A c \in Clients, m \in Numbers :
            (IF future'[X(c, m)] = "pending" THEN "none" ELSE future'[X(c, m)]) = New(c, m)
      <4> SUFFICES ASSUME NEW c \in Clients, NEW m \in Numbers
                   PROVE  (IF future'[X(c, m)] = "pending" THEN "none"
                                                           ELSE future'[X(c, m)]) = New(c, m)
        OBVIOUS
      <4>1. X(c, m) = x <=> c = x.c /\ m = x.n
        BY <1>4, ExchangeFacts
      <4> QED
        BY <1>2, <1>3, <3>1, <4>1, ExchangeFacts
    <3> HIDE DEF New
    <3>4. Decided' = [c \in Clients |-> [m \in Numbers |-> New(c, m)]]
      BY <3>3, Zenon DEF Decided, X
    <3> QED
      BY <3>2, <3>4
  <2>4. A!Decide(x.c, x.n)
    BY <1>1, <2>1, <2>2, <2>3 DEF A!Decide
  <2> QED
    BY <1>4, <2>4 DEF Simulated, A!Next
<1> QED
  BY <1>5, <1>6, <1>7, <1>8 DEF Keeps, IInv

-----------------------------------------------------------------------------
(* The server closes.                                                      *)

\* Closing the iterator cancels every undecided exchange; with a callback
\* there is nothing to cancel.
LEMMA CloseKeeps ==
  ASSUME IInv, Close
  PROVE  Keeps
<1>1. /\ server' = "closing"
      /\ future' = [x \in Exchanges |-> IF x \in Cancelled THEN "cancelled" ELSE future[x]]
      /\ UNCHANGED <<inbox, sent, link, task, current, replies, queue, held, pending, late, mode>>
  BY DEF Close, connectionVars
<1>2. /\ TypeOK /\ Kept /\ mode \in {"iterator", "callback"}
      /\ future \in [Exchanges -> {"none", "pending", "cancelled"} \cup Answers]
  BY ModesAssumption DEF IInv, TypeOK
<1>3. \A x \in Exchanges : future[x] = "pending" => x \in Awaited
  <2> SUFFICES ASSUME NEW x \in Exchanges, future[x] = "pending" PROVE x \in Awaited
    OBVIOUS
  <2>1. x.c \in Clients /\ x.n \in Numbers /\ future[X(x.c, x.n)] = "pending" /\ Client(x.c)
    BY ExchangeFacts DEF IInv
  <2> QED
    BY <2>1 DEF Client, KnownSoFar, Awaited
<1>4. \/ /\ mode = "iterator"
         /\ \A x \in Exchanges : x \in Cancelled <=> future[x] = "pending"
      \/ /\ mode = "callback" /\ Cancelled = {}
  <2>1. CASE mode = "iterator"
    BY <1>2, <1>3, <2>1 DEF Kept, Cancelled
  <2>2. CASE mode = "callback"
    BY <1>2, <2>2 DEF Kept, Cancelled
  <2> QED
    BY <1>2, <2>1, <2>2
<1>5. /\ \A x \in Exchanges : future'[x] = "none" <=> future[x] = "none"
      /\ \A x \in Exchanges : future'[x] = "pending" => future[x] = "pending"
  BY <1>1, <1>2 DEF Cancelled
<1>6. TypeOK'
  <2>1. future' \in [Exchanges -> {"none", "pending", "cancelled"} \cup Answers]
    BY <1>1, <1>2
  <2> QED
    BY <1>1, <1>2, <2>1 DEF TypeOK
<1>7. Kept'
  <2>1. Offered' = Offered /\ Awaited' = Awaited /\ Offered \subseteq Exchanges
    BY <1>1, <1>2, SetOfSequence DEF Offered, Awaited, TypeOK
  <2> QED
    BY <1>1, <1>2, <1>5, <2>1 DEF Kept
<1>8. ASSUME NEW c \in Clients PROVE Client(c)'
  <2>1. Client(c)
    BY DEF IInv
  <2>2. /\ \A m \in Numbers : future'[X(c, m)] = "none" <=> future[X(c, m)] = "none"
        /\ \A m \in Numbers : future'[X(c, m)] = "pending" => future[X(c, m)] = "pending"
    BY <1>5, ExchangeFacts
  <2>3. current[c] > 0 => current[c] \in Numbers
    BY <1>2, NumbersAre DEF TypeOK
  <2>4. KnownSoFar(c)'
    BY <1>1, <2>1, <2>2, <2>3 DEF Client, KnownSoFar
  <2> QED
    BY <1>1, <2>1, <2>4 DEF Client, Numbered, RepliedSoFar
<1>9. Simulated
  <2>1. CASE mode = "callback" /\ Cancelled = {}
    <3>1. future' = future
      BY <1>1, <1>2, <2>1
    <3> QED
      BY <1>1, <3>1, Unseen
  <2>2. CASE \A x \in Exchanges : x \in Cancelled <=> future[x] = "pending"
    <3> DEFINE New(c, m) == IF m \in Asked[c] /\ Decided[c][m] = "none" THEN "cancelled"
                                                                      ELSE Decided[c][m]
    <3>1. \A c \in Clients, m \in Numbers :
            /\ Decided[c][m] = IF future[X(c, m)] = "pending" THEN "none" ELSE future[X(c, m)]
            /\ m \in Asked[c] <=> future[X(c, m)] # "none"
            /\ X(c, m) \in Exchanges
      BY ExchangeFacts DEF Decided, Asked, X
    <3>2. \A c \in Clients, m \in Numbers :
            (IF future'[X(c, m)] = "pending" THEN "none" ELSE future'[X(c, m)]) = New(c, m)
      <4> SUFFICES ASSUME NEW c \in Clients, NEW m \in Numbers
                   PROVE  (IF future'[X(c, m)] = "pending" THEN "none"
                                                           ELSE future'[X(c, m)]) = New(c, m)
        OBVIOUS
      <4>1. future'[X(c, m)] = IF future[X(c, m)] = "pending" THEN "cancelled"
                                                             ELSE future[X(c, m)]
        BY <1>1, <2>2, <3>1
      <4> QED
        BY <3>1, <4>1
    <3> HIDE DEF New
    <3>3. Decided' = [c \in Clients |-> [m \in Numbers |-> New(c, m)]]
      BY <3>2, Zenon DEF Decided, X
    <3>4. Asked' = Asked
      BY <1>5, ExchangeFacts DEF Asked, X
    <3>5. A!CancelAll
      BY <1>1, <3>3, <3>4 DEF A!CancelAll, New
    <3> QED
      BY <3>5 DEF Simulated, A!Next
  <2> QED
    BY <1>4, <2>1, <2>2
<1> QED
  BY <1>6, <1>7, <1>8, <1>9 DEF Keeps, IInv

-----------------------------------------------------------------------------
(* The theorems.                                                           *)

LEMMA InitHolds == Init => IInv /\ A!Init
<1> SUFFICES ASSUME Init PROVE IInv /\ A!Init
  OBVIOUS
<1>1. TypeOK
  <2>1. queue \in Seq(Exchanges) /\ \A c \in Clients : inbox[c] = <<>> /\ replies[c] = <<>>
    BY DEF Init
  <2>2. 0 \in 0 .. MaxFrames
    BY MaxFramesAssumption
  <2> QED
    BY <2>1, <2>2 DEF Init, TypeOK
<1>2. Kept
  <2>1. ToSet(queue) = {} /\ IsInjective(queue) /\ held = {} /\ pending = {}
    BY DEF Init, ToSet, IsInjective
  <2>2. Awaited = {}
    BY ExchangeFacts DEF Init, Awaited
  <2> QED
    BY <2>1, <2>2 DEF Init, Kept, Offered
<1>3. ASSUME NEW c \in Clients PROVE Client(c)
  <2>1. /\ inbox[c] = <<>> /\ replies[c] = <<>> /\ current[c] = 0 /\ sent[c] = 0
        /\ task[c] = "none" /\ \A n \in Numbers : future[X(c, n)] = "none"
    BY ExchangeFacts DEF Init
  <2> QED
    BY <2>1 DEF Client, Numbered, RepliedSoFar, KnownSoFar
<1>4. A!Init
  <2>1. \A c \in Clients, n \in Numbers : future[X(c, n)] = "none"
    BY ExchangeFacts DEF Init
  <2> QED
    BY <2>1 DEF Init, A!Init, Asked, Decided, X
<1> QED
  BY <1>1, <1>2, <1>3, <1>4 DEF IInv

LEMMA NextKeeps == IInv /\ [Next]_serverVars => Keeps
<1> SUFFICES ASSUME IInv, [Next]_serverVars PROVE Keeps
  OBVIOUS
<1>1. ASSUME NEW c \in Clients,
             \/ Connect(c) \/ ClientCloses(c) \/ HandshakeEnds(c)
             \/ EndOfFrames(c) \/ Leave(c) \/ CloseConnection(c)
      PROVE  Keeps
  BY <1>1, ConnectionKeeps
<1>2. ASSUME NEW c \in Clients, NEW kind \in FrameKinds, FrameArrives(c, kind) PROVE Keeps
  BY <1>2, FrameKeeps
<1>3. ASSUME NEW c \in Clients, ReadFrame(c) PROVE Keeps
  BY <1>3, ReadDictationKeeps, ReadOtherKeeps
<1>4. ASSUME NEW c \in Clients, Resume(c) PROVE Keeps
  BY <1>4, ResumeKeeps
<1>5. CASE Take
  BY <1>5, TakeKeeps
<1>6. CASE Answer
  BY <1>6, RespondKeeps DEF Answer
<1>7. CASE Close
  BY <1>7, CloseKeeps
<1>8. CASE WaitClosed
  BY <1>8, WaitClosedKeeps
<1>9. CASE UNCHANGED serverVars
  <2>1. TypeOK'
    BY <1>9 DEF IInv, TypeOK, serverVars, connectionVars, exchangeVars, controlVars
  <2> QED
    BY <1>9, <2>1, BetweenFrames DEF serverVars, connectionVars, exchangeVars, controlVars
<1> QED
  BY <1>1, <1>2, <1>3, <1>4, <1>5, <1>6, <1>7, <1>8, <1>9 DEF Next

\* The inductive invariant: handlers, futures and the queue stay together.
THEOREM Invariance == Spec => []IInv
<1>1. IInv /\ [Next]_serverVars => IInv'
  BY NextKeeps DEF Keeps
<1> QED
  BY <1>1, InitHolds, PTL DEF Spec

\* `pending` is exactly what the handlers wait for, and every unanswered
\* exchange is within the application's reach.
THEOREM TheSetIsComplete == Spec => []NothingForgotten
<1>1. IInv => NothingForgotten
  BY DEF IInv, Kept, Awaited, Offered, NothingForgotten
<1> QED
  BY <1>1, Invariance, PTL

\* Whatever clients, application and server do in whatever order, a dictation
\* is decided once, and each client is told in order what was decided.
THEOREM ServerAnswers == Spec => ImplementsAnswering
<1>1. IInv /\ [Next]_serverVars => [A!Next]_A!answeringVars
  BY NextKeeps DEF Keeps, Simulated
<1> QED
  BY <1>1, InitHolds, Invariance, PTL DEF Spec, ImplementsAnswering, A!Spec

=============================================================================
