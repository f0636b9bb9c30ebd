---------------------------- MODULE DialogProofs ----------------------------
(***************************************************************************)
(* Proofs about the message dialog, for any texts, any number of calls and *)
(* whatever the system refuses.                                            *)
(*                                                                         *)
(* That a completion runs for the status on the screen needs more than     *)
(* AtRest: during a transition the dialog carries the latest request, its  *)
(* status and its caller's completion, and once the text slides in it is   *)
(* that status already.                                                    *)
(***************************************************************************)
EXTENDS Dialog, TLAPS

Dialogs ==
  [exists : BOOLEAN, text : Texts \cup {"none"},
   look : Looks \cup {"none"}, pending : Statuses \cup {None},
   completion : 0 .. MaxCalls, animation : Phases,
   inPlace : BOOLEAN, hidden : BOOLEAN, result : BOOLEAN]

Requests == [serial : 0 .. MaxCalls, status : Statuses \cup {None}, tell : BOOLEAN]

\* The completion a request is entitled to; 0 is none.
Due(r) == IF r.tell THEN r.serial ELSE 0

\* Dialog d is legible, or in a transition towards the status of request r.
Coherent(d, r) ==
  /\ d \in Dialogs /\ r \in Requests
  /\ d.exists => d.text \in Texts /\ d.look \in Looks
  /\ IF d.animation = "NONE"
       THEN d.inPlace /\ d.pending = None /\ d.completion = 0
       ELSE /\ d.exists /\ ~d.hidden /\ ~d.result
            /\ r.status \in Statuses /\ r.serial > 0
            /\ d.pending = r.status /\ d.completion = Due(r)
  /\ d.animation = "IN" => d.text = r.status.text /\ d.look = r.status.look

IInv == Coherent(dialog, request) /\ ran \in Seq(1 .. MaxCalls)

\* Display, of dialog d.
Reads(d) ==
  IF ~d.exists \/ d.animation # "NONE" THEN None
  ELSE IF d.result THEN [text |-> "result", look |-> d.look]
  ELSE IF d.hidden THEN None
  ELSE [text |-> d.text, look |-> d.look]

-----------------------------------------------------------------------------
(* The helpers.                                                            *)

LEMMA StatusTypes ==
  /\ None \notin Statuses
  /\ \A s \in Statuses : /\ s.text \in Texts /\ s.look \in Looks
                         /\ s = [text |-> s.text, look |-> s.look]
<1>1. None \notin Statuses
  BY DEF None, Statuses
<1>2. \A s \in Statuses : /\ s.text \in Texts /\ s.look \in Looks
                          /\ s = [text |-> s.text, look |-> s.look]
  BY DEF Statuses, Looks
<1> QED
  BY <1>1, <1>2

LEMMA NoDialogType ==
  /\ NoDialog \in Dialogs /\ ~NoDialog.exists /\ NoDialog.animation = "NONE"
  /\ NoDialog.inPlace /\ NoDialog.pending = None /\ NoDialog.completion = 0
  /\ ~NoDialog.hidden /\ ~NoDialog.result
<1>1. 0 \in 0 .. MaxCalls /\ "NONE" \in Phases
  BY MaxCallsAssumption DEF Phases
<1> QED
  BY <1>1 DEF NoDialog, Dialogs

\* A cancelled transition leaves nothing of itself.
LEMMA CancelFields ==
  ASSUME NEW r, NEW d, Coherent(d, r), NEW e, e = Cancel(d)
  PROVE  /\ e \in Dialogs /\ e.exists = d.exists
         /\ e.text = d.text /\ e.look = d.look
         /\ e.animation = "NONE" /\ e.inPlace
         /\ e.pending = None /\ e.completion = 0
<1>1. d \in Dialogs /\ 0 \in 0 .. MaxCalls /\ "NONE" \in Phases
  BY MaxCallsAssumption DEF Coherent, Phases
<1>2. CASE d.animation = "NONE"
  BY <1>1, <1>2 DEF Cancel, Coherent
<1>3. CASE d.animation # "NONE"
  <2>1. e = [d EXCEPT !.animation = "NONE", !.inPlace = TRUE, !.pending = None,
                      !.completion = 0]
    BY <1>3 DEF Cancel
  <2>2. e \in Dialogs
    BY <1>1, <2>1 DEF Dialogs
  <2> QED
    BY <1>1, <2>1, <2>2 DEF Dialogs
<1> QED
  BY <1>2, <1>3

LEMMA PreparedFields ==
  ASSUME NEW r, NEW d, Coherent(d, r), d.exists,
         NEW s \in Statuses, NEW c \in 0 .. MaxCalls, NEW e, e = Prepared(d, s, c)
  PROVE  /\ e \in Dialogs /\ e.exists
         /\ e.text \in Texts /\ e.look \in Looks
         /\ e.animation = "NONE" /\ e.inPlace /\ ~e.hidden /\ ~e.result
         /\ e.pending = s /\ e.completion = c
<1> DEFINE a == Cancel(d)
<1>1. /\ a \in Dialogs /\ a.exists /\ a.text \in Texts /\ a.look \in Looks
      /\ a.animation = "NONE"
  BY CancelFields DEF Coherent
<1>2. e = [a EXCEPT !.result = FALSE, !.inPlace = TRUE, !.hidden = FALSE,
                    !.pending = s, !.completion = c]
  BY DEF Prepared
<1> HIDE DEF a
<1>3. e \in Dialogs
  BY <1>1, <1>2 DEF Dialogs
<1> QED
  BY <1>1, <1>2, <1>3 DEF Dialogs

\* A transition begins or goes on, with the text where it left off.
LEMMA AnimateFields ==
  ASSUME NEW d \in Dialogs, NEW phase \in {"OUT", "IN"}, NEW e, e = Animate(d, phase)
  PROVE  /\ e \in Dialogs /\ e.animation = phase
         /\ e.exists = d.exists /\ e.text = d.text /\ e.look = d.look
         /\ e.pending = d.pending /\ e.completion = d.completion
         /\ e.hidden = d.hidden /\ e.result = d.result
<1>1. phase \in Phases
  BY DEF Phases
<1>2. e \in Dialogs
  BY <1>1 DEF Animate, Dialogs
<1> QED
  BY <1>2 DEF Animate, Dialogs

LEMMA ApplyFields ==
  ASSUME NEW d \in Dialogs, d.pending \in Statuses, NEW e, e = Apply(d)
  PROVE  /\ e \in Dialogs /\ e.text = d.pending.text /\ e.look = d.pending.look
         /\ e.exists = d.exists /\ e.animation = d.animation
         /\ e.pending = d.pending /\ e.completion = d.completion
         /\ e.inPlace = d.inPlace /\ e.hidden = d.hidden /\ e.result = d.result
<1>1. d.pending.text \in Texts /\ d.pending.look \in Looks
  BY StatusTypes
<1>2. e \in Dialogs
  BY <1>1 DEF Apply, Dialogs
<1> QED
  BY <1>2 DEF Apply, Dialogs

LEMMA FinishFields ==
  ASSUME NEW d \in Dialogs, NEW e, e = Finish(d)
  PROVE  /\ e \in Dialogs /\ e.pending = None /\ e.completion = 0
         /\ e.exists = d.exists /\ e.animation = d.animation
         /\ e.text = d.text /\ e.look = d.look
         /\ e.inPlace = d.inPlace /\ e.hidden = d.hidden /\ e.result = d.result
<1>1. 0 \in 0 .. MaxCalls
  BY MaxCallsAssumption
<1>2. e \in Dialogs
  BY <1>1 DEF Finish, Dialogs
<1> QED
  BY <1>2 DEF Finish, Dialogs

-----------------------------------------------------------------------------
(* The functions, each a step of StatusScreen or none.                     *)

Simulated == S!Next \/ UNCHANGED S!screenVars

Keeps == IInv' /\ Simulated

LEMMA DisplayIs == Display = Reads(dialog) /\ Display' = Reads(dialog')
BY DEF Display, Reads

\* A dialog that shows request r's status is coherent and reads just that.
LEMMA ShowsStatus ==
  ASSUME NEW r \in Requests, r.status \in Statuses, NEW d \in Dialogs,
         d.exists, d.animation = "NONE", d.inPlace, ~d.hidden, ~d.result,
         d.text = r.status.text, d.look = r.status.look,
         d.pending = None, d.completion = 0
  PROVE  Coherent(d, r) /\ Reads(d) = r.status
<1>1. /\ r.status.text \in Texts /\ r.status.look \in Looks
      /\ r.status = [text |-> r.status.text, look |-> r.status.look]
  BY StatusTypes
<1>2. Coherent(d, r)
  BY <1>1 DEF Coherent
<1>3. Reads(d) = [text |-> d.text, look |-> d.look]
  BY DEF Reads
<1> QED
  BY <1>1, <1>2, <1>3

\* The caller is told that its status is on the screen.
LEMMA CallTells ==
  ASSUME NEW r \in Requests, r.serial > 0, NEW d, d.completion = Due(r),
         ran \in Seq(1 .. MaxCalls), Call(d)
  PROVE  /\ ran' = IF r.tell THEN Append(ran, r.serial) ELSE ran
         /\ ran' \in Seq(1 .. MaxCalls)
<1>1. r.serial \in 1 .. MaxCalls
  BY MaxCallsAssumption DEF Requests
<1>2. ran' = IF r.tell THEN Append(ran, r.serial) ELSE ran
  BY <1>1 DEF Call, Due
<1>3. Append(ran, r.serial) \in Seq(1 .. MaxCalls)
  BY <1>1
<1> QED
  BY <1>2, <1>3

LEMMA CreateKeeps ==
  ASSUME IInv, NEW text \in Texts, Create(text)
  PROVE  Keeps
<1>1. CASE dialog' = dialog
  BY <1>1, DisplayIs DEF Create, IInv, Keeps, Simulated, S!screenVars
<1>2. CASE dialog' = [NoDialog EXCEPT !.exists = TRUE, !.text = text, !.look = "PROGRESS"]
  <2>1. "PROGRESS" \in Looks
    BY DEF Looks
  <2>2. dialog' \in Dialogs
    BY <1>2, <2>1, NoDialogType DEF Dialogs
  <2>3. /\ dialog'.exists /\ dialog'.text = text /\ dialog'.look = "PROGRESS"
        /\ dialog'.animation = "NONE" /\ dialog'.inPlace /\ dialog'.pending = None
        /\ dialog'.completion = 0 /\ ~dialog'.hidden /\ ~dialog'.result
    BY <1>2, <2>2, NoDialogType DEF Dialogs
  <2>4. Coherent(dialog', request')
    BY <2>1, <2>2, <2>3 DEF Coherent, IInv, Create
  <2> DEFINE s == [text |-> text, look |-> "PROGRESS"]
  <2>5. Display' = s /\ s \in Statuses
    BY <2>3, DisplayIs DEF Reads, Statuses
  <2> HIDE DEF s
  <2>6. S!Open(s)
    BY <2>3, <2>5 DEF S!Open, Create
  <2>7. S!Next
    BY <2>5, <2>6 DEF S!Next
  <2> QED
    BY <2>4, <2>7 DEF Keeps, Simulated, IInv, Create
<1> QED
  BY <1>1, <1>2 DEF Create

LEMMA ShowStatusKeeps ==
  ASSUME IInv, NEW s \in Statuses, NEW tell \in BOOLEAN, NEW animated \in BOOLEAN,
         ShowStatus(s, tell, animated)
  PROVE  Keeps
<1> DEFINE n == request.serial + 1
           r == [serial |-> n, status |-> s, tell |-> tell]
           c == IF tell THEN n ELSE 0
           d == Prepared(dialog, s, c)
<1>1. /\ dialog.exists /\ request.serial < MaxCalls /\ request' = r
      /\ \/ dialog' = Animate(d, "OUT") /\ UNCHANGED ran
         \/ dialog' = Finish(Apply(d)) /\ Call(d)
  BY DEF ShowStatus
<1>2. n \in 1 .. MaxCalls /\ Coherent(dialog, request) /\ ran \in Seq(1 .. MaxCalls)
  BY <1>1, MaxCallsAssumption DEF IInv, Coherent, Requests
<1>3. c \in 0 .. MaxCalls
  BY <1>2, MaxCallsAssumption
<1>4. /\ r \in Requests /\ r.serial = n /\ r.status = s /\ r.tell = tell
      /\ c = Due(r) /\ r.serial > 0
  BY <1>2 DEF Requests, Due
<1> HIDE DEF c
<1>5. /\ d \in Dialogs /\ d.exists /\ d.text \in Texts /\ d.look \in Looks
      /\ d.animation = "NONE" /\ d.inPlace /\ ~d.hidden /\ ~d.result
      /\ d.pending = s /\ d.completion = c
  BY <1>1, <1>2, <1>3, PreparedFields
<1> HIDE DEF d
<1>6. Coherent(dialog', r) /\ ran' \in Seq(1 .. MaxCalls) /\ S!Ask(s, tell)
  <2>1. CASE dialog' = Animate(d, "OUT") /\ UNCHANGED ran
    <3>1. /\ dialog' \in Dialogs /\ dialog'.animation = "OUT"
          /\ dialog'.exists /\ dialog'.text = d.text /\ dialog'.look = d.look
          /\ dialog'.pending = s /\ dialog'.completion = c
          /\ ~dialog'.hidden /\ ~dialog'.result
      BY <1>5, <2>1, AnimateFields
    <3>2. Coherent(dialog', r)
      BY <1>4, <1>5, <3>1 DEF Coherent
    <3>3. Display' = None
      BY <3>1, DisplayIs DEF Reads
    <3>4. S!Ask(s, tell)
      BY <1>1, <2>1, <3>1, <3>3 DEF S!Ask
    <3> QED
      BY <1>2, <2>1, <3>2, <3>4
  <2>2. CASE dialog' = Finish(Apply(d)) /\ Call(d)
    <3> DEFINE a == Apply(d)
    <3>1. /\ a \in Dialogs /\ a.text = s.text /\ a.look = s.look
          /\ a.exists /\ a.animation = "NONE" /\ a.inPlace /\ ~a.hidden /\ ~a.result
      BY <1>5, ApplyFields
    <3> HIDE DEF a
    <3>2. /\ dialog' \in Dialogs /\ dialog'.pending = None /\ dialog'.completion = 0
          /\ dialog'.exists /\ dialog'.animation = "NONE" /\ dialog'.inPlace
          /\ ~dialog'.hidden /\ ~dialog'.result
          /\ dialog'.text = s.text /\ dialog'.look = s.look
      BY <2>2, <3>1, FinishFields DEF a
    <3>3. Coherent(dialog', r) /\ Reads(dialog') = s
      BY <1>4, <3>2, ShowsStatus
    <3>4. /\ ran' = IF tell THEN Append(ran, n) ELSE ran
          /\ ran' \in Seq(1 .. MaxCalls)
      BY <1>2, <1>4, <1>5, <2>2, CallTells
    <3>5. S!Show(r)
      BY <1>4, <3>3, <3>4, DisplayIs DEF S!Show
    <3>6. S!Ask(s, tell)
      BY <1>1, <3>2, <3>5 DEF S!Ask
    <3> QED
      BY <3>3, <3>4, <3>6
  <2> QED
    BY <1>1, <2>1, <2>2
<1>7. S!Next
  BY <1>6 DEF S!Next
<1> QED
  BY <1>1, <1>6, <1>7 DEF Keeps, Simulated, IInv

\* The transition that has reached its status is over.
LEMMA Settles ==
  ASSUME IInv, dialog.animation # "NONE", NEW d \in Dialogs,
         d.exists, d.animation = "NONE", d.inPlace, ~d.hidden, ~d.result,
         d.text = request.status.text, d.look = request.status.look,
         d.completion = dialog.completion,
         dialog' = Finish(d), Call(d), UNCHANGED request
  PROVE  Keeps
<1>1. /\ request \in Requests /\ request.status \in Statuses /\ request.serial > 0
      /\ dialog.exists /\ d.completion = Due(request) /\ ran \in Seq(1 .. MaxCalls)
  BY DEF IInv, Coherent
<1>2. /\ dialog' \in Dialogs /\ dialog'.pending = None /\ dialog'.completion = 0
      /\ dialog'.exists /\ dialog'.animation = "NONE" /\ dialog'.inPlace
      /\ ~dialog'.hidden /\ ~dialog'.result
      /\ dialog'.text = request.status.text /\ dialog'.look = request.status.look
  BY FinishFields
<1>3. Coherent(dialog', request) /\ Reads(dialog') = request.status
  BY <1>1, <1>2, ShowsStatus
<1>4. /\ ran' = IF request.tell THEN Append(ran, request.serial) ELSE ran
      /\ ran' \in Seq(1 .. MaxCalls)
  BY <1>1, CallTells
<1>5. Display = None /\ request.status # None
  BY <1>1, DisplayIs, StatusTypes DEF Reads
<1>6. S!Settle
  BY <1>1, <1>2, <1>3, <1>4, <1>5, DisplayIs DEF S!Settle, S!Show
<1>7. S!Next
  BY <1>6 DEF S!Next
<1> QED
  BY <1>3, <1>4, <1>7 DEF Keeps, Simulated, IInv

LEMMA SlidOutKeeps ==
  ASSUME IInv, SlidOut
  PROVE  Keeps
<1> DEFINE e == [dialog EXCEPT !.animation = "NONE"]
           a == Apply(e)
           b == [a EXCEPT !.inPlace = TRUE]
<1>1. /\ dialog.animation = "OUT" /\ UNCHANGED request
      /\ \/ dialog' = Animate(a, "IN") /\ UNCHANGED ran
         \/ dialog' = Finish(b) /\ Call(a)
  BY DEF SlidOut
<1>2. /\ dialog \in Dialogs /\ request \in Requests /\ ran \in Seq(1 .. MaxCalls)
      /\ dialog.exists /\ ~dialog.hidden /\ ~dialog.result
      /\ request.status \in Statuses /\ request.serial > 0
      /\ dialog.pending = request.status /\ dialog.completion = Due(request)
  BY <1>1 DEF IInv, Coherent
<1>3. /\ e \in Dialogs /\ e.animation = "NONE" /\ e.exists
      /\ e.pending = request.status /\ e.completion = dialog.completion
      /\ ~e.hidden /\ ~e.result
  <2>1. e \in Dialogs
    BY <1>2 DEF Dialogs, Phases
  <2> QED
    BY <1>2, <2>1 DEF Dialogs
<1> HIDE DEF e
<1>4. /\ a \in Dialogs /\ a.text = request.status.text /\ a.look = request.status.look
      /\ a.exists /\ a.animation = "NONE" /\ a.pending = request.status
      /\ a.completion = dialog.completion /\ ~a.hidden /\ ~a.result
  BY <1>2, <1>3, ApplyFields
<1> HIDE DEF a
<1>5. CASE dialog' = Animate(a, "IN") /\ UNCHANGED ran
  <2>1. /\ dialog' \in Dialogs /\ dialog'.animation = "IN"
        /\ dialog'.exists /\ dialog'.text = a.text /\ dialog'.look = a.look
        /\ dialog'.pending = a.pending /\ dialog'.completion = a.completion
        /\ ~dialog'.hidden /\ ~dialog'.result
    BY <1>4, <1>5, AnimateFields
  <2>2. Coherent(dialog', request)
    BY <1>2, <1>4, <2>1, StatusTypes DEF Coherent
  <2>3. Display = None /\ Display' = None /\ dialog.exists = dialog'.exists
    BY <1>1, <1>2, <2>1, DisplayIs DEF Reads
  <2> QED
    BY <1>1, <1>2, <1>5, <2>2, <2>3 DEF Keeps, Simulated, IInv, S!screenVars
<1>6. CASE dialog' = Finish(b) /\ Call(a)
  <2>1. /\ b \in Dialogs /\ b.text = a.text /\ b.look = a.look /\ b.exists
        /\ b.animation = "NONE" /\ b.inPlace /\ ~b.hidden /\ ~b.result
        /\ b.completion = a.completion
    <3>1. b \in Dialogs
      BY <1>4 DEF Dialogs
    <3> QED
      BY <1>4, <3>1 DEF Dialogs
  <2> HIDE DEF b
  <2>2. Call(b)
    BY <1>6, <2>1 DEF Call
  <2> QED
    BY <1>1, <1>4, <1>6, <2>1, <2>2, Settles
<1> QED
  BY <1>1, <1>5, <1>6

LEMMA SlidInKeeps ==
  ASSUME IInv, SlidIn
  PROVE  Keeps
<1> DEFINE d == [dialog EXCEPT !.animation = "NONE", !.inPlace = TRUE]
<1>1. dialog.animation = "IN" /\ UNCHANGED request /\ dialog' = Finish(d) /\ Call(d)
  BY DEF SlidIn
<1>2. /\ dialog \in Dialogs /\ dialog.exists /\ ~dialog.hidden /\ ~dialog.result
      /\ dialog.text = request.status.text /\ dialog.look = request.status.look
  BY <1>1 DEF IInv, Coherent
<1>3. /\ d \in Dialogs /\ d.inPlace /\ d.animation = "NONE" /\ d.exists
      /\ d.text = dialog.text /\ d.look = dialog.look
      /\ d.completion = dialog.completion /\ ~d.hidden /\ ~d.result
  <2>1. d \in Dialogs
    BY <1>2 DEF Dialogs, Phases
  <2> QED
    BY <1>2, <2>1 DEF Dialogs
<1> HIDE DEF d
<1> QED
  BY <1>1, <1>2, <1>3, Settles

LEMMA VoidRequest ==
  ASSUME NEW r \in Requests, NEW q, q = [r EXCEPT !.status = None]
  PROVE  q \in Requests
BY DEF Requests

LEMMA ShowResultKeeps ==
  ASSUME IInv, NEW look \in {"SUCCESS", "FAILURE"}, ShowResult(look)
  PROVE  Keeps
<1> DEFINE a == Cancel(dialog)
           d == [a EXCEPT !.look = look, !.hidden = TRUE]
<1>1. /\ dialog.exists /\ UNCHANGED ran
      /\ request' = [request EXCEPT !.status = None]
      /\ dialog' = [d EXCEPT !.result = TRUE] \/ dialog' = [d EXCEPT !.result = FALSE]
  BY DEF ShowResult
<1>2. /\ Coherent(dialog, request) /\ request \in Requests
      /\ dialog.exists => dialog.text \in Texts
  BY DEF IInv, Coherent
<1>3. /\ a \in Dialogs /\ a.exists = dialog.exists /\ a.text = dialog.text
      /\ a.animation = "NONE" /\ a.inPlace /\ a.pending = None /\ a.completion = 0
  BY <1>2, CancelFields
<1> HIDE DEF a
<1>4. look \in Looks
  BY DEF Looks
<1>5. /\ d \in Dialogs /\ d.exists /\ d.text \in Texts /\ d.look = look /\ d.hidden
      /\ d.animation = "NONE" /\ d.inPlace /\ d.pending = None /\ d.completion = 0
  <2>1. d \in Dialogs
    BY <1>3, <1>4 DEF Dialogs
  <2> QED
    BY <1>1, <1>2, <1>3, <2>1 DEF Dialogs
<1> HIDE DEF d
<1>6. /\ dialog' \in Dialogs /\ dialog'.exists /\ dialog'.text \in Texts
      /\ dialog'.look = look /\ dialog'.hidden /\ dialog'.animation = "NONE"
      /\ dialog'.inPlace /\ dialog'.pending = None /\ dialog'.completion = 0
  <2>1. dialog' \in Dialogs
    BY <1>1, <1>5 DEF Dialogs
  <2> QED
    BY <1>1, <1>5, <2>1 DEF Dialogs
<1>7. Coherent(dialog', request')
  BY <1>1, <1>2, <1>4, <1>6, VoidRequest DEF Coherent
<1> DEFINE o == [text |-> "result", look |-> look]
<1>8. o \in Results /\ Display' \in {o, None}
  BY <1>6, DisplayIs DEF Results, Reads
<1> HIDE DEF o
<1>9. S!ShowResult(o)
  BY <1>1, <1>6, <1>8 DEF S!ShowResult
<1>10. S!Next
  BY <1>8, <1>9 DEF S!Next
<1> QED
  BY <1>1, <1>7, <1>10 DEF Keeps, Simulated, IInv

LEMMA DestroyKeeps ==
  ASSUME IInv, Destroy
  PROVE  Keeps
<1>1. /\ dialog.exists /\ dialog' = NoDialog /\ UNCHANGED ran
      /\ request' = [request EXCEPT !.status = None] /\ request \in Requests
  BY DEF Destroy, IInv, Coherent
<1>2. Coherent(dialog', request')
  BY <1>1, NoDialogType, VoidRequest DEF Coherent
<1>3. Display' = None /\ ~dialog'.exists
  BY <1>1, NoDialogType, DisplayIs DEF Reads
<1>4. S!Close
  BY <1>1, <1>3 DEF S!Close
<1>5. S!Next
  BY <1>4 DEF S!Next
<1> QED
  BY <1>1, <1>2, <1>5 DEF Keeps, Simulated, IInv

LEMMA NextKeeps ==
  ASSUME IInv, [Next]_dialogVars
  PROVE  IInv' /\ Simulated
<1>1. CASE \E text \in Texts : Create(text)
  BY <1>1, CreateKeeps DEF Keeps
<1>2. CASE \E s \in Statuses, tell, animated \in BOOLEAN : ShowStatus(s, tell, animated)
  BY <1>2, ShowStatusKeeps DEF Keeps
<1>3. CASE SlidOut
  BY <1>3, SlidOutKeeps DEF Keeps
<1>4. CASE SlidIn
  BY <1>4, SlidInKeeps DEF Keeps
<1>5. CASE \E look \in {"SUCCESS", "FAILURE"} : ShowResult(look)
  BY <1>5, ShowResultKeeps DEF Keeps
<1>6. CASE Destroy
  BY <1>6, DestroyKeeps DEF Keeps
<1>7. CASE UNCHANGED dialogVars
  BY <1>7, DisplayIs DEF dialogVars, IInv, Simulated, S!screenVars
<1> QED
  BY <1>1, <1>2, <1>3, <1>4, <1>5, <1>6, <1>7 DEF Next

LEMMA InitHolds == Init => IInv /\ S!Init
<1> SUFFICES ASSUME Init PROVE IInv /\ S!Init
  OBVIOUS
<1>1. /\ dialog = NoDialog /\ ran = <<>>
      /\ request = [serial |-> 0, status |-> None, tell |-> FALSE]
  BY DEF Init
<1>2. 0 \in 0 .. MaxCalls
  BY MaxCallsAssumption
<1>3. request \in Requests
  BY <1>1, <1>2 DEF Requests
<1>4. IInv
  BY <1>1, <1>3, NoDialogType DEF IInv, Coherent
<1>5. Display = None
  BY <1>1, NoDialogType, DisplayIs DEF Reads
<1> QED
  BY <1>1, <1>4, <1>5, NoDialogType DEF S!Init, S!NoRequest

\* The inductive invariant.
THEOREM Invariance == Spec => []IInv
<1>1. IInv /\ [Next]_dialogVars => IInv'
  BY NextKeeps
<1> QED
  BY <1>1, InitHolds, PTL DEF Spec

\* A dialog out of transition is at rest, and no text moves under a result,
\* whatever is shown, refused and destroyed in between.
THEOREM DialogComesToRest == Spec => []AtRest
<1>1. IInv => AtRest
  BY DEF IInv, Coherent, Dialogs, Requests, AtRest, TypeOK
<1> QED
  BY <1>1, Invariance, PTL

\* Every step of the dialog is a step of the screen its caller reckons with,
\* or none: a completion runs for the latest call only, once, and when just
\* its status is on the display.
THEOREM DialogSimulatesScreen == Spec => S!Init /\ [][S!Next]_S!screenVars
<1>1. IInv /\ [Next]_dialogVars => [S!Next]_S!screenVars
  BY NextKeeps DEF Simulated
<1> QED
  BY <1>1, InitHolds, Invariance, PTL DEF Spec

=============================================================================
