------------------------------- MODULE Dialog -------------------------------
(***************************************************************************)
(* The message dialog, src/c/message_dialog.c, for any caller of           *)
(* message_dialog.h.  A status slides out, is replaced and slides in; the  *)
(* caller may replace it, show a result or destroy the dialog meanwhile.   *)
(* Each function is an operator from the dialog to the dialog it leaves.   *)
(*                                                                         *)
(* main.c never shows a status without a dialog (Watch), so that call,     *)
(* which only runs the completion, is left out.                            *)
(*                                                                         *)
(* External: animation_unschedule calls the `stopped` handler before it    *)
(* returns, so an animation of an earlier request never ends later.  Tone  *)
(* and icon always go together and are one `look`; layout is left out.     *)
(***************************************************************************)
EXTENDS Naturals, Sequences

CONSTANTS
  Texts,      \* texts of statuses
  MayFail,    \* what the system may refuse
  MaxCalls    \* bound on message_dialog_show_status calls (not in the code)

ASSUME DialogFailAssumption == MayFail \subseteq {"layers", "animation", "result_view"}
ASSUME MaxCallsAssumption == MaxCalls \in Nat

VARIABLES
  dialog,     \* struct MessageDialog and its layers
  request,    \* history: the latest message_dialog_show_status call
  ran         \* history: serial numbers of the calls whose completion ran

dialogVars == <<dialog, request, ran>>

Looks == {"PROGRESS", "SUCCESS", "FAILURE"}

Statuses == [text : Texts, look : {"PROGRESS", "FAILURE"}]

None == [text |-> "none", look |-> "none"]

Results == [text : {"result"}, look : {"SUCCESS", "FAILURE"}]

Phases == {"NONE", "OUT", "IN"}

NoDialog ==
  [exists |-> FALSE, text |-> "none", look |-> "none", pending |-> None,
   completion |-> 0,       \* serial of the call it belongs to; 0 is NULL
   animation |-> "NONE",
   inPlace |-> TRUE,       \* the text layer is in status_frame
   hidden |-> FALSE,       \* the text layer is hidden
   result |-> FALSE]       \* the result layers exist

Init ==
  /\ dialog = NoDialog
  /\ request = [serial |-> 0, status |-> None, tell |-> FALSE]
  /\ ran = <<>>

-----------------------------------------------------------------------------
(* Helpers.                                                                *)

\* MUTANT: a cancelled transition keeps its completion.
Cancel_KeepsCompletion(d) ==
  IF d.animation = "NONE" THEN d
  ELSE [d EXCEPT !.animation = "NONE", !.inPlace = TRUE, !.pending = None]

\* prv_cancel_animation, and the handler it makes the system call with
\* `finished` false.
Cancel(d) ==
  IF d.animation = "NONE"
    THEN d
    ELSE [d EXCEPT !.animation = "NONE", !.inPlace = TRUE, !.pending = None,
                   !.completion = 0]

\* MUTANT: the colour and icon of the old status stay.
Apply_TextOnly(d) == [d EXCEPT !.text = d.pending.text]

\* prv_apply_status.
Apply(d) == [d EXCEPT !.text = d.pending.text, !.look = d.pending.look]

\* prv_complete_transition up to calling the completion.
Finish(d) == [d EXCEPT !.completion = 0, !.pending = None]

\* prv_start_animation.
Animate(d, phase) == [d EXCEPT !.animation = phase, !.inPlace = FALSE]

\* The completion of d, if any, is called.
Call(d) == ran' = IF d.completion = 0 THEN ran ELSE Append(ran, d.completion)

-----------------------------------------------------------------------------
(* The functions of message_dialog.h.                                      *)

\* message_dialog_create; a dialog lacking a layer is destroyed again.
Create(text) ==
  /\ ~dialog.exists
  /\ \/ dialog' = [NoDialog EXCEPT !.exists = TRUE, !.text = text,
                                   !.look = "PROGRESS"]
     \/ "layers" \in MayFail /\ UNCHANGED dialog
  /\ UNCHANGED <<request, ran>>

\* What message_dialog_show_status makes of d before anything moves.
Prepared(d, s, c) ==
  [Cancel(d) EXCEPT !.result = FALSE, !.inPlace = TRUE, !.hidden = FALSE,
                    !.pending = s, !.completion = c]

\* message_dialog_show_status: slide the old text out, or replace it now.
ShowStatus(s, tell, animated) ==
  LET n == request.serial + 1
      d == Prepared(dialog, s, IF tell THEN n ELSE 0)
  IN  /\ dialog.exists /\ request.serial < MaxCalls
      /\ request' = [serial |-> n, status |-> s, tell |-> tell]
      /\ \/ /\ animated
            /\ dialog' = Animate(d, "OUT")
            /\ UNCHANGED ran
         \/ /\ animated => "animation" \in MayFail
            /\ dialog' = Finish(Apply(d))
            /\ Call(d)

\* prv_animation_stopped with `finished` true, after sliding out.
SlidOut ==
  LET d == Apply([dialog EXCEPT !.animation = "NONE"])
  IN  /\ dialog.animation = "OUT"
      /\ \/ dialog' = Animate(d, "IN") /\ UNCHANGED ran
         \/ /\ "animation" \in MayFail
            /\ dialog' = Finish([d EXCEPT !.inPlace = TRUE])
            /\ Call(d)
      /\ UNCHANGED request

\* The same, after sliding in.
SlidIn ==
  LET d == [dialog EXCEPT !.animation = "NONE", !.inPlace = TRUE]
  IN  /\ dialog.animation = "IN"
      /\ dialog' = Finish(d)
      /\ Call(d)
      /\ UNCHANGED request

\* message_dialog_show_result: without the layers the screen stays empty.
ShowResult(look) ==
  LET d == [Cancel(dialog) EXCEPT !.look = look, !.hidden = TRUE]
  IN  /\ dialog.exists
      /\ \/ dialog' = [d EXCEPT !.result = TRUE]
         \/ "result_view" \in MayFail /\ dialog' = [d EXCEPT !.result = FALSE]
      /\ request' = [request EXCEPT !.status = None]
      /\ UNCHANGED ran

\* message_dialog_destroy.
Destroy ==
  /\ dialog.exists
  /\ dialog' = NoDialog
  /\ request' = [request EXCEPT !.status = None]
  /\ UNCHANGED ran

Next ==
  \/ \E text \in Texts : Create(text)
  \/ \E s \in Statuses, tell, animated \in BOOLEAN : ShowStatus(s, tell, animated)
  \/ SlidOut \/ SlidIn
  \/ \E look \in {"SUCCESS", "FAILURE"} : ShowResult(look)
  \/ Destroy

Spec == Init /\ [][Next]_dialogVars

\* A scheduled animation ends.
FairSpec == Spec /\ WF_dialogVars(SlidOut \/ SlidIn)

-----------------------------------------------------------------------------

\* Every variable has its type.
TypeOK ==
  /\ dialog \in [exists : BOOLEAN, text : Texts \cup {"none"},
                  look : Looks \cup {"none"}, pending : Statuses \cup {None},
                  completion : 0 .. MaxCalls, animation : Phases,
                  inPlace : BOOLEAN, hidden : BOOLEAN, result : BOOLEAN]
  /\ dialog.exists => dialog.text \in Texts /\ dialog.look \in Looks
  /\ request \in [serial : 0 .. MaxCalls, status : Statuses \cup {None},
                   tell : BOOLEAN]
  /\ ran \in Seq(1 .. MaxCalls)

\* However transitions, results and refusals cut into each other, nothing of
\* a transition survives it, and no text moves underneath a result.
AtRest ==
  /\ TypeOK
  /\ IF dialog.animation = "NONE"
       THEN dialog.inPlace /\ dialog.pending = None /\ dialog.completion = 0
       ELSE dialog.exists /\ ~dialog.hidden /\ ~dialog.result

\* What a person reads on the screen.
Display ==
  IF ~dialog.exists \/ dialog.animation # "NONE" THEN None
  ELSE IF dialog.result THEN [text |-> "result", look |-> dialog.look]
  ELSE IF dialog.hidden THEN None
  ELSE [text |-> dialog.text, look |-> dialog.look]

S == INSTANCE StatusScreen WITH
  Nothing <- None, open <- dialog.exists, display <- Display, told <- ran

\* The dialog implements the screen its caller reckons with: a completion runs
\* only for the latest call, once, and when the screen shows exactly its
\* status (the five seconds main.c:677-690 counts from it are seconds of that
\* status); and a status that is not replaced is displayed in the end.
ImplementsStatusScreen == S!Spec

=============================================================================
