---------------------------- MODULE StatusScreen ----------------------------
(***************************************************************************)
(* What message_dialog.c promises its caller, without layers, frames and   *)
(* animations: the latest request is displayed eventually, and whoever     *)
(* asked to be told is told once, at the moment exactly that status is on  *)
(* the display.  A request that is replaced is never reported.             *)
(***************************************************************************)
EXTENDS Naturals, Sequences

CONSTANTS
  Statuses,   \* what can be asked for
  Results,    \* results that can be shown
  Nothing     \* no status is legible: a transition, or an empty screen

VARIABLES
  open,       \* the screen exists
  request,    \* the latest request, `status` being Nothing once it is void
  display,    \* what can be read
  told        \* serial numbers of the requests whose caller was told

screenVars == <<open, request, display, told>>

NoRequest == [serial |-> 0, status |-> Nothing, tell |-> FALSE]

Init == ~open /\ request = NoRequest /\ display = Nothing /\ told = <<>>

Open(initial) ==
  /\ ~open /\ open'
  /\ display' = initial
  /\ UNCHANGED <<request, told>>

\* The display now shows request r, and its caller is told.
Show(r) ==
  /\ display' = r.status
  /\ told' = IF r.tell THEN Append(told, r.serial) ELSE told

Ask(s, tell) ==
  LET r == [serial |-> request.serial + 1, status |-> s, tell |-> tell]
  IN  /\ open
      /\ request' = r
      /\ Show(r) \/ (display' = Nothing /\ UNCHANGED told)
      /\ UNCHANGED open

Settle ==
  /\ open /\ display = Nothing /\ request.status # Nothing
  /\ Show(request)
  /\ UNCHANGED <<open, request>>

\* A result voids the request; its view may be refused.
ShowResult(o) ==
  /\ open
  /\ request' = [request EXCEPT !.status = Nothing]
  /\ display' \in {o, Nothing}
  /\ UNCHANGED <<open, told>>

Close ==
  /\ open /\ ~open'
  /\ request' = [request EXCEPT !.status = Nothing]
  /\ display' = Nothing
  /\ UNCHANGED told

Next ==
  \/ \E s \in Statuses : Open(s) \/ \E tell \in BOOLEAN : Ask(s, tell)
  \/ Settle
  \/ \E o \in Results : ShowResult(o)
  \/ Close

Spec == Init /\ [][Next]_screenVars /\ WF_screenVars(Settle)

=============================================================================
