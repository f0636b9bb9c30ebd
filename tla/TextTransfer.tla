---------------------------- MODULE TextTransfer ----------------------------
(***************************************************************************)
(* What carrying a text over the AppMessage link promises, in either       *)
(* direction: the receiver gets the text as a growing prefix, whole        *)
(* characters at a time, up to all of it; or the text is refused before    *)
(* the receiver has any of it.                                             *)
(***************************************************************************)
EXTENDS Utf8

VARIABLES
  text,       \* the bytes to be carried
  received,   \* the bytes the receiver has
  outcome     \* "pending", "delivered" or "refused"

vars == <<text, received, outcome>>

Init ==
  /\ received = <<>>
  /\ outcome = "pending"

Deliver ==
  /\ outcome = "pending"
  /\ Len(received) < Len(received') \/ text = <<>>
  /\ received' = SubSeq(text, 1, Len(received'))
  /\ WellFormed(SubSeq(received', Len(received) + 1, Len(received')))
  /\ outcome' = IF Len(received') = Len(text) THEN "delivered" ELSE "pending"
  /\ UNCHANGED text

Refuse ==
  /\ outcome = "pending" /\ received = <<>>
  /\ outcome' = "refused"
  /\ UNCHANGED <<text, received>>

\* A text is carried or refused in the end.
Spec == Init /\ [][Deliver \/ Refuse]_vars /\ <>(outcome # "pending")

=============================================================================
