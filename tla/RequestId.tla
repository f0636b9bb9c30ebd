----------------------------- MODULE RequestId -----------------------------
(***************************************************************************)
(* prv_generate_request_id in src/c/main.c: an identifier is the clock's   *)
(* seconds, cut to 32 bits, XOR its milliseconds shifted by 16 bits, and 1 *)
(* in place of 0.  Watch and System take an identifier to be new in every  *)
(* run; this module says for which runs it is.                             *)
(*                                                                         *)
(* A 32-bit word is the pair of its halves, for the shift leaves the low   *)
(* half alone.  The watch's clock may be set at any time, in either        *)
(* direction.                                                              *)
(***************************************************************************)
EXTENDS Naturals, FiniteSets

CONSTANTS
  Clock,           \* seconds since 1970 the clock may show
  Milliseconds,
  XorWords(_, _),  \* bitwise exclusive or of 16-bit words
  MaxLaunches      \* bound on the launches (not in the code)

High(seconds) == (seconds \div 65536) % 65536

Low(seconds) == seconds % 65536

ASSUME ClockAssumption == Clock \subseteq Nat
ASSUME MillisecondsAssumption == Milliseconds \subseteq 0 .. 999
ASSUME MaxLaunchesAssumption == MaxLaunches \in Nat
\* Exclusive or can be undone, and is 0 only of equal words.
ASSUME XorAssumption ==
  \A s \in Clock : \A m, n \in Milliseconds :
    /\ XorWords(High(s), m) = XorWords(High(s), n) => m = n
    /\ XorWords(High(s), m) = 0 => High(s) = m

VARIABLES
  seconds, milliseconds,   \* what time_ms would return
  launches                 \* history: each launch's time and identifier

idVars == <<seconds, milliseconds, launches>>

\* MUTANT: the milliseconds are not shifted.
Value_NotShifted(s, m) == [high |-> High(s), low |-> XorWords(Low(s), m)]

Value(s, m) == [high |-> XorWords(High(s), m), low |-> Low(s)]

Zero == [high |-> 0, low |-> 0]

One == [high |-> 0, low |-> 1]

\* 0 stands for no request, and is replaced.
Identifier(s, m) == IF Value(s, m) = Zero THEN One ELSE Value(s, m)

IdInit ==
  /\ seconds \in Clock
  /\ milliseconds \in Milliseconds
  /\ launches = {}

\* The time passes, or the clock is set.
Tick ==
  /\ seconds' \in Clock
  /\ milliseconds' \in Milliseconds
  /\ UNCHANGED launches

\* prv_generate_request_id, called once in every run.  A run takes longer
\* than a millisecond: no two see the same time, unless the clock is set back
\* to the very millisecond, which is left out.
Generate ==
  /\ Cardinality(launches) < MaxLaunches
  /\ \A l \in launches : l.seconds # seconds \/ l.milliseconds # milliseconds
  /\ launches' = launches \cup
       {[seconds |-> seconds, milliseconds |-> milliseconds,
         id |-> Identifier(seconds, milliseconds)]}
  /\ UNCHANGED <<seconds, milliseconds>>

IdNext == Tick \/ Generate

IdSpec == IdInit /\ [][IdNext]_idVars

-----------------------------------------------------------------------------

Window == 43200   \* twelve hours

Near(k, l) ==
  k.seconds <= l.seconds + Window /\ l.seconds <= k.seconds + Window

\* An identifier is unique within the last twelve hours (specification
\* 7.1.4), as the watch's own clock shows them: launches between which it was
\* set by more than that are not near.  It holds because the low halves of such times differ or the seconds are the
\* same; all but identifier 1, which stands for 0 too, and only while the
\* clock is within 1,000 * 65,536 seconds of a multiple of 2^32 (until early
\* 1972, if it was never set).
UniqueInWindow ==
  \A k, l \in launches :
    Near(k, l) /\ k.id = l.id =>
      \/ k = l
      \/ k.id = One /\ High(k.seconds) < 1000 /\ High(l.seconds) < 1000

=============================================================================
