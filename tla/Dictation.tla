------------------------------ MODULE Dictation ------------------------------
(***************************************************************************)
(* What the whole app promises, without messages, timers or sessions: a    *)
(* run listens, asks the server at most once and for exactly what was      *)
(* said, and shows the answer to that question or fails.  Whatever is      *)
(* lost, late or restarted may make a run fail; it may not make it ask     *)
(* twice, ask something else, or show anything else.                       *)
(***************************************************************************)
EXTENDS Sequences, Naturals

CONSTANTS
  Runs,         \* identifiers of runs
  NoRun,        \* no run yet
  Utterances    \* what may be said

VARIABLES
  phase,     \* of the current run
  run,       \* the current run
  started,   \* runs started so far
  said,      \* what was said in each run
  asked,     \* the questions put to the server
  shown      \* the answer on display

dictationVars == <<phase, run, started, said, asked, shown>>

\* The server answers a question with its text.
Answer(text) == text

Init ==
  /\ phase = "OFF" /\ run = NoRun /\ started = {}
  /\ said = [r \in Runs |-> <<>>]
  /\ asked = {} /\ shown = <<>>

\* A run starts; it may fail, or end, before anything can be said.
Start(r) ==
  /\ phase = "OFF" /\ r \in Runs \ started
  /\ started' = started \cup {r}
  /\ \/ phase' \in {"DICTATING", "ERROR"} /\ run' = r
     \/ UNCHANGED <<phase, run>>
  /\ UNCHANGED <<said, asked, shown>>

Speak(t) ==
  /\ phase = "DICTATING"
  /\ phase' \in {"BRIDGING", "ERROR"}
  /\ said' = [said EXCEPT ![run] = t]
  /\ UNCHANGED <<run, started, asked, shown>>

\* The question reaches the server, perhaps when its run has given up on it.
Ask(r) ==
  /\ said[r] # <<>>
  /\ \A q \in asked : q.run # r
  /\ asked' = asked \cup {[run |-> r, text |-> said[r]]}
  /\ UNCHANGED <<phase, run, started, said, shown>>

Show ==
  /\ phase = "BRIDGING"
  /\ phase' = "DISPLAYING_RESULT"
  /\ \E q \in asked : q.run = run /\ shown' = Answer(q.text)
  /\ UNCHANGED <<run, started, said, asked>>

Fail ==
  /\ phase \in {"DICTATING", "BRIDGING"}
  /\ phase' = "ERROR"
  /\ UNCHANGED <<run, started, said, asked, shown>>

Close ==
  /\ phase # "OFF"
  /\ phase' = "OFF" /\ shown' = <<>>
  /\ UNCHANGED <<run, started, said, asked>>

Next ==
  \/ \E r \in Runs : Start(r) \/ Ask(r)
  \/ \E t \in Utterances : Speak(t)
  \/ Show \/ Fail \/ Close

Spec == Init /\ [][Next]_dictationVars

=============================================================================
