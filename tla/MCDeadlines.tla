---------------------------- MODULE MCDeadlines ----------------------------
(***************************************************************************)
(* The durations of main.c and index.js, in units of 250 ms, and a link    *)
(* that takes up to 1.25 seconds each way.                                 *)
(***************************************************************************)
EXTENDS Deadlines

=============================================================================
