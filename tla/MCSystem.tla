------------------------------ MODULE MCSystem ------------------------------
(***************************************************************************)
(* Both ends, two runs of the app, transcripts whose pieces tell the runs  *)
(* apart.                                                                  *)
(***************************************************************************)
EXTENDS System

CONSTANTS p1, p2

\* One transcript of two chunks and one of a single, different, chunk.
MCTranscripts == {<<p1, p2>>, <<p2>>}

\* The identifiers are only compared with one another.
Symmetry == Permutations(ReqIds)

=============================================================================
