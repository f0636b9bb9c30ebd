------------------------------- MODULE MCWatch -------------------------------
(***************************************************************************)
(* The watchapp against any phone: every message the inbox handler tells   *)
(* apart may arrive at any time, whatever was sent before it.              *)
(***************************************************************************)
EXTENDS Watch, FiniteSets

CONSTANTS MaxChunks   \* bound on chunk counts, indexes and transcript lengths

\* Only lengths matter to the watch, so one piece is enough for the content.
MCTranscripts == UNION {[1 .. n -> Pieces] : n \in 1 .. MaxChunks}

MCInbox ==
  [type : {"SEND_STARTED", "BAD_HEADER", "MALFORMED"}, id : ReqIds]
    \cup [type : {"NO_REQUEST_ID"}, id : {NoId}]
    \cup [type : {"FAILURE"}, id : ReqIds, status : StatusCodes]
    \cup [type : {"SERVER_RESULT_CHUNK"}, id : ReqIds, index : 0 .. MaxChunks,
          count : 0 .. MaxChunks, total : 0 .. MaxChunks + 1,
          text : {<<>>} \cup [{1} -> Pieces], success : BOOLEAN]

=============================================================================
