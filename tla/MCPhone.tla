------------------------------- MODULE MCPhone -------------------------------
(***************************************************************************)
(* PebbleKit JS against any watch and any server: every message and frame  *)
(* the handlers tell apart, in any order.                                  *)
(***************************************************************************)
EXTENDS Phone

CONSTANTS MaxChunks   \* bound on chunk counts, indexes and lengths

MCWatchInbox ==
  [type : {"SESSION_BEGIN"}, id : ReqIds]
    \cup [type : {"SESSION_END"}, id : ReqIds, status : {"CANCELLED"}]
    \cup [type : {"MALFORMED"}, id : ReqIds \cup {NoId}]
    \cup [type : {"TRANSCRIPT_CHUNK"}, id : ReqIds, index : 0 .. MaxChunks - 1,
          count : 1 .. MaxChunks, total : 1 .. MaxChunks, text : [{1} -> Pieces]]

MCFrames ==
  [id : ReqIds, kind : {"server_error", "protocol_error"}, success : {FALSE},
   response : {<<>>}]
    \cup [id : ReqIds, kind : {"result"}, success : {TRUE},
          response : UNION {[1 .. n -> Pieces] : n \in 0 .. MaxResponse + 1}]

\* A prompt answer matters as one that is accepted or one that is refused.
MCPromptFrames ==
  {f \in MCFrames : f.kind = "result" /\ Len(f.response) \in {1, MaxResponse + 1}}

=============================================================================
