------------------------------ MODULE Protocol ------------------------------
(***************************************************************************)
(* The AppMessage protocol spoken between the watchapp (src/c/main.c) and  *)
(* PebbleKit JS (src/pkjs/protocol.js): message types, status codes and    *)
(* the shape of every message.                                             *)
(*                                                                         *)
(* Text is a sequence of "pieces".  A piece stands for the whole code      *)
(* points one chunk carries, so TOTAL_BYTES is counted in pieces and a     *)
(* text of n pieces travels as n chunks.                                   *)
(***************************************************************************)
EXTENDS Naturals, Sequences

CONSTANTS
  ReqIds,   \* request identifiers (eight hexadecimal digits in the code)
  NoId,     \* no identifier: memset() cleared it, or a dictionary lacks it
  Pieces    \* units of text that fit one chunk

ASSUME NoIdAssumption == NoId \notin ReqIds

StatusCodes ==
  {"NORMAL", "CANCELLED", "ERROR_DICTATION", "ERROR_NO_SPEECH",
   "ERROR_PHONE_CONNECTIVITY", "ERROR_PROTOCOL", "ERROR_TRANSFER",
   "ERROR_SERVER", "ERROR_SERVER_RESULT_TIMEOUT",
   "ERROR_TRANSCRIPT_DELIVERY_TIMEOUT", "ERROR_WS_REQUEST_TIMEOUT",
   "ERROR_RESULT_TRANSFER_TIMEOUT"}

Texts == Seq(Pieces)

NoMsg == [type |-> "NONE"]

\* Watch to phone.
SessionBegin(r) == [type |-> "SESSION_BEGIN", id |-> r]

\* MUTANT: next_chunk_offset is not advanced.
TranscriptChunk_OffsetStuck(r, i, t) ==
  [type |-> "TRANSCRIPT_CHUNK", id |-> r, index |-> i, count |-> Len(t),
   total |-> Len(t), text |-> <<t[1]>>]

TranscriptChunk(r, i, t) ==
  [type |-> "TRANSCRIPT_CHUNK", id |-> r, index |-> i, count |-> Len(t),
   total |-> Len(t), text |-> <<t[i + 1]>>]

SessionEnd(r, s) == [type |-> "SESSION_END", id |-> r, status |-> s]

WatchMessages ==
  [type : {"SESSION_BEGIN"}, id : ReqIds]
    \cup [type : {"SESSION_END"}, id : ReqIds, status : StatusCodes]
    \cup [type : {"TRANSCRIPT_CHUNK"}, id : ReqIds, index : Nat, count : Nat,
          total : Nat, text : Texts]

\* Phone to watch.
SendStarted(r) == [type |-> "SEND_STARTED", id |-> r]

Failure(r, s) == [type |-> "FAILURE", id |-> r, status |-> s]

\* MUTANT: every result chunk repeats the first.
ResultChunks_Repeats(r, success, response) ==
  [i \in 1 .. Len(response) |->
     [type |-> "SERVER_RESULT_CHUNK", id |-> r, index |-> i - 1,
      count |-> Len(response), total |-> Len(response), text |-> <<response[1]>>,
      success |-> success]]

\* buildServerResultChunks: an empty response still travels as one chunk.
ResultChunks(r, success, response) ==
  LET n == Len(response)
      chunk(i, text, count) ==
        [type |-> "SERVER_RESULT_CHUNK", id |-> r, index |-> i,
         count |-> count, total |-> n, text |-> text, success |-> success]
  IN  IF n = 0
        THEN <<chunk(0, <<>>, 1)>>
        ELSE [i \in 1 .. n |-> chunk(i - 1, <<response[i]>>, n)]

PhoneMessages ==
  [type : {"SEND_STARTED"}, id : ReqIds]
    \cup [type : {"FAILURE"}, id : ReqIds, status : StatusCodes]
    \cup [type : {"SERVER_RESULT_CHUNK"}, id : ReqIds, index : Nat,
          count : Nat, total : Nat, text : Texts, success : BOOLEAN]

=============================================================================
