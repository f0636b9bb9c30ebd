------------------------- MODULE TranscriptTransfer -------------------------
(***************************************************************************)
(* A transcript, byte by byte, from prv_prepare_chunks in src/c/main.c to  *)
(* TranscriptAssembler in src/pkjs/protocol.js.  Watch and Phone count     *)
(* text in pieces that fit one chunk: this module shows that the code      *)
(* finds such pieces, or refuses the transcript before any is sent.        *)
(*                                                                         *)
(* Watch models the handshake around a chunk, its failures and timeouts;   *)
(* here every AppMessage arrives.                                          *)
(***************************************************************************)
EXTENDS Utf8

CONSTANTS
  Transcripts,     \* what dictation may return, as bytes before the NUL
  OutboxSizes,     \* what app_message_outbox_size_maximum may return
  Overhead,        \* dict_calc_buffer_size of a chunk with an empty text
  MaxChunkBytes    \* UINT16_MAX - 1 in the code

ASSUME TranscriptAssumption ==
  \A t \in Transcripts : t \in Seq(1 .. 255) /\ t # <<>>
ASSUME SizeAssumption ==
  OutboxSizes \subseteq Nat /\ Overhead \in Nat /\ MaxChunkBytes \in Nat

VARIABLES
  transcript,      \* s_app.transcript
  outbox_size,     \* s_app.outbox_size
  watch,           \* the other chunk fields of s_app, and where its code is
  link,            \* AppMessages on their way to the phone
  phone            \* TranscriptAssembler, and what became of it

transferVars == <<transcript, outbox_size, watch, link, phone>>

-----------------------------------------------------------------------------

NewAssembler ==
  [chunkCount |-> 0,      \* 0 is null: a chunk's count is positive
   totalBytes |-> 0, nextIndex |-> 0, chunks |-> <<>>, outcome |-> "adding"]

Init ==
  /\ transcript \in Transcripts
  /\ outbox_size \in OutboxSizes
  /\ watch = [at |-> "start", chunk_capacity |-> 0, chunk_count |-> 0,
              next_chunk_index |-> 0, next_chunk_offset |-> 0,
              length |-> 0,     \* of the chunk prv_next_chunk_length measures
              outbox_chunk_bytes |-> 0]
  /\ link = <<>>
  /\ phone = NewAssembler

Refuse == watch' = [watch EXCEPT !.at = "failed"]

\* MUTANT: the space for the dictionary is not taken off.
Measure_WholeOutbox ==
  /\ watch.at = "start"
  /\ watch' = [watch EXCEPT !.at = "counting", !.chunk_capacity = outbox_size]
  /\ UNCHANGED <<transcript, outbox_size, link, phone>>

\* prv_prepare_chunks, up to the loop.
Measure ==
  /\ watch.at = "start"
  /\ IF Overhead >= outbox_size
       THEN Refuse
       ELSE LET space == outbox_size - Overhead
            IN  watch' = [watch EXCEPT
                  !.at = "counting",
                  !.chunk_capacity =
                     IF space > MaxChunkBytes THEN MaxChunkBytes ELSE space]
  /\ UNCHANGED <<transcript, outbox_size, link, phone>>

-----------------------------------------------------------------------------
(* prv_next_chunk_length, which prv_prepare_chunks and prv_send_next_chunk *)
(* call alike: one turn of its loop, and how it returns.                   *)

End == watch.next_chunk_offset + watch.length

Size == CodePointSize(transcript, End)

Measuring ==
  watch.at = "counting" \/ (watch.at = "sending" /\ watch.outbox_chunk_bytes = 0)

Room == watch.length + Size <= watch.chunk_capacity

Grow ==
  /\ Measuring /\ End < Len(transcript) /\ Size > 0 /\ Room
  /\ watch' = [watch EXCEPT !.length = @ + Size]
  /\ UNCHANGED <<transcript, outbox_size, link, phone>>

\* It returns a length.
Measured ==
  /\ Measuring /\ watch.length > 0
  /\ End < Len(transcript) => Size > 0 /\ ~ Room

\* It returns 0, and its caller gives up.
NoChunk ==
  /\ Measuring /\ End < Len(transcript)
  /\ Size = 0 \/ (watch.length = 0 /\ ~ Room)
  /\ Refuse
  /\ UNCHANGED <<transcript, outbox_size, link, phone>>

-----------------------------------------------------------------------------
(* Its callers.                                                            *)

\* prv_prepare_chunks: the rest of a turn of its loop.  The code's local
\* offset is kept in next_chunk_offset, which the loop's end resets.
CountChunk ==
  /\ watch.at = "counting" /\ Measured
  /\ watch' = [watch EXCEPT !.next_chunk_offset = End, !.length = 0,
                            !.chunk_count = @ + 1]
  /\ UNCHANGED <<transcript, outbox_size, link, phone>>

Prepared ==
  /\ watch.at = "counting" /\ watch.next_chunk_offset = Len(transcript)
  /\ watch' = [watch EXCEPT !.at = "sending", !.next_chunk_offset = 0]
  /\ UNCHANGED <<transcript, outbox_size, link, phone>>

\* The dictionary prv_send_chunk writes.
Chunk ==
  [index |-> watch.next_chunk_index, count |-> watch.chunk_count,
   total |-> Len(transcript),
   text |-> SubSeq(transcript, watch.next_chunk_offset + 1, End)]

\* prv_send_next_chunk.
SendChunk ==
  /\ watch.at = "sending" /\ Measured
  /\ watch' = [watch EXCEPT !.outbox_chunk_bytes = watch.length, !.length = 0]
  /\ link' = Append(link, Chunk)
  /\ UNCHANGED <<transcript, outbox_size, phone>>

\* prv_outbox_sent of a chunk: sooner or later than the phone's handler.
ChunkSent ==
  /\ watch.at = "sending" /\ watch.outbox_chunk_bytes > 0
  /\ watch' = [watch EXCEPT
       !.next_chunk_offset = @ + watch.outbox_chunk_bytes,
       !.next_chunk_index = @ + 1,
       !.outbox_chunk_bytes = 0,
       !.at = IF watch.next_chunk_index + 1 < watch.chunk_count
                THEN "sending" ELSE "sent"]
  /\ UNCHANGED <<transcript, outbox_size, link, phone>>

\* parseWatchMessage, of a chunk whose numbers are numbers.
WellFormedChunk(m, units) ==
  /\ m.count > 0 /\ m.total > 0 /\ m.index < m.count
  /\ units # <<>> /\ ~ Unpaired(units)

\* TranscriptAssembler.add throws nothing before it pushes the text.
Fits(m) ==
  /\ phone.chunkCount > 0 =>
       m.count = phone.chunkCount /\ m.total = phone.totalBytes
  /\ m.index = phone.nextIndex

Joined(chunks) ==
  LET joined[i \in 0 .. Len(chunks)] ==
        IF i = 0 THEN <<>> ELSE joined[i - 1] \o chunks[i]
  IN  joined[Len(chunks)]

\* parseWatchMessage and TranscriptAssembler.add, on what PebbleKit JS makes
\* of the C string.
AddChunk ==
  /\ link # <<>> /\ phone.outcome = "adding"
  /\ LET m == Head(link)
         units == Utf16OfUtf8(m.text)
         chunks == Append(phone.chunks, units)
     IN  phone' =
           CASE ~ (WellFormedChunk(m, units) /\ Fits(m)) ->
                  [phone EXCEPT !.outcome = "error"]
             [] WellFormedChunk(m, units) /\ Fits(m) ->
                  [chunkCount |-> m.count, totalBytes |-> m.total,
                   nextIndex |-> phone.nextIndex + 1, chunks |-> chunks,
                   outcome |->
                     CASE phone.nextIndex + 1 < m.count -> "adding"
                       [] phone.nextIndex + 1 >= m.count
                            /\ Utf8ByteLength(Joined(chunks)) = m.total -> "complete"
                       [] OTHER -> "error"]
  /\ link' = Tail(link)
  /\ UNCHANGED <<transcript, outbox_size, watch>>

Done ==
  /\ link = <<>>
  /\ watch.at \in {"sent", "failed"}
  /\ UNCHANGED transferVars

WatchMoves ==
  \/ Measure \/ Grow \/ NoChunk
  \/ CountChunk \/ Prepared
  \/ SendChunk \/ ChunkSent

Next == WatchMoves \/ AddChunk \/ Done

\* Each step is code that runs on, or a callback and a delivery AppMessage
\* makes when nothing fails.
Spec ==
  /\ Init /\ [][Next]_transferVars
  /\ WF_transferVars(WatchMoves)
  /\ WF_transferVars(AddChunk)

-----------------------------------------------------------------------------
(* Properties.                                                             *)

TypeOK ==
  /\ transcript \in Transcripts /\ outbox_size \in OutboxSizes
  /\ watch.at \in {"start", "counting", "sending", "sent", "failed"}
  /\ watch.chunk_capacity \in 0 .. MaxChunkBytes
  /\ watch.next_chunk_offset \in 0 .. Len(transcript)
  /\ {watch.chunk_count, watch.next_chunk_index, watch.length,
      watch.outbox_chunk_bytes}
       \subseteq 0 .. Len(transcript)
  /\ Len(link) <= watch.chunk_count
  /\ phone.outcome \in {"adding", "complete", "error"}

\* The transcript is Unicode text, and its longest character fits a chunk.
Sendable ==
  /\ WellFormed(transcript)
  /\ \A i \in Starts(transcript) :
       LET size == Len(Character(transcript, i))
       IN  size <= MaxChunkBytes /\ Overhead + size <= outbox_size

\* prv_prepare_chunks refuses exactly the transcripts that cannot be sent
\* (specification 8.4), by a walk over bytes that knows nothing of scalar
\* values; and a transfer that began never fails for its text.
RefusesTheUnsendable ==
  /\ watch.at \in {"sending", "sent"} => Sendable
  /\ watch.at = "failed" => ~ Sendable /\ phone = NewAssembler /\ link = <<>>

\* A chunk is some whole characters and fits the outbox with its metadata and
\* its terminator, which Overhead counts.
ChunksAreWhole ==
  /\ TypeOK
  /\ \A i \in DOMAIN link :
       /\ link[i].text # <<>> /\ WellFormed(link[i].text)
       /\ Overhead + Len(link[i].text) <= outbox_size

\* The phone has the transcript, whole, or the watch refused it: the watch
\* counts bytes and the phone code units, and the two lengths agree; the watch
\* walks over the text twice, and announces as many chunks as it sends.
Abstract ==
  INSTANCE TextTransfer WITH
    text <- transcript,
    received <- Utf8OfUtf16(Joined(phone.chunks)),
    outcome <- CASE phone.outcome = "complete" -> "delivered"
                 [] watch.at = "failed" -> "refused"
                 [] OTHER -> "pending"

ImplementsTransfer == Abstract!Spec

=============================================================================
