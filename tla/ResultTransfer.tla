--------------------------- MODULE ResultTransfer ---------------------------
(***************************************************************************)
(* A response, from the result frame parseServerFrame reads in             *)
(* src/pkjs/protocol.js, through buildServerResultChunks, to the buffer    *)
(* prv_receive_server_result_chunk fills in src/c/main.c.                  *)
(*                                                                         *)
(* Phone and Watch model failed sends, timeouts and foreign messages; here *)
(* every AppMessage of the one result arrives.                             *)
(***************************************************************************)
EXTENDS Utf8

CONSTANTS
  Responses,             \* JSON strings, as UTF-16 code units
  MaxResponseBytes,      \* MAX_RESPONSE_BYTES, SERVER_RESPONSE_MAX_BYTES: 1024
  ResponseChunkBytes     \* RESPONSE_CHUNK_BYTES: 256

ASSUME ResponseAssumption ==
  \A r \in Responses : r \in Seq({u \in Nat : u < 65536})
\* splitUtf8 never meets a character that does not fit a chunk.
ASSUME LimitAssumption == MaxResponseBytes \in Nat /\ ResponseChunkBytes \in Nat \ 0 .. 3

VARIABLES
  response,    \* what the server answered
  phone,       \* WatchBridge: its state, the chunks and the next to send
  link,        \* AppMessages on their way to the watch
  watch        \* WatchPhoneBridgeContext: its state and server_response

transferVars == <<response, phone, link, watch>>

-----------------------------------------------------------------------------
(* protocol.js.                                                            *)

\* MUTANT: the limit is applied to code units.
Acceptable_Units(units) == ~ Unpaired(units) /\ Len(units) <= MaxResponseBytes

\* parseServerFrame takes the response, and splitUtf8 then takes it too.
Acceptable(units) ==
  ~ Unpaired(units) /\ Utf8ByteLength(units) <= MaxResponseBytes

\* text.substring: a character is a code unit or a surrogate pair.
NextCharacter ==
  IF High(response[phone.at]) THEN SubSeq(response, phone.at, phone.at + 1)
  ELSE <<response[phone.at]>>

\* MUTANT: a character that exactly fills a chunk opens the next one.
Overflows_WhenFull(chunk) ==
  chunk # <<>> /\ Utf8ByteLength(chunk \o NextCharacter) >= ResponseChunkBytes

Overflows(chunk) ==
  chunk # <<>> /\ Utf8ByteLength(chunk \o NextCharacter) > ResponseChunkBytes

\* What buildServerResultChunks makes of chunk i.
PayloadOf(i) ==
  [index |-> i - 1, count |-> Len(phone.chunks),
   total |-> Utf8ByteLength(response), text |-> phone.chunks[i]]

-----------------------------------------------------------------------------
(* main.c.                                                                 *)

\* The integer tuples PebbleKit JS may make of a number (external).
Tuples(n) ==
  {t \in [type : {"UINT", "INT"}, length : {1, 2, 4}, value : {n}] :
     t.length = 1 => n <= IF t.type = "INT" THEN 127 ELSE 255}

\* prv_tuple_to_uint32 succeeds.
IsUint32(t) ==
  /\ t.type \in {"UINT", "INT"} /\ t.length \in {1, 2, 4}
  /\ t.type = "INT" => t.value >= 0

\* strlen of a C string of n bytes before its terminator.
StrLen(bytes) ==
  LET nuls == {i \in DOMAIN bytes : bytes[i] = 0}
  IN  IF nuls = {} THEN Len(bytes)
      ELSE CHOOSE i \in 0 .. Len(bytes) :
             i + 1 \in nuls /\ \A j \in 1 .. i : j \notin nuls

\* A chunk with fields of the right types and values, and valid text.
ValidChunk(m) ==
  /\ IsUint32(m.index) /\ IsUint32(m.count) /\ IsUint32(m.total)
  /\ m.count.value # 0 /\ m.index.value < m.count.value
  /\ m.total.value <= MaxResponseBytes
  /\ StrLen(m.text) = Len(m.text) /\ ValidUtf8(m.text)

\* The bridge once the first chunk allocated the buffer.
Opened(m) ==
  IF watch.state = "AWAITING_RESULT"
    THEN [state |-> "RECEIVING_RESULT", count |-> m.count.value,
          total |-> m.total.value, next |-> 0, buffer |-> <<>>]
    ELSE watch

\* MUTANT: a chunk that fills the buffer is refused, the last one too.
Appends_Strictly(w, m) ==
  /\ m.count.value = w.count /\ m.total.value = w.total /\ m.index.value = w.next
  /\ Len(w.buffer) + Len(m.text) < w.total

Appends(w, m) ==
  /\ m.count.value = w.count /\ m.total.value = w.total /\ m.index.value = w.next
  /\ Len(w.buffer) + Len(m.text) <= w.total

\* prv_fail frees the buffer.
Failed == [state |-> "FAILED", count |-> 0, total |-> 0, next |-> 0, buffer |-> <<>>]

\* After the append: the last chunk must fill the buffer, no other may.
StateAfter(w) ==
  CASE w.next = w.count /\ Len(w.buffer) = w.total -> "COMPLETE"
    [] w.next # w.count /\ Len(w.buffer) < w.total -> "RECEIVING_RESULT"
    [] OTHER -> "FAILED"

-----------------------------------------------------------------------------

Init ==
  /\ response \in Responses
  /\ phone = [state |-> "awaiting_result", at |-> 1, chunks |-> <<<<>>>>, next |-> 1]
  /\ link = <<>>
  /\ watch = [state |-> "AWAITING_RESULT", count |-> 0, total |-> 0, next |-> 0,
              buffer |-> <<>>]

ResultFrame ==
  /\ phone.state = "awaiting_result"
  /\ phone' = [phone EXCEPT !.state = IF Acceptable(response) THEN "splitting"
                                     ELSE "protocol_error"]
  /\ UNCHANGED <<response, link, watch>>

\* One turn of the loop of splitUtf8.
SplitUtf8 ==
  /\ phone.state = "splitting" /\ phone.at <= Len(response)
  /\ LET last == Len(phone.chunks)
         chunk == phone.chunks[last]
     IN  phone' = [phone EXCEPT
           !.at = @ + Len(NextCharacter),
           !.chunks = IF Overflows(chunk)
                        THEN Append(@, NextCharacter)
                        ELSE [@ EXCEPT ![last] = chunk \o NextCharacter]]
  /\ UNCHANGED <<response, link, watch>>

\* Its end: the last chunk counts, empty or not.
Split ==
  /\ phone.state = "splitting" /\ phone.at > Len(response)
  /\ phone' = [phone EXCEPT !.state = "forwarding_result"]
  /\ UNCHANGED <<response, link, watch>>

\* The C strings PebbleKit JS may make of a text (external): with any NUL in
\* it, or cut at the first one.
CStrings(units) ==
  LET bytes == Utf8OfUtf16(units) IN {bytes, SubSeq(bytes, 1, StrLen(bytes))}

\* sendNext, once the callback of the chunk before it has run.
SendNext ==
  /\ phone.state = "forwarding_result" /\ link = <<>>
  /\ phone.next <= Len(phone.chunks)
  /\ LET p == PayloadOf(phone.next)
     IN  \E text \in CStrings(p.text), total \in Tuples(p.total) :
           link' = <<[index |-> CHOOSE t \in Tuples(p.index) : TRUE,
                      count |-> CHOOSE t \in Tuples(p.count) : TRUE,
                      total |-> total, text |-> text]>>
  /\ phone' = [phone EXCEPT !.next = @ + 1]
  /\ UNCHANGED <<response, watch>>

\* The last payload was taken: sendNext's callback.
Forwarded ==
  /\ phone.state = "forwarding_result" /\ link = <<>>
  /\ phone.next > Len(phone.chunks)
  /\ phone' = [phone EXCEPT !.state = "complete"]
  /\ UNCHANGED <<response, link, watch>>

\* prv_receive_server_result_chunk; a chunk it does not take fails the run.
ReceiveChunk ==
  /\ link # <<>>
  /\ LET m == Head(link)
         w == Opened(m)
         after == [w EXCEPT !.next = @ + 1, !.buffer = @ \o m.text]
         state == IF (watch.state = "AWAITING_RESULT" => m.index.value = 0)
                       /\ ValidChunk(m) /\ Appends(w, m)
                    THEN StateAfter(after) ELSE "FAILED"
     IN  watch' = CASE watch.state = "FAILED" -> watch
                    [] watch.state # "FAILED" /\ state = "FAILED" -> Failed
                    [] OTHER -> [after EXCEPT !.state = state]
  /\ link' = Tail(link)
  /\ UNCHANGED <<response, phone>>

Done ==
  /\ phone.state \in {"protocol_error", "complete"}
  /\ UNCHANGED transferVars

Next ==
  \/ ResultFrame \/ SplitUtf8 \/ Split
  \/ SendNext \/ Forwarded
  \/ ReceiveChunk
  \/ Done

\* Callbacks run, and AppMessage delivers when nothing fails.
Spec == Init /\ [][Next]_transferVars /\ WF_transferVars(Next)

-----------------------------------------------------------------------------
(* Properties.                                                             *)

TypeOK ==
  /\ response \in Responses
  /\ phone.state \in {"awaiting_result", "splitting", "forwarding_result",
                      "complete", "protocol_error"}
  /\ phone.next \in 1 .. Len(phone.chunks) + 1
  /\ Len(link) <= 1
  /\ watch.state \in {"AWAITING_RESULT", "RECEIVING_RESULT", "COMPLETE", "FAILED"}
  /\ Len(watch.buffer) <= watch.total /\ watch.total <= MaxResponseBytes

\* The phone rejects exactly the responses that have no UTF-8 encoding or
\* one that is too long, the boundary included (specification 9.3).
RejectsTheOversized ==
  LET paired == ~ Unpaired(response)
  IN  /\ phone.state = "protocol_error" /\ paired =>
           Len(Utf8OfUtf16(response)) > MaxResponseBytes
      /\ phone.state \in {"splitting", "forwarding_result", "complete"} =>
           paired /\ Len(Utf8OfUtf16(response)) <= MaxResponseBytes

\* Every chunk, encoded, is some whole characters and within the limit
\* (specification 8.6), none could have taken the first character of the next
\* one, and only an empty response has an empty chunk: the phone sends as few
\* AppMessages as the limit allows.
ChunksAreFull ==
  /\ TypeOK
  /\ phone.state \in {"forwarding_result", "complete"} =>
    \A i \in DOMAIN phone.chunks :
      LET chunk == phone.chunks[i]
          next == phone.chunks[i + 1]
          first == IF High(next[1]) THEN SubSeq(next, 1, 2) ELSE <<next[1]>>
      IN  /\ ~ Unpaired(chunk) /\ Len(Utf8OfUtf16(chunk)) <= ResponseChunkBytes
          /\ chunk = <<>> => response = <<>>
          /\ i < Len(phone.chunks) => Len(Utf8OfUtf16(chunk \o first)) > ResponseChunkBytes

HasNul == \E i \in DOMAIN response : response[i] = 0

\* The two programs measure alike: what the phone announces and splits by
\* code units fills, chunk by chunk, the buffer the watch counts in bytes.
\* The watch takes whatever the phone accepted, with one exception: a U+0000
\* is a byte to the phone and the end of the string to the watch.
\* A response with a U+0000 counts as refused, by the phone or the watch.
Abstract ==
  INSTANCE TextTransfer WITH
    text <- IF Unpaired(response) \/ HasNul THEN <<>> ELSE Utf8OfUtf16(response),
    received <- IF HasNul THEN <<>> ELSE watch.buffer,
    outcome <- CASE watch.state = "COMPLETE" -> "delivered"
                 [] phone.state = "protocol_error" -> "refused"
                 [] watch.state = "FAILED" -> IF HasNul THEN "refused" ELSE "failed"
                 [] OTHER -> "pending"

ImplementsTransfer == Abstract!Spec

=============================================================================
