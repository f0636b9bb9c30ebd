-------------------------------- MODULE Utf8 --------------------------------
(***************************************************************************)
(* The watch counts and splits text in bytes (src/c/main.c), the phone in  *)
(* UTF-16 code units (src/pkjs/protocol.js).  Both codings, and what       *)
(* well-formed means by definition rather than by either program.          *)
(***************************************************************************)
EXTENDS Naturals, Sequences

-----------------------------------------------------------------------------
(* The watch: strings are sequences of bytes; offsets start at 0.          *)

\* MUTANT: encoded surrogates (ED A0 to ED BF) pass.
ThreeByteForms_Surrogates ==
  {<<{224}, 160 .. 191>>, <<225 .. 239, 128 .. 191>>}

\* <<first byte, second byte>> of the forms of three and of four bytes.
ThreeByteForms ==
  {<<{224}, 160 .. 191>>, <<225 .. 236, 128 .. 191>>,
   <<{237}, 128 .. 159>>, <<238 .. 239, 128 .. 191>>}

FourByteForms ==
  {<<{240}, 144 .. 191>>, <<241 .. 243, 128 .. 191>>, <<{244}, 128 .. 143>>}

StartsAs(forms, first, second) ==
  \E f \in forms : first \in f[1] /\ second \in f[2]

\* prv_utf8_codepoint_size of what follows `offset`; 0 if it is malformed.
CodePointSize(text, offset) ==
  LET remaining == Len(text) - offset
      b(k) == text[offset + k + 1]
      continues(k) == b(k) \in 128 .. 191
  IN  CASE remaining >= 1 /\ b(0) <= 127 -> 1
        [] remaining >= 2 /\ b(0) \in 194 .. 223 /\ continues(1) -> 2
        [] remaining >= 3 /\ continues(2) /\ StartsAs(ThreeByteForms, b(0), b(1)) -> 3
        [] remaining >= 4 /\ continues(2) /\ continues(3)
             /\ StartsAs(FourByteForms, b(0), b(1)) -> 4
        [] OTHER -> 0

\* prv_valid_utf8.
ValidUtf8(text) ==
  LET valid[offset \in 0 .. Len(text)] ==
        \/ offset = Len(text)
        \/ LET size == CodePointSize(text, offset)
           IN  size > 0 /\ valid[offset + size]
  IN  valid[0]

-----------------------------------------------------------------------------
(* The phone: strings are sequences of UTF-16 code units.                  *)

High(unit) == 55296 <= unit /\ unit <= 56319

Low(unit) == 56320 <= unit /\ unit <= 57343

\* utf8ByteLength throws: a surrogate has no partner.
Unpaired(units) ==
  \E i \in DOMAIN units :
    \/ High(units[i]) /\ (i = Len(units) \/ ~ Low(units[i + 1]))
    \/ Low(units[i]) /\ (i = 1 \/ ~ High(units[i - 1]))

\* MUTANT: a surrogate pair counts as two units of three bytes.
Utf8ByteLength_PairIsSix(units) ==
  LET bytes[i \in 0 .. Len(units)] ==
        IF i = 0 THEN 0
        ELSE bytes[i - 1] + CASE units[i] <= 127 -> 1
                              [] units[i] \in 128 .. 2047 -> 2
                              [] OTHER -> 3
  IN  bytes[Len(units)]

\* What a code unit adds to utf8ByteLength, when surrogates are paired: each
\* half of a pair stands for two of its four bytes.
UnitBytes(unit) ==
  CASE unit <= 127 -> 1
    [] 128 <= unit /\ unit <= 2047 -> 2
    [] High(unit) \/ Low(unit) -> 2
    [] OTHER -> 3

Utf8ByteLength(units) ==
  LET bytes[i \in 0 .. Len(units)] ==
        IF i = 0 THEN 0 ELSE bytes[i - 1] + UnitBytes(units[i])
  IN  bytes[Len(units)]

-----------------------------------------------------------------------------
(* What the codings are, independently of both programs.                   *)

ScalarValue(c) == c <= 1114111 /\ ~ (55296 <= c /\ c <= 57343)

ToUtf8(c) ==
  CASE c < 128 -> <<c>>
    [] c >= 128 /\ c < 2048 -> <<192 + c \div 64, 128 + (c % 64)>>
    [] c >= 2048 /\ c < 65536 ->
         <<224 + c \div 4096, 128 + ((c \div 64) % 64), 128 + (c % 64)>>
    [] OTHER -> <<240 + c \div 262144, 128 + ((c \div 4096) % 64),
                  128 + ((c \div 64) % 64), 128 + (c % 64)>>

ToUtf16(c) ==
  IF c < 65536 THEN <<c>>
  ELSE <<55296 + ((c - 65536) \div 1024), 56320 + ((c - 65536) % 1024)>>

\* The value the payload bits of 1 to 4 bytes spell.
Payload(s) ==
  CASE Len(s) = 1 -> s[1]
    [] Len(s) = 2 -> (s[1] % 32) * 64 + (s[2] % 64)
    [] Len(s) = 3 -> (s[1] % 16) * 4096 + (s[2] % 64) * 64 + (s[3] % 64)
    [] OTHER -> (s[1] % 8) * 262144 + (s[2] % 64) * 4096
                    + (s[3] % 64) * 64 + (s[4] % 64)

\* s is the one encoding of a scalar value.
Encodes(s) ==
  Len(s) \in 1 .. 4 /\ ScalarValue(Payload(s)) /\ ToUtf8(Payload(s)) = s

\* Where characters start, and the byte with those that continue it.
Starts(text) == {i \in DOMAIN text : text[i] \notin 128 .. 191}

Character(text, i) ==
  LET last == CHOOSE j \in i .. Len(text) :
                /\ j = Len(text) \/ j + 1 \in Starts(text)
                /\ \A k \in i + 1 .. j : k \notin Starts(text)
  IN  SubSeq(text, i, last)

WellFormed(text) ==
  /\ text # <<>> => 1 \in Starts(text)
  /\ \A i \in Starts(text) : Encodes(Character(text, i))

\* What PebbleKit JS makes of a well-formed C string, and the C string it
\* makes of a string whose surrogates are paired.
Utf16OfUtf8(text) ==
  LET units[i \in 0 .. Len(text)] ==
        IF i = 0 THEN <<>>
        ELSE units[i - 1] \o (IF i \in Starts(text)
                                 THEN ToUtf16(Payload(Character(text, i)))
                                 ELSE <<>>)
  IN  units[Len(text)]

\* A pair is written where it ends.
BytesAt(units, i) ==
  CASE High(units[i]) -> <<>>
    [] Low(units[i]) ->
         ToUtf8(65536 + (units[i - 1] - 55296) * 1024 + (units[i] - 56320))
    [] OTHER -> ToUtf8(units[i])

Utf8OfUtf16(units) ==
  LET bytes[i \in 0 .. Len(units)] ==
        IF i = 0 THEN <<>> ELSE bytes[i - 1] \o BytesAt(units, i)
  IN  bytes[Len(units)]

=============================================================================
