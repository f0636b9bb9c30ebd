------------------------- MODULE TranscriptProofs -------------------------
(***************************************************************************)
(* TranscriptTransfer's type invariant and its two safety invariants, for  *)
(* every transcript, every size of the outbox and every overhead.          *)
(*                                                                         *)
(* First what prv_utf8_codepoint_size accepts: it compares bytes, and      *)
(* never computes a scalar value, yet its four cases are exactly the       *)
(* encodings of scalar values (SizedIsEncoded, EncodedIsSized).  Then the  *)
(* walk over a text, which needs no induction over the text: Walked says   *)
(* of each character passed that it was measured, fits and ends where      *)
(* another starts, so each step of the code adds one instance of that.     *)
(***************************************************************************)
EXTENDS TranscriptTransfer, SequenceTheorems, WellFoundedInduction, TLAPS

-----------------------------------------------------------------------------
(* One character: what the watch's comparisons of bytes accept is what a   *)
(* scalar value is encoded as.                                             *)

LEMMA EncodesAs ==
  ASSUME NEW s, Len(s) \in 1 .. 4,
         ScalarValue(Payload(s)), ToUtf8(Payload(s)) = s
  PROVE  Encodes(s)
BY Zenon DEF Encodes

LEMMA OneByte ==
  ASSUME NEW b \in Nat, b < 128
  PROVE  Encodes(<<b>>)
<1>1. Payload(<<b>>) = b
  BY SMT DEF Payload
<1>2. ScalarValue(b)
  BY SMT DEF ScalarValue
<1>3. ToUtf8(b) = <<b>>
  BY SMT DEF ToUtf8
<1>4. Len(<<b>>) \in 1 .. 4
  BY SMT
<1> QED
  BY <1>1, <1>2, <1>3, <1>4, EncodesAs, Zenon

LEMMA TwoBytes ==
  ASSUME NEW a \in Nat, NEW b \in Nat, 194 <= a, a <= 223, 128 <= b, b <= 191
  PROVE  Encodes(<<a, b>>)
<1>1. PICK h \in Nat : a = 192 + h
  BY SMT
<1>2. PICK l \in Nat : b = 128 + l
  BY SMT
<1>3. 2 <= h /\ h < 32 /\ l < 64
  BY <1>1, <1>2, SMT
<1>4. PICK p \in Nat : p = h * 64 + l
  BY SMT
<1>5. p >= 128 /\ p < 2048 /\ p \div 64 = h /\ p % 64 = l
  BY <1>3, <1>4, SMT
<1>6. a % 32 = h /\ b % 64 = l
  BY <1>1, <1>2, <1>3, SMT
<1>7. PICK s : s = <<a, b>>
  OBVIOUS
<1>8. Payload(s) = p
  BY <1>4, <1>6, <1>7, SMT DEF Payload
<1>9. ScalarValue(p)
  BY <1>5, SMT DEF ScalarValue
<1>10. ToUtf8(p) = s
  BY <1>1, <1>2, <1>5, <1>7, SMT DEF ToUtf8
<1>11. Len(s) \in 1 .. 4
  BY <1>7, SMT
<1>12. Encodes(s)
  BY <1>8, <1>9, <1>10, <1>11, EncodesAs, Zenon
<1> QED
  BY <1>7, <1>12, Zenon

LEMMA ThreeBytes ==
  ASSUME NEW a \in Nat, NEW b \in Nat, NEW c \in Nat, 224 <= a, a <= 239,
         128 <= b, b <= 191, 128 <= c, c <= 191,
         a = 224 => b >= 160, a = 237 => b < 160
  PROVE  Encodes(<<a, b, c>>)
<1>1. PICK h \in Nat : a = 224 + h
  BY SMT
<1>2. PICK m \in Nat : b = 128 + m
  BY SMT
<1>3. PICK l \in Nat : c = 128 + l
  BY SMT
<1>4. /\ h < 16 /\ m < 64 /\ l < 64
      /\ h = 0 => m >= 32
      /\ h = 13 => m < 32
  BY <1>1, <1>2, <1>3, SMT
<1>5. PICK p \in Nat : p = h * 4096 + m * 64 + l
  BY SMT
<1>6. p >= 2048 /\ p < 65536 /\ ~ (55296 <= p /\ p <= 57343)
  BY <1>4, <1>5, SMT
<1>7. p \div 4096 = h /\ p \div 64 = h * 64 + m /\ p % 64 = l
  BY <1>4, <1>5, SMT
<1>8. (p \div 64) % 64 = m
  BY <1>4, <1>7, SMT
<1>9. a % 16 = h /\ b % 64 = m /\ c % 64 = l
  BY <1>1, <1>2, <1>3, <1>4, SMT
<1>10. PICK s : s = <<a, b, c>>
  OBVIOUS
<1>11. Payload(s) = p
  BY <1>5, <1>9, <1>10, SMT DEF Payload
<1>12. ScalarValue(p)
  BY <1>6, SMT DEF ScalarValue
<1>13. ToUtf8(p) = s
  BY <1>1, <1>2, <1>3, <1>6, <1>7, <1>8, <1>10, SMT DEF ToUtf8
<1>14. Len(s) \in 1 .. 4
  BY <1>10, SMT
<1>15. Encodes(s)
  BY <1>11, <1>12, <1>13, <1>14, EncodesAs, Zenon
<1> QED
  BY <1>10, <1>15, Zenon

LEMMA FourBytes ==
  ASSUME NEW a \in Nat, NEW b \in Nat, NEW c \in Nat, NEW d \in Nat,
         240 <= a, a <= 244, 128 <= b, b <= 191, 128 <= c, c <= 191,
         128 <= d, d <= 191, a = 240 => b >= 144, a = 244 => b < 144
  PROVE  Encodes(<<a, b, c, d>>)
<1>1. PICK h \in Nat : a = 240 + h
  BY SMT
<1>2. PICK k \in Nat : b = 128 + k
  BY SMT
<1>3. PICK m \in Nat : c = 128 + m
  BY SMT
<1>4. PICK l \in Nat : d = 128 + l
  BY SMT
<1>5. /\ h <= 4 /\ k < 64 /\ m < 64 /\ l < 64
      /\ h = 0 => k >= 16
      /\ h = 4 => k < 16
  BY <1>1, <1>2, <1>3, <1>4, SMT
<1>6. PICK p \in Nat : p = h * 262144 + k * 4096 + m * 64 + l
  BY SMT
<1>7. p >= 65536 /\ p <= 1114111
  BY <1>5, <1>6, SMT
<1>8. p \div 262144 = h /\ p \div 4096 = h * 64 + k
  BY <1>5, <1>6, SMT
<1>9. p \div 64 = (h * 64 + k) * 64 + m /\ p % 64 = l
  BY <1>5, <1>6, SMT
<1>10. (p \div 4096) % 64 = k
  BY <1>5, <1>8, SMT
<1>11. (p \div 64) % 64 = m
  BY <1>5, <1>9, SMT
<1>12. a % 8 = h /\ b % 64 = k /\ c % 64 = m /\ d % 64 = l
  BY <1>1, <1>2, <1>3, <1>4, <1>5, SMT
<1>13. PICK s : s = <<a, b, c, d>>
  OBVIOUS
<1>14. Payload(s) = p
  BY <1>6, <1>12, <1>13, SMT DEF Payload
<1>15. ScalarValue(p)
  BY <1>7, SMT DEF ScalarValue
<1>16. ToUtf8(p) = s
  BY <1>1, <1>2, <1>3, <1>4, <1>7, <1>8, <1>9, <1>10, <1>11, <1>13, SMT DEF ToUtf8
<1>17. Len(s) \in 1 .. 4
  BY <1>13, SMT
<1>18. Encodes(s)
  BY <1>14, <1>15, <1>16, <1>17, EncodesAs, Zenon
<1> QED
  BY <1>13, <1>18, Zenon

\* A sequence of one to four numbers, written out.
LEMMA TupleOf ==
  ASSUME NEW s \in Seq(Nat), Len(s) \in 1 .. 4
  PROVE  \/ \E a \in Nat : s = <<a>>
         \/ \E a, b \in Nat : s = <<a, b>>
         \/ \E a, b, c \in Nat : s = <<a, b, c>>
         \/ \E a, b, c, d \in Nat : s = <<a, b, c, d>>
<1>1. \A k \in 1 .. Len(s) : s[k] \in Nat
  BY SMT
<1>2. CASE Len(s) = 1
  <2>1. s = <<s[1]>>
    BY <1>2, SMT
  <2>2. s[1] \in Nat
    BY <1>1, <1>2, SMT
  <2> QED
    BY <2>1, <2>2, Zenon
<1>3. CASE Len(s) = 2
  <2>1. s = <<s[1], s[2]>>
    BY <1>3, SMT
  <2>2. s[1] \in Nat /\ s[2] \in Nat
    BY <1>1, <1>3, SMT
  <2> QED
    BY <2>1, <2>2, Zenon
<1>4. CASE Len(s) = 3
  <2>1. s = <<s[1], s[2], s[3]>>
    BY <1>4, SMT
  <2>2. s[1] \in Nat /\ s[2] \in Nat /\ s[3] \in Nat
    BY <1>1, <1>4, SMT
  <2> QED
    BY <2>1, <2>2, Zenon
<1>5. CASE Len(s) = 4
  <2>1. s = <<s[1], s[2], s[3], s[4]>>
    BY <1>5, SMT
  <2>2. s[1] \in Nat /\ s[2] \in Nat /\ s[3] \in Nat /\ s[4] \in Nat
    BY <1>1, <1>5, SMT
  <2> QED
    BY <2>1, <2>2, Zenon
<1> QED
  BY <1>2, <1>3, <1>4, <1>5, SMT

\* What the tables of first and second bytes amount to.
Continues(b) == 128 <= b /\ b <= 191

LEMMA ThreeByteStarts ==
  ASSUME NEW x \in Nat, NEW y \in Nat
  PROVE  StartsAs(ThreeByteForms, x, y) <=>
           /\ 224 <= x /\ x <= 239 /\ Continues(y)
           /\ x = 224 => y >= 160
           /\ x = 237 => y < 160
<1>1. PICK A, C, E, G : A = {224} /\ C = 225 .. 236 /\ E = {237} /\ G = 238 .. 239
  OBVIOUS
<1>2. PICK B, D, F : B = 160 .. 191 /\ D = 128 .. 191 /\ F = 128 .. 159
  OBVIOUS
<1>3. ThreeByteForms = {<<A, B>>, <<C, D>>, <<E, F>>, <<G, D>>}
  BY <1>1, <1>2, SMT DEF ThreeByteForms
<1>4. StartsAs(ThreeByteForms, x, y) <=>
        \/ x \in A /\ y \in B
        \/ x \in C /\ y \in D
        \/ x \in E /\ y \in F
        \/ x \in G /\ y \in D
  BY <1>3, SMT DEF StartsAs
<1>5. /\ x \in A <=> x = 224
      /\ x \in C <=> 225 <= x /\ x <= 236
      /\ x \in E <=> x = 237
      /\ x \in G <=> 238 <= x /\ x <= 239
  BY <1>1, SMT
<1>6. /\ y \in B <=> 160 <= y /\ y <= 191
      /\ y \in D <=> 128 <= y /\ y <= 191
      /\ y \in F <=> 128 <= y /\ y <= 159
  BY <1>2, SMT
<1> QED
  BY <1>4, <1>5, <1>6, SMT DEF Continues

LEMMA FourByteStarts ==
  ASSUME NEW x \in Nat, NEW y \in Nat
  PROVE  StartsAs(FourByteForms, x, y) <=>
           /\ 240 <= x /\ x <= 244 /\ Continues(y)
           /\ x = 240 => y >= 144
           /\ x = 244 => y < 144
<1>1. PICK A, C, E : A = {240} /\ C = 241 .. 243 /\ E = {244}
  OBVIOUS
<1>2. PICK B, D, F : B = 144 .. 191 /\ D = 128 .. 191 /\ F = 128 .. 143
  OBVIOUS
<1>3. FourByteForms = {<<A, B>>, <<C, D>>, <<E, F>>}
  BY <1>1, <1>2, SMT DEF FourByteForms
<1>4. StartsAs(FourByteForms, x, y) <=>
        \/ x \in A /\ y \in B
        \/ x \in C /\ y \in D
        \/ x \in E /\ y \in F
  BY <1>3, SMT DEF StartsAs
<1>5. /\ x \in A <=> x = 240
      /\ x \in C <=> 241 <= x /\ x <= 243
      /\ x \in E <=> x = 244
  BY <1>1, SMT
<1>6. /\ y \in B <=> 144 <= y /\ y <= 191
      /\ y \in D <=> 128 <= y /\ y <= 191
      /\ y \in F <=> 128 <= y /\ y <= 143
  BY <1>2, SMT
<1> QED
  BY <1>4, <1>5, <1>6, SMT DEF Continues

\* The first n of four bytes are those of a character.
Bytes(n, a, b, c, d) ==
  \/ n = 1 /\ a < 128
  \/ n = 2 /\ 194 <= a /\ a <= 223 /\ Continues(b)
  \/ /\ n = 3 /\ 224 <= a /\ a <= 239 /\ Continues(b) /\ Continues(c)
     /\ a = 224 => b >= 160
     /\ a = 237 => b < 160
  \/ /\ n = 4 /\ 240 <= a /\ a <= 244
     /\ Continues(b) /\ Continues(c) /\ Continues(d)
     /\ a = 240 => b >= 144
     /\ a = 244 => b < 144

Form(s) == Bytes(Len(s), s[1], s[2], s[3], s[4])

\* n bytes after the offset are a character's.
FormAt(text, offset, n) ==
  /\ offset + n <= Len(text)
  /\ Bytes(n, text[offset + 1], text[offset + 2], text[offset + 3], text[offset + 4])

LEMMA BytesOfFirst ==
  ASSUME NEW n \in 1 .. 4, NEW s, NEW t, NEW i \in Nat,
         \A k \in 1 .. n : s[k] = t[i + k]
  PROVE  Bytes(n, s[1], s[2], s[3], s[4]) <=> Bytes(n, t[i + 1], t[i + 2], t[i + 3], t[i + 4])
<1>1. CASE n = 1
  <2>1. s[1] = t[i + 1]
    BY <1>1, SMT
  <2> QED
    BY <1>1, <2>1, SMT DEF Bytes
<1>2. CASE n = 2
  <2>1. s[1] = t[i + 1] /\ s[2] = t[i + 2]
    BY <1>2, SMT
  <2> QED
    BY <1>2, <2>1, SMT DEF Bytes
<1>3. CASE n = 3
  <2>1. s[1] = t[i + 1] /\ s[2] = t[i + 2] /\ s[3] = t[i + 3]
    BY <1>3, SMT
  <2> QED
    BY <1>3, <2>1, SMT DEF Bytes
<1>4. CASE n = 4
  <2>1. s[1] = t[i + 1] /\ s[2] = t[i + 2] /\ s[3] = t[i + 3] /\ s[4] = t[i + 4]
    BY <1>4, SMT
  <2> QED
    BY <1>4, <2>1, SMT DEF Bytes
<1> QED
  BY <1>1, <1>2, <1>3, <1>4, SMT

LEMMA FormEncodes ==
  ASSUME NEW s \in Seq(Nat), Form(s)
  PROVE  Encodes(s)
<1>1. Len(s) \in 1 .. 4
  BY SMT DEF Form, Bytes
<1>2. CASE \E a \in Nat : s = <<a>>
  <2>1. PICK a \in Nat : s = <<a>>
    BY <1>2
  <2>2. Len(s) = 1 /\ s[1] = a
    BY <2>1, SMT
  <2>3. a < 128
    BY <2>2, SMT DEF Form, Bytes
  <2> QED
    BY <2>1, <2>3, OneByte, Zenon
<1>3. CASE \E a, b \in Nat : s = <<a, b>>
  <2>1. PICK a \in Nat, b \in Nat : s = <<a, b>>
    BY <1>3
  <2>2. Len(s) = 2 /\ s[1] = a /\ s[2] = b
    BY <2>1, SMT
  <2>3. 194 <= a /\ a <= 223 /\ 128 <= b /\ b <= 191
    BY <2>2, SMT DEF Form, Bytes, Continues
  <2>4. Encodes(<<a, b>>)
    BY <2>3, TwoBytes
  <2> QED
    BY <2>1, <2>4, Zenon
<1>4. CASE \E a, b, c \in Nat : s = <<a, b, c>>
  <2>1. PICK a \in Nat, b \in Nat, c \in Nat : s = <<a, b, c>>
    BY <1>4
  <2>2. Len(s) = 3 /\ s[1] = a /\ s[2] = b /\ s[3] = c
    BY <2>1, SMT
  <2>3. /\ 224 <= a /\ a <= 239 /\ 128 <= b /\ b <= 191 /\ 128 <= c /\ c <= 191
        /\ a = 224 => b >= 160
        /\ a = 237 => b < 160
    BY <2>2, SMT DEF Form, Bytes, Continues
  <2>4. Encodes(<<a, b, c>>)
    BY <2>3, ThreeBytes
  <2> QED
    BY <2>1, <2>4, Zenon
<1>5. CASE \E a, b, c, d \in Nat : s = <<a, b, c, d>>
  <2>1. PICK a \in Nat, b \in Nat, c \in Nat, d \in Nat : s = <<a, b, c, d>>
    BY <1>5
  <2>2. Len(s) = 4 /\ s[1] = a /\ s[2] = b /\ s[3] = c /\ s[4] = d
    BY <2>1, SMT
  <2>3. /\ 240 <= a /\ a <= 244 /\ 128 <= b /\ b <= 191
        /\ 128 <= c /\ c <= 191 /\ 128 <= d /\ d <= 191
        /\ a = 240 => b >= 144
        /\ a = 244 => b < 144
    BY <2>2, SMT DEF Form, Bytes, Continues
  <2>4. Encodes(<<a, b, c, d>>)
    BY <2>3, FourBytes
  <2> QED
    BY <2>1, <2>4, Zenon
<1> QED
  BY <1>1, <1>2, <1>3, <1>4, <1>5, TupleOf, Zenon

LEMMA PayloadType ==
  ASSUME NEW s \in Seq(Nat), Len(s) \in 1 .. 4
  PROVE  Payload(s) \in Nat
<1>1. \A a \in Nat : a % 8 \in Nat /\ a % 16 \in Nat /\ a % 32 \in Nat /\ a % 64 \in Nat
  BY SMT
<1>2. ASSUME NEW a \in Nat, s = <<a>>
      PROVE  Payload(s) \in Nat
  BY <1>2, SMT DEF Payload
<1>3. ASSUME NEW a \in Nat, NEW b \in Nat, s = <<a, b>>
      PROVE  Payload(s) \in Nat
  <2>1. PICK h \in Nat, l \in Nat : h = a % 32 /\ l = b % 64
    BY <1>1, Zenon
  <2>2. Payload(s) = h * 64 + l
    BY <1>3, <2>1, SMT DEF Payload
  <2> QED
    BY <2>2, SMT
<1>4. ASSUME NEW a \in Nat, NEW b \in Nat, NEW c \in Nat, s = <<a, b, c>>
      PROVE  Payload(s) \in Nat
  <2>1. PICK h \in Nat, m \in Nat, l \in Nat : h = a % 16 /\ m = b % 64 /\ l = c % 64
    BY <1>1, Zenon
  <2>2. Payload(s) = h * 4096 + m * 64 + l
    BY <1>4, <2>1, SMT DEF Payload
  <2> QED
    BY <2>2, SMT
<1>5. ASSUME NEW a \in Nat, NEW b \in Nat, NEW c \in Nat, NEW d \in Nat, s = <<a, b, c, d>>
      PROVE  Payload(s) \in Nat
  <2>1. PICK h \in Nat, k \in Nat, m \in Nat, l \in Nat :
          h = a % 8 /\ k = b % 64 /\ m = c % 64 /\ l = d % 64
    BY <1>1, Zenon
  <2>2. Payload(s) = h * 262144 + k * 4096 + m * 64 + l
    BY <1>5, <2>1, SMT DEF Payload
  <2> QED
    BY <2>2, SMT
<1>6. \/ \E a \in Nat : s = <<a>>
      \/ \E a, b \in Nat : s = <<a, b>>
      \/ \E a, b, c \in Nat : s = <<a, b, c>>
      \/ \E a, b, c, d \in Nat : s = <<a, b, c, d>>
  BY TupleOf
<1> QED
  BY <1>2, <1>3, <1>4, <1>5, <1>6

LEMMA EncodedForm ==
  ASSUME NEW s \in Seq(Nat), Encodes(s)
  PROVE  Form(s)
<1>1. Len(s) \in 1 .. 4 /\ ScalarValue(Payload(s)) /\ ToUtf8(Payload(s)) = s
  BY Zenon DEF Encodes
<1>2. Payload(s) \in Nat
  BY <1>1, PayloadType
<1>3. PICK p \in Nat : p = Payload(s)
  BY <1>2
<1>4. p <= 1114111 /\ ~ (55296 <= p /\ p <= 57343)
  BY <1>1, <1>3, SMT DEF ScalarValue
<1>5. CASE p < 128
  <2>1. s = <<p>>
    BY SMT, <1>1, <1>3, <1>5 DEF ToUtf8
  <2> QED
    BY SMT, <1>5, <2>1 DEF Form, Bytes
<1>6. CASE p >= 128 /\ p < 2048
  <2>1. s = <<192 + p \div 64, 128 + (p % 64)>>
    BY SMT, <1>1, <1>3, <1>6 DEF ToUtf8
  <2>2. 2 <= p \div 64 /\ p \div 64 < 32 /\ 0 <= p % 64 /\ p % 64 < 64
    BY SMT, <1>6
  <2> QED
    BY SMT, <2>1, <2>2 DEF Form, Bytes, Continues
<1>7. CASE p >= 2048 /\ p < 65536
  <2>1. s = <<224 + p \div 4096, 128 + ((p \div 64) % 64), 128 + (p % 64)>>
    BY SMT, <1>1, <1>3, <1>7 DEF ToUtf8
  <2>2. /\ 0 <= p \div 4096 /\ p \div 4096 < 16
        /\ 0 <= (p \div 64) % 64 /\ (p \div 64) % 64 < 64
        /\ 0 <= p % 64 /\ p % 64 < 64
    BY SMT, <1>7
  <2>3. p \div 4096 = 0 => (p \div 64) % 64 >= 32
    BY SMT, <1>7
  <2>4. p \div 4096 = 13 => (p \div 64) % 64 < 32
    BY SMT, <1>4
  <2> QED
    BY SMT, <2>1, <2>2, <2>3, <2>4 DEF Form, Bytes, Continues
<1>8. CASE p >= 65536
  <2>1. s = <<240 + p \div 262144, 128 + ((p \div 4096) % 64),
              128 + ((p \div 64) % 64), 128 + (p % 64)>>
    BY SMT, <1>1, <1>3, <1>8 DEF ToUtf8
  <2>2. /\ 0 <= p \div 262144 /\ p \div 262144 <= 4
        /\ 0 <= (p \div 4096) % 64 /\ (p \div 4096) % 64 < 64
        /\ 0 <= (p \div 64) % 64 /\ (p \div 64) % 64 < 64
        /\ 0 <= p % 64 /\ p % 64 < 64
    BY SMT, <1>4, <1>8
  <2>3. p \div 262144 = 0 => (p \div 4096) % 64 >= 16
    BY SMT, <1>8
  <2>4. p \div 262144 = 4 => (p \div 4096) % 64 < 16
    BY SMT, <1>4
  <2> QED
    BY SMT, <2>1, <2>2, <2>3, <2>4 DEF Form, Bytes, Continues
<1> QED
  BY SMT, <1>5, <1>6, <1>7, <1>8

-----------------------------------------------------------------------------
(* prv_utf8_codepoint_size finds a character exactly where there is one.   *)

\* The guards of CodePointSize, in its order.
One(text, offset) ==
  Len(text) - offset >= 1 /\ text[offset + 0 + 1] <= 127
Two(text, offset) ==
  /\ Len(text) - offset >= 2
  /\ text[offset + 0 + 1] \in 194 .. 223 /\ text[offset + 1 + 1] \in 128 .. 191
Three(text, offset) ==
  /\ Len(text) - offset >= 3 /\ text[offset + 2 + 1] \in 128 .. 191
  /\ StartsAs(ThreeByteForms, text[offset + 0 + 1], text[offset + 1 + 1])
Four(text, offset) ==
  /\ Len(text) - offset >= 4
  /\ text[offset + 2 + 1] \in 128 .. 191 /\ text[offset + 3 + 1] \in 128 .. 191
  /\ StartsAs(FourByteForms, text[offset + 0 + 1], text[offset + 1 + 1])

LEMMA SizeByGuards ==
  ASSUME NEW text, NEW offset
  PROVE  CodePointSize(text, offset) =
           CASE One(text, offset) -> 1
             [] Two(text, offset) -> 2
             [] Three(text, offset) -> 3
             [] Four(text, offset) -> 4
             [] OTHER -> 0
BY Zenon DEF CodePointSize, One, Two, Three, Four

LEMMA Guards ==
  ASSUME NEW text \in Seq(Nat), NEW offset \in Nat
  PROVE  /\ One(text, offset) <=> FormAt(text, offset, 1)
         /\ Two(text, offset) <=> FormAt(text, offset, 2)
         /\ Three(text, offset) <=> FormAt(text, offset, 3)
         /\ Four(text, offset) <=> FormAt(text, offset, 4)
<1>1. \A b \in Nat : b \in 128 .. 191 <=> Continues(b)
  BY SMT DEF Continues
<1>2. \A b \in Nat : b \in 194 .. 223 <=> 194 <= b /\ b <= 223
  BY SMT
<1>3. offset + 0 + 1 = offset + 1 /\ offset + 1 + 1 = offset + 2
      /\ offset + 2 + 1 = offset + 3 /\ offset + 3 + 1 = offset + 4
  BY SMT
<1>4. \A k \in 1 .. 4 : Len(text) - offset >= k <=> offset + k <= Len(text)
  BY SMT
<1>5. \A n, k \in 1 .. 4 : k <= n /\ offset + n <= Len(text) => text[offset + k] \in Nat
  BY SMT
<1>6. One(text, offset) <=> FormAt(text, offset, 1)
  BY <1>3, <1>4, <1>5, SMT DEF One, FormAt, Bytes
<1>7. Two(text, offset) <=> FormAt(text, offset, 2)
  <2>1. CASE offset + 2 <= Len(text)
    <3>0. Len(text) - offset >= 2
      BY <2>1, SMT
    <3>1. text[offset + 1] \in Nat /\ text[offset + 2] \in Nat
      BY <1>5, <2>1, SMT
    <3>2. Two(text, offset) <=>
            /\ 194 <= text[offset + 1] /\ text[offset + 1] <= 223
            /\ Continues(text[offset + 2])
      <4>1. Two(text, offset) <=>
              text[offset + 1] \in 194 .. 223 /\ text[offset + 2] \in 128 .. 191
        BY <1>3, <3>0, SMT DEF Two
      <4>2. text[offset + 1] \in 194 .. 223 <=>
              194 <= text[offset + 1] /\ text[offset + 1] <= 223
        BY <1>2, <3>1, Zenon
      <4>3. text[offset + 2] \in 128 .. 191 <=> Continues(text[offset + 2])
        BY <1>1, <3>1, Zenon
      <4> QED
        BY <4>1, <4>2, <4>3, Zenon
    <3>3. FormAt(text, offset, 2) <=>
            /\ 194 <= text[offset + 1] /\ text[offset + 1] <= 223
            /\ Continues(text[offset + 2])
      BY <2>1, SMT DEF FormAt, Bytes
    <3> QED
      BY <3>2, <3>3, Zenon
  <2>2. CASE ~ (offset + 2 <= Len(text))
    BY <1>4, <2>2, SMT DEF Two, FormAt
  <2> QED
    BY <2>1, <2>2
<1>8. Three(text, offset) <=> FormAt(text, offset, 3)
  <2>1. CASE offset + 3 <= Len(text)
    <3>0. Len(text) - offset >= 3
      BY <2>1, SMT
    <3>1. text[offset + 1] \in Nat /\ text[offset + 2] \in Nat /\ text[offset + 3] \in Nat
      BY <1>5, <2>1, SMT
    <3>2. Three(text, offset) <=>
            /\ Continues(text[offset + 3])
            /\ StartsAs(ThreeByteForms, text[offset + 1], text[offset + 2])
      <4>1. Three(text, offset) <=>
              /\ text[offset + 3] \in 128 .. 191
              /\ StartsAs(ThreeByteForms, text[offset + 1], text[offset + 2])
        BY <1>3, <3>0, Zenon DEF Three
      <4> QED
        BY <1>1, <3>1, <4>1, Zenon
    <3>3. FormAt(text, offset, 3) <=>
            /\ 224 <= text[offset + 1] /\ text[offset + 1] <= 239
            /\ text[offset + 1] = 224 => text[offset + 2] >= 160
            /\ text[offset + 1] = 237 => text[offset + 2] < 160
            /\ Continues(text[offset + 2]) /\ Continues(text[offset + 3])
      BY <2>1, SMT DEF FormAt, Bytes
    <3>4. StartsAs(ThreeByteForms, text[offset + 1], text[offset + 2]) <=>
            /\ 224 <= text[offset + 1] /\ text[offset + 1] <= 239
            /\ Continues(text[offset + 2])
            /\ text[offset + 1] = 224 => text[offset + 2] >= 160
            /\ text[offset + 1] = 237 => text[offset + 2] < 160
      <4>1. PICK x \in Nat, y \in Nat : x = text[offset + 1] /\ y = text[offset + 2]
        BY <3>1, Zenon
      <4>2. StartsAs(ThreeByteForms, x, y) <=>
              /\ 224 <= x /\ x <= 239 /\ Continues(y)
              /\ x = 224 => y >= 160
              /\ x = 237 => y < 160
        BY ThreeByteStarts, Zenon
      <4> QED
        BY <4>1, <4>2, SMT
    <3> QED
      BY <3>2, <3>3, <3>4, SMT
  <2>2. CASE ~ (offset + 3 <= Len(text))
    BY <1>4, <2>2, SMT DEF Three, FormAt
  <2> QED
    BY <2>1, <2>2
<1>9. Four(text, offset) <=> FormAt(text, offset, 4)
  <2>1. CASE offset + 4 <= Len(text)
    <3>0. Len(text) - offset >= 4
      BY <2>1, SMT
    <3>1. /\ text[offset + 1] \in Nat /\ text[offset + 2] \in Nat
          /\ text[offset + 3] \in Nat /\ text[offset + 4] \in Nat
      BY <1>5, <2>1, SMT
    <3>2. Four(text, offset) <=>
            /\ Continues(text[offset + 3]) /\ Continues(text[offset + 4])
            /\ StartsAs(FourByteForms, text[offset + 1], text[offset + 2])
      <4>1. Four(text, offset) <=>
              /\ text[offset + 3] \in 128 .. 191 /\ text[offset + 4] \in 128 .. 191
              /\ StartsAs(FourByteForms, text[offset + 1], text[offset + 2])
        BY <1>3, <3>0, Zenon DEF Four
      <4> QED
        BY <1>1, <3>1, <4>1, Zenon
    <3>3. FormAt(text, offset, 4) <=>
            /\ 240 <= text[offset + 1] /\ text[offset + 1] <= 244
            /\ text[offset + 1] = 240 => text[offset + 2] >= 144
            /\ text[offset + 1] = 244 => text[offset + 2] < 144
            /\ Continues(text[offset + 2]) /\ Continues(text[offset + 3])
            /\ Continues(text[offset + 4])
      BY <2>1, SMT DEF FormAt, Bytes
    <3>4. StartsAs(FourByteForms, text[offset + 1], text[offset + 2]) <=>
            /\ 240 <= text[offset + 1] /\ text[offset + 1] <= 244
            /\ Continues(text[offset + 2])
            /\ text[offset + 1] = 240 => text[offset + 2] >= 144
            /\ text[offset + 1] = 244 => text[offset + 2] < 144
      <4>1. PICK x \in Nat, y \in Nat : x = text[offset + 1] /\ y = text[offset + 2]
        BY <3>1, Zenon
      <4>2. StartsAs(FourByteForms, x, y) <=>
              /\ 240 <= x /\ x <= 244 /\ Continues(y)
              /\ x = 240 => y >= 144
              /\ x = 244 => y < 144
        BY FourByteStarts, Zenon
      <4> QED
        BY <4>1, <4>2, SMT
    <3> QED
      BY <3>2, <3>3, <3>4, SMT
  <2>2. CASE ~ (offset + 4 <= Len(text))
    BY <1>4, <2>2, SMT DEF Four, FormAt
  <2> QED
    BY <2>1, <2>2
<1> QED
  BY <1>6, <1>7, <1>8, <1>9

LEMMA SizeIsForm ==
  ASSUME NEW text \in Seq(Nat), NEW offset \in Nat
  PROVE  /\ CodePointSize(text, offset) \in 0 .. 4
         /\ \A n \in 1 .. 4 : CodePointSize(text, offset) = n <=> FormAt(text, offset, n)
<1>1. \A k \in 1 .. Len(text) : text[k] \in Nat
  BY SMT
<1>2. \A n, m \in 1 .. 4 : FormAt(text, offset, n) /\ FormAt(text, offset, m) => n = m
  <2> SUFFICES ASSUME NEW n \in 1 .. 4, NEW m \in 1 .. 4, n < m,
                      FormAt(text, offset, n), FormAt(text, offset, m)
               PROVE  FALSE
    BY SMT
  <2>1. PICK b \in Nat : b = text[offset + 1]
    <3>1. offset + 1 \in 1 .. Len(text)
      BY SMT DEF FormAt
    <3> QED
      BY <1>1, <3>1, Zenon
  <2>2. PICK c, d, e : /\ c = text[offset + 2]
                       /\ d = text[offset + 3] /\ e = text[offset + 4]
    OBVIOUS
  <2>3. Bytes(n, b, c, d, e) /\ Bytes(m, b, c, d, e)
    BY <2>1, <2>2, Zenon DEF FormAt
  <2>4. /\ n = 1 => b < 128
        /\ n = 2 => 194 <= b /\ b <= 223
        /\ n = 3 => 224 <= b /\ b <= 239
    BY <2>3, SMT DEF Bytes
  <2>5. /\ m = 2 => 194 <= b /\ b <= 223
        /\ m = 3 => 224 <= b /\ b <= 239
        /\ m = 4 => 240 <= b /\ b <= 244
    BY <2>3, SMT DEF Bytes
  <2> QED
    BY <2>4, <2>5, SMT
<1>3. PICK g \in [1 .. 4 -> BOOLEAN] : \A n \in 1 .. 4 : g[n] = FormAt(text, offset, n)
  <2>1. [n \in 1 .. 4 |-> FormAt(text, offset, n)] \in [1 .. 4 -> BOOLEAN]
    BY SMT DEF FormAt, Bytes
  <2> QED
    BY <2>1, Zenon
<1>4. CodePointSize(text, offset) =
        CASE g[1] -> 1 [] g[2] -> 2 [] g[3] -> 3 [] g[4] -> 4 [] OTHER -> 0
  BY SizeByGuards, Guards, <1>3, SMT
<1>5. \A n, m \in 1 .. 4 : g[n] /\ g[m] => n = m
  BY <1>2, <1>3, Zenon
<1>6. /\ CodePointSize(text, offset) \in 0 .. 4
      /\ \A n \in 1 .. 4 : CodePointSize(text, offset) = n <=> g[n]
  BY <1>4, <1>5, SMT
<1> QED
  BY <1>3, <1>6, Zenon

-----------------------------------------------------------------------------
(* Characters in a text.                                                   *)

\* Every set of natural numbers has a least element.
LEMMA LeastNumber ==
  ASSUME NEW T \in SUBSET Nat, T # {}
  PROVE  \E n \in T : \A m \in T : n <= m
<1> DEFINE R == OpToRel(<, Nat)
<1>1. IsWellFoundedOn(R, Nat)
  BY NatLessThanWellFounded
<1>2. \A m, n \in Nat : m < n => <<m, n>> \in R
  BY DEF OpToRel
<1> HIDE DEF R
<1>3. PICK n \in T : \A m \in T : ~ (<<m, n>> \in R)
  BY <1>1, WFMin
<1>4. ASSUME NEW m \in T
      PROVE  n <= m
  <2>1. m \in Nat /\ n \in Nat /\ ~ (m < n)
    BY <1>2, <1>3
  <2> QED
    BY <2>1
<1> QED
  BY <1>4

LEMMA StartsAre ==
  ASSUME NEW text \in Seq(Nat)
  PROVE  \A i : i \in Starts(text) <=> i \in 1 .. Len(text) /\ ~ Continues(text[i])
<1>1. DOMAIN text = 1 .. Len(text) /\ \A i \in 1 .. Len(text) : text[i] \in Nat
  BY SMT
<1>2. \A b \in Nat : b \in 128 .. 191 <=> Continues(b)
  BY SMT DEF Continues
<1> QED
  BY <1>1, <1>2, Zenon DEF Starts

\* The character that starts at i ends at j.
EndsAt(text, i, j) ==
  /\ j = Len(text) \/ j + 1 \in Starts(text)
  /\ \A k \in i + 1 .. j : k \notin Starts(text)

LEMMA CharacterIs ==
  ASSUME NEW text \in Seq(Nat), NEW i \in 1 .. Len(text), NEW j \in i .. Len(text),
         EndsAt(text, i, j)
  PROVE  Character(text, i) = SubSeq(text, i, j)
<1>1. \A k \in Starts(text) : k \in 1 .. Len(text)
  BY StartsAre
<1>2. ASSUME NEW k \in i .. Len(text), EndsAt(text, i, k)
      PROVE  k = j
  <2>1. k \in Nat /\ j \in Nat /\ i \in Nat /\ Len(text) \in Nat
    BY SMT
  <2>2. CASE k < j
    <3>1. k + 1 \in i + 1 .. j
      BY <2>1, <2>2, SMT
    <3>2. k + 1 \notin Starts(text)
      BY <3>1, Zenon DEF EndsAt
    <3> QED
      BY <1>2, <2>1, <2>2, <3>2, SMT DEF EndsAt
  <2>3. CASE j < k
    <3>1. j + 1 \in i + 1 .. k
      BY <2>1, <2>3, SMT
    <3>2. j + 1 \notin Starts(text)
      BY <1>2, <3>1, Zenon DEF EndsAt
    <3> QED
      BY <2>1, <2>3, <3>2, SMT DEF EndsAt
  <2> QED
    BY <2>1, <2>2, <2>3, SMT
<1>3. (CHOOSE k \in i .. Len(text) : EndsAt(text, i, k)) = j
  BY <1>2, Zenon
<1> QED
  BY <1>3, Zenon DEF Character, EndsAt

LEMMA CharacterEnds ==
  ASSUME NEW text \in Seq(Nat), NEW i \in 1 .. Len(text)
  PROVE  \E j \in i .. Len(text) : EndsAt(text, i, j)
<1> DEFINE T == {j \in i .. Len(text) : j = Len(text) \/ j + 1 \in Starts(text)}
<1>1. T \in SUBSET Nat /\ Len(text) \in T
  BY SMT
<1>2. PICK j \in T : \A k \in T : j <= k
  BY <1>1, LeastNumber
<1>3. ASSUME NEW k \in i + 1 .. j, k \in Starts(text)
      PROVE  FALSE
  <2>1. k - 1 \in i .. Len(text) /\ (k - 1) + 1 = k /\ ~ (j <= k - 1)
    BY <1>2, SMT
  <2>2. k - 1 \in T
    BY <1>3, <2>1, Zenon
  <2> QED
    BY <1>2, <2>1, <2>2, Zenon
<1> QED
  BY <1>2, <1>3, Zenon DEF EndsAt

LEMMA SubSeqFacts ==
  ASSUME NEW text \in Seq(Nat), NEW i \in 1 .. Len(text), NEW j \in i .. Len(text)
  PROVE  /\ SubSeq(text, i, j) \in Seq(Nat) /\ Len(SubSeq(text, i, j)) = j - i + 1
         /\ \A k \in 1 .. j - i + 1 : SubSeq(text, i, j)[k] = text[i + k - 1]
<1>1. SubSeq(text, i, j) \in Seq(Nat)
  BY SMT
<1>2. Len(SubSeq(text, i, j)) = j - i + 1
  BY SMT
<1>3. \A k \in 1 .. j - i + 1 : SubSeq(text, i, j)[k] = text[i + k - 1]
  BY SMT
<1> QED
  BY <1>1, <1>2, <1>3

\* A form found in a text is that of the bytes themselves.
LEMMA FormOfSubSeq ==
  ASSUME NEW text \in Seq(Nat), NEW offset \in Nat, NEW n \in 1 .. 4, offset + n <= Len(text)
  PROVE  Form(SubSeq(text, offset + 1, offset + n)) <=> FormAt(text, offset, n)
<1>. SUFFICES ASSUME NEW s, s = SubSeq(text, offset + 1, offset + n)
              PROVE  Form(s) <=> FormAt(text, offset, n)
  OBVIOUS
<1>1. /\ offset + 1 \in 1 .. Len(text) /\ offset + n \in offset + 1 .. Len(text)
      /\ offset + n - (offset + 1) + 1 = n
  BY SMT
<1>2. Len(s) = n
  BY <1>1, SubSeqFacts, SMT
<1>3. \A k \in 1 .. n : s[k] = text[offset + k]
  BY <1>1, SubSeqFacts, SMT
<1>4. Bytes(n, s[1], s[2], s[3], s[4]) <=>
        Bytes(n, text[offset + 1], text[offset + 2], text[offset + 3], text[offset + 4])
  BY <1>3, BytesOfFirst
<1> QED
  BY <1>2, <1>4, Zenon DEF Form, FormAt

\* What the watch measures is a character's bytes; more may follow that
\* continue it, and then the text is malformed.
LEMMA SizedIsEncoded ==
  ASSUME NEW text \in Seq(Nat), NEW offset \in Nat, NEW n \in 1 .. 4,
         CodePointSize(text, offset) = n
  PROVE  /\ offset + n <= Len(text)
         /\ offset + 1 \in Starts(text)
         /\ \A k \in offset + 2 .. offset + n : k \notin Starts(text)
         /\ Encodes(SubSeq(text, offset + 1, offset + n))
<1>1. FormAt(text, offset, n)
  BY SizeIsForm
<1>2. offset + n <= Len(text)
  BY <1>1, Zenon DEF FormAt
<1>3. offset + 1 \in 1 .. Len(text) /\ offset + n \in offset + 1 .. Len(text)
  BY <1>2, SMT
<1>4. ~ Continues(text[offset + 1])
  <2>1. PICK b \in Nat : b = text[offset + 1]
    BY <1>3, SMT
  <2>2. b < 128 \/ b >= 194
    BY <1>1, <2>1, SMT DEF FormAt, Bytes
  <2> QED
    BY <2>1, <2>2, SMT DEF Continues
<1>5. ASSUME NEW k \in offset + 2 .. offset + n
      PROVE  Continues(text[k])
  <2>1. /\ n >= 2 => Continues(text[offset + 2])
        /\ n >= 3 => Continues(text[offset + 3])
        /\ n >= 4 => Continues(text[offset + 4])
    BY <1>1, SMT DEF FormAt, Bytes
  <2> QED
    BY <1>5, <2>1, SMT
<1>6. Encodes(SubSeq(text, offset + 1, offset + n))
  <2>1. Form(SubSeq(text, offset + 1, offset + n))
    BY <1>1, <1>2, FormOfSubSeq
  <2> QED
    BY <1>3, <2>1, FormEncodes, SubSeqFacts
<1> QED
  BY <1>2, <1>3, <1>4, <1>5, <1>6, StartsAre, Zenon

\* A well-formed character is what the watch measures where it starts.
LEMMA EncodedIsSized ==
  ASSUME NEW text \in Seq(Nat), NEW i \in Starts(text), Encodes(Character(text, i))
  PROVE  LET n == Len(Character(text, i))
         IN  /\ n \in 1 .. 4 /\ CodePointSize(text, i - 1) = n
             /\ i + n - 1 <= Len(text) /\ EndsAt(text, i, i + n - 1)
<1>1. i \in 1 .. Len(text)
  BY StartsAre
<1>2. PICK j \in i .. Len(text) : EndsAt(text, i, j)
  BY <1>1, CharacterEnds
<1>3. Character(text, i) = SubSeq(text, i, j)
  BY <1>1, <1>2, CharacterIs
<1>4. Len(Character(text, i)) = j - i + 1 /\ Character(text, i) \in Seq(Nat)
  BY <1>1, <1>3, SubSeqFacts
<1>5. Form(Character(text, i))
  BY <1>4, EncodedForm
<1>6. PICK n \in 1 .. 4 : n = j - i + 1
  BY <1>4, <1>5, SMT DEF Form, Bytes
<1>7. PICK offset \in Nat : offset = i - 1
  BY <1>1, SMT
<1>8. i = offset + 1 /\ j = offset + n /\ i + n - 1 = j /\ offset + n <= Len(text)
  BY <1>1, <1>6, <1>7, SMT
<1>9. FormAt(text, offset, n)
  BY <1>3, <1>5, <1>8, FormOfSubSeq
<1>10. CodePointSize(text, offset) = n
  BY <1>9, SizeIsForm
<1> QED
  BY <1>2, <1>4, <1>6, <1>7, <1>8, <1>10, Zenon

\* A character may start after n bytes, or the text ends.
Boundary(text, n) == n = Len(text) \/ n + 1 \in Starts(text)

\* In a well-formed text the watch measures a character wherever one starts,
\* and where it ends another starts.
LEMMA NextCharacter ==
  ASSUME NEW text \in Seq(Nat), WellFormed(text),
         NEW n \in Nat, n < Len(text), Boundary(text, n)
  PROVE  /\ CodePointSize(text, n) \in 1 .. 4
         /\ CodePointSize(text, n) = Len(Character(text, n + 1))
         /\ n + CodePointSize(text, n) <= Len(text)
         /\ Boundary(text, n + CodePointSize(text, n))
<1>1. n + 1 \in Starts(text)
  BY SMT DEF Boundary
<1>2. Encodes(Character(text, n + 1))
  BY <1>1, Zenon DEF WellFormed
<1>3. PICK size : size = Len(Character(text, n + 1))
  OBVIOUS
<1>4. PICK i \in Starts(text) : i = n + 1
  BY <1>1
<1>5. /\ size \in 1 .. 4 /\ CodePointSize(text, i - 1) = size
      /\ i + size - 1 <= Len(text) /\ EndsAt(text, i, i + size - 1)
  BY <1>2, <1>3, <1>4, EncodedIsSized, Zenon
<1>6. i - 1 = n /\ i + size - 1 = n + size
  BY <1>4, <1>5, SMT
<1>7. Boundary(text, n + size)
  BY <1>5, <1>6, Zenon DEF EndsAt, Boundary
<1> QED
  BY <1>3, <1>5, <1>6, <1>7, Zenon

\* Between two boundaries of a well-formed text is a well-formed text.
LEMMA WellFormedPart ==
  ASSUME NEW text \in Seq(Nat), WellFormed(text), NEW a \in Nat, NEW b \in Nat,
         a < b, b <= Len(text), Boundary(text, a), Boundary(text, b)
  PROVE  WellFormed(SubSeq(text, a + 1, b))
<1>. SUFFICES ASSUME NEW s, s = SubSeq(text, a + 1, b)
              PROVE  WellFormed(s)
  OBVIOUS
<1>1. a + 1 \in 1 .. Len(text) /\ b \in a + 1 .. Len(text)
  BY SMT
<1>2. s \in Seq(Nat) /\ Len(s) = b - a
  BY <1>1, SubSeqFacts, SMT
<1>3. \A k \in 1 .. b - a : s[k] = text[a + k]
  BY <1>1, SubSeqFacts, SMT
<1>4. \A i \in 1 .. b - a : i \in Starts(s) <=> a + i \in Starts(text)
  <2> SUFFICES ASSUME NEW i \in 1 .. b - a
               PROVE  i \in Starts(s) <=> a + i \in Starts(text)
    OBVIOUS
  <2>1. a + i \in 1 .. Len(text) /\ i \in 1 .. Len(s)
    BY <1>2, SMT
  <2>2. s[i] = text[a + i]
    BY <1>3
  <2> QED
    BY <1>2, <2>1, <2>2, StartsAre, Zenon
<1>5. 1 \in Starts(s)
  <2>1. 1 \in 1 .. b - a /\ a + 1 \in Starts(text)
    BY SMT DEF Boundary
  <2> QED
    BY <1>4, <2>1
<1>6. ASSUME NEW i \in Starts(s)
      PROVE  Encodes(Character(s, i))
  <2>1. i \in 1 .. b - a
    BY <1>2, StartsAre
  <2>2. PICK h \in Starts(text) : h = a + i
    BY <1>4, <2>1
  <2>3. Encodes(Character(text, h))
    BY Zenon DEF WellFormed
  <2>4. PICK n : n = Len(Character(text, h))
    OBVIOUS
  <2>5. n \in 1 .. 4 /\ h + n - 1 <= Len(text) /\ EndsAt(text, h, h + n - 1)
    BY <2>3, <2>4, EncodedIsSized, Zenon
  <2>6. h + n - 1 <= b
    <3> SUFFICES ASSUME b < h + n - 1 PROVE FALSE
      BY <2>1, <2>2, <2>5, SMT
    <3>1. b + 1 \in h + 1 .. h + n - 1 /\ b # Len(text)
      BY <2>1, <2>2, <2>5, SMT
    <3>2. b + 1 \in Starts(text)
      BY <3>1, Zenon DEF Boundary
    <3> QED
      BY <2>5, <3>1, <3>2, Zenon DEF EndsAt
  <2>7. PICK j \in i .. Len(s) : j = i + n - 1 /\ a + j = h + n - 1
    BY <1>2, <2>1, <2>2, <2>5, <2>6, SMT
  <2>8. i \in 1 .. Len(s) /\ h \in 1 .. Len(text) /\ h + n - 1 \in h .. Len(text)
    BY <1>2, <2>1, <2>2, <2>5, SMT
  <2>9. EndsAt(s, i, j)
    <3>1. ASSUME j # Len(s)
          PROVE  j + 1 \in Starts(s)
      <4>1. j + 1 \in 1 .. b - a /\ a + (j + 1) = h + n - 1 + 1 /\ h + n - 1 # Len(text)
        BY <1>2, <2>1, <2>2, <2>5, <2>7, <3>1, SMT
      <4>2. h + n - 1 + 1 \in Starts(text)
        BY <2>5, <4>1, Zenon DEF EndsAt
      <4> QED
        BY <1>4, <4>1, <4>2, Zenon
    <3>2. ASSUME NEW k \in i + 1 .. j
          PROVE  k \notin Starts(s)
      <4>1. k \in 1 .. b - a /\ a + k \in h + 1 .. h + n - 1
        BY <1>2, <2>1, <2>2, <2>7, <3>2, SMT
      <4>2. a + k \notin Starts(text)
        BY <2>5, <4>1, Zenon DEF EndsAt
      <4> QED
        BY <1>4, <4>1, <4>2, Zenon
    <3> QED
      BY <3>1, <3>2, Zenon DEF EndsAt
  <2>10. Character(s, i) = SubSeq(s, i, j)
    BY <1>2, <2>7, <2>8, <2>9, CharacterIs
  <2>11. Character(text, h) = SubSeq(text, h, h + n - 1)
    BY <2>5, <2>8, CharacterIs
  <2>12. SubSeq(s, i, j) = SubSeq(text, h, h + n - 1)
    <3>1. PICK e \in h .. Len(text) : e = h + n - 1
      BY <2>8
    <3>2. PICK p, q : p = SubSeq(s, i, j) /\ q = SubSeq(text, h, e)
      OBVIOUS
    <3>3. p \in Seq(Nat) /\ Len(p) = j - i + 1 /\ \A k \in 1 .. j - i + 1 : p[k] = s[i + k - 1]
      BY <1>2, <2>7, <2>8, <3>2, SubSeqFacts
    <3>4. q \in Seq(Nat) /\ Len(q) = e - h + 1 /\ \A k \in 1 .. e - h + 1 : q[k] = text[h + k - 1]
      BY <2>8, <3>2, SubSeqFacts
    <3>5. e - h + 1 = j - i + 1
      BY <2>2, <2>7, <2>8, <3>1, SMT
    <3>6. ASSUME NEW k \in 1 .. j - i + 1
          PROVE  p[k] = q[k]
      <4>1. i + k - 1 \in 1 .. b - a /\ a + (i + k - 1) = h + k - 1
        BY <1>2, <2>1, <2>2, <2>7, SMT
      <4>2. s[i + k - 1] = text[h + k - 1]
        BY <1>3, <4>1, Zenon
      <4> QED
        BY <3>3, <3>4, <3>5, <4>2, Zenon
    <3>7. Len(p) = Len(q) /\ \A k \in 1 .. Len(p) : p[k] = q[k]
      BY <3>3, <3>4, <3>5, <3>6, Zenon
    <3>8. p = q
      BY <3>3, <3>4, <3>7, SeqEqual
    <3> QED
      BY <3>1, <3>2, <3>8
  <2> QED
    BY <2>3, <2>10, <2>11, <2>12, Zenon
<1> QED
  BY <1>5, <1>6, Zenon DEF WellFormed

-----------------------------------------------------------------------------
(* The watch's walk over a text, character by character.                   *)

\* A character of this many bytes can be sent.
Fit(outbox, size) == size <= MaxChunkBytes /\ Overhead + size <= outbox

CanSend(text, outbox) ==
  WellFormed(text) /\ \A i \in Starts(text) : Fit(outbox, Len(Character(text, i)))

\* The bytes of the character the watch measures at i.
SizeAt(text, i) == CodePointSize(text, i - 1)

\* The walk has come to n: a character that fits is at every byte up to n that
\* can start one, each ends where another starts, and the last at n.
Walked(text, outbox, n) ==
  /\ n > 0 => /\ 1 \in Starts(text)
              /\ \E i \in Starts(text) : i <= n /\ i + SizeAt(text, i) = n + 1
  /\ \A i \in Starts(text) : i <= n =>
       /\ SizeAt(text, i) > 0 /\ Fit(outbox, SizeAt(text, i))
       /\ \/ i + SizeAt(text, i) = n + 1
          \/ i + SizeAt(text, i) <= n /\ i + SizeAt(text, i) \in Starts(text)

\* What the watch measures before the end of a text.
LEMMA SizeType ==
  ASSUME NEW text \in Seq(Nat), NEW n \in Nat, n <= Len(text)
  PROVE  /\ CodePointSize(text, n) \in 0 .. 4
         /\ CodePointSize(text, n) > 0 => n + CodePointSize(text, n) <= Len(text)
<1>1. PICK size \in 0 .. 4 : size = CodePointSize(text, n)
  BY SizeIsForm
<1>2. size > 0 => n + size <= Len(text)
  <2>1. size > 0 => size \in 1 .. 4
    BY <1>1, SMT
  <2> QED
    BY <1>1, <2>1, SizedIsEncoded, Zenon
<1> QED
  BY <1>1, <1>2, Zenon

\* The second walk, over a text that can be sent, finds a character that fits
\* at every boundary and comes to the next.
LEMMA SendNext ==
  ASSUME NEW text \in Seq(Nat), NEW outbox, CanSend(text, outbox),
         NEW n \in Nat, n < Len(text), Boundary(text, n)
  PROVE  /\ CodePointSize(text, n) \in 1 .. 4
         /\ Fit(outbox, CodePointSize(text, n))
         /\ n + CodePointSize(text, n) <= Len(text)
         /\ Boundary(text, n + CodePointSize(text, n))
<1>1. WellFormed(text)
  BY Zenon DEF CanSend
<1>2. /\ CodePointSize(text, n) \in 1 .. 4
      /\ CodePointSize(text, n) = Len(Character(text, n + 1))
      /\ n + CodePointSize(text, n) <= Len(text)
      /\ Boundary(text, n + CodePointSize(text, n))
  BY <1>1, NextCharacter
<1>3. n + 1 \in Starts(text)
  BY SMT DEF Boundary
<1>4. Fit(outbox, Len(Character(text, n + 1)))
  BY <1>3, Zenon DEF CanSend
<1> QED
  BY <1>2, <1>4, Zenon

\* A text with a character cannot be sent where not one byte fits.
LEMMA NothingFits ==
  ASSUME NEW text \in Seq(Nat), text # <<>>, NEW outbox,
         \A size \in Nat : size > 0 => ~ Fit(outbox, size)
  PROVE  ~ CanSend(text, outbox)
<1> SUFFICES ASSUME CanSend(text, outbox) PROVE FALSE
  OBVIOUS
<1>1. 1 \in Starts(text)
  BY Zenon DEF CanSend, WellFormed
<1>2. 0 < Len(text) /\ 0 + 1 = 1
  BY SMT
<1>3. Boundary(text, 0)
  BY <1>1, <1>2, Zenon DEF Boundary
<1>4. PICK size \in 1 .. 4 : Fit(outbox, size)
  BY <1>2, <1>3, SendNext
<1>5. size \in Nat /\ size > 0
  BY <1>4, SMT
<1> QED
  BY <1>4, <1>5, Zenon

\* The first walk takes a character that fits ...
LEMMA WalkStep ==
  ASSUME NEW text \in Seq(Nat), NEW outbox, NEW n \in Nat, Walked(text, outbox, n),
         NEW size \in 1 .. 4, CodePointSize(text, n) = size, Fit(outbox, size)
  PROVE  Walked(text, outbox, n + size)
<1>1. /\ n + 1 \in Starts(text)
      /\ \A k \in n + 2 .. n + size : k \notin Starts(text)
  BY SizedIsEncoded
<1>2. PICK j \in Starts(text) : j = n + 1
  BY <1>1
<1>3. j - 1 = n /\ size \in Nat /\ size > 0 /\ n + size > 0
      /\ j <= n + size /\ j + size = (n + size) + 1
  BY <1>2, SMT
<1>4. SizeAt(text, j) = size
  BY <1>3, Zenon DEF SizeAt
<1>5. 1 \in Starts(text)
  <2>1. CASE n = 0
    BY <1>2, <2>1, SMT
  <2>2. CASE n > 0
    BY <2>2, Zenon DEF Walked
  <2> QED
    BY <2>1, <2>2, SMT
<1>6. ASSUME NEW i \in Starts(text), i <= n + size
      PROVE  /\ SizeAt(text, i) > 0 /\ Fit(outbox, SizeAt(text, i))
             /\ \/ i + SizeAt(text, i) = (n + size) + 1
                \/ i + SizeAt(text, i) <= n + size /\ i + SizeAt(text, i) \in Starts(text)
  <2>1. i \in Nat
    BY StartsAre, SMT
  <2>2. CASE i <= n
    <3>1. /\ SizeAt(text, i) > 0 /\ Fit(outbox, SizeAt(text, i))
          /\ \/ i + SizeAt(text, i) = n + 1
             \/ i + SizeAt(text, i) <= n /\ i + SizeAt(text, i) \in Starts(text)
      BY <2>2, Zenon DEF Walked
    <3>2. PICK s : s = SizeAt(text, i)
      OBVIOUS
    <3>3. CASE i + s = n + 1
      <4>1. i + s <= n + size /\ i + s \in Starts(text)
        BY <1>2, <1>3, <3>3, Zenon
      <4> QED
        BY <3>1, <3>2, <4>1, Zenon
    <3>4. CASE i + s <= n /\ i + s \in Starts(text)
      <4>1. i + s \in Nat
        BY <3>4, StartsAre, SMT
      <4>2. i + s <= n + size
        BY <1>3, <3>4, <4>1, SMT
      <4> QED
        BY <3>1, <3>2, <3>4, <4>2, Zenon
    <3> QED
      BY <3>1, <3>2, <3>3, <3>4, Zenon
  <2>3. CASE ~ (i <= n)
    <3>1. i \notin n + 2 .. n + size
      BY <1>1, Zenon
    <3>2. i = n + 1
      BY <1>6, <2>1, <2>3, <3>1, <1>3, SMT
    <3> QED
      BY <1>2, <1>3, <1>4, <3>2, Zenon
  <2> QED
    BY <2>2, <2>3, Zenon
<1> QED
  BY <1>2, <1>3, <1>4, <1>5, <1>6, Zenon DEF Walked

\* ... and when it has come to the end, the text can be sent.
LEMMA WalkEnd ==
  ASSUME NEW text \in Seq(Nat), text # <<>>, NEW outbox, Walked(text, outbox, Len(text))
  PROVE  CanSend(text, outbox)
<1>1. Len(text) > 0
  BY SMT
<1>2. 1 \in Starts(text)
  BY <1>1, Zenon DEF Walked
<1>3. ASSUME NEW i \in Starts(text)
      PROVE  Encodes(Character(text, i)) /\ Fit(outbox, Len(Character(text, i)))
  <2>1. i \in 1 .. Len(text) /\ i <= Len(text)
    BY StartsAre, SMT
  <2>2. PICK offset \in Nat : offset = i - 1 /\ i = offset + 1 /\ offset <= Len(text)
    BY <2>1, SMT
  <2>3. PICK n : n = SizeAt(text, i)
    OBVIOUS
  <2>4. CodePointSize(text, offset) = n
    BY <2>2, <2>3, Zenon DEF SizeAt
  <2>5. /\ n > 0 /\ Fit(outbox, n)
        /\ i + n = Len(text) + 1 \/ i + n \in Starts(text)
    BY <2>1, <2>3, Zenon DEF Walked
  <2>6. n \in 1 .. 4
    <3>1. n \in 0 .. 4
      BY <2>2, <2>4, SizeType
    <3> QED
      BY <2>5, <3>1, SMT
  <2>7. /\ offset + n <= Len(text)
        /\ \A k \in offset + 2 .. offset + n : k \notin Starts(text)
        /\ Encodes(SubSeq(text, offset + 1, offset + n))
    BY <2>4, <2>6, SizedIsEncoded
  <2>8. PICK j \in i .. Len(text) :
          j = offset + n /\ i + n = j + 1 /\ offset + 2 = i + 1 /\ j - i + 1 = n
    BY <2>1, <2>2, <2>6, <2>7, SMT
  <2>9. EndsAt(text, i, j)
    <3>1. j = Len(text) \/ j + 1 \in Starts(text)
      BY <2>1, <2>5, <2>8, SMT
    <3> QED
      BY <2>7, <2>8, <3>1, Zenon DEF EndsAt
  <2>10. Character(text, i) = SubSeq(text, i, j)
    BY <2>1, <2>9, CharacterIs
  <2>11. Len(Character(text, i)) = n
    BY <2>1, <2>8, <2>10, SubSeqFacts
  <2> QED
    BY <2>2, <2>5, <2>7, <2>8, <2>10, <2>11, Zenon
<1> QED
  BY <1>2, <1>3, Zenon DEF CanSend, WellFormed

\* In a text that can be sent the first walk, too, is at a boundary: it stops
\* nowhere before the end.
LEMMA WalkGoesOn ==
  ASSUME NEW text \in Seq(Nat), text # <<>>, NEW outbox, CanSend(text, outbox),
         NEW n \in Nat, Walked(text, outbox, n)
  PROVE  Boundary(text, n)
<1>1. WellFormed(text)
  BY Zenon DEF CanSend
<1>2. CASE n = 0
  <2>1. 1 \in Starts(text) /\ n + 1 = 1
    BY <1>1, <1>2, SMT DEF WellFormed
  <2> QED
    BY <2>1, Zenon DEF Boundary
<1>3. CASE n > 0
  <2>1. PICK i \in Starts(text) : i + SizeAt(text, i) = n + 1
    BY <1>3, Zenon DEF Walked
  <2>2. Encodes(Character(text, i))
    BY <1>1, Zenon DEF WellFormed
  <2>3. PICK s : s = Len(Character(text, i))
    OBVIOUS
  <2>4. s \in 1 .. 4 /\ CodePointSize(text, i - 1) = s /\ EndsAt(text, i, i + s - 1)
    BY <2>2, <2>3, EncodedIsSized, Zenon
  <2>5. i \in Nat
    BY StartsAre, SMT
  <2>6. i + s = n + 1
    BY <2>1, <2>4, Zenon DEF SizeAt
  <2>7. i + s - 1 = n
    BY <2>4, <2>5, <2>6, SMT
  <2> QED
    BY <2>4, <2>7, Zenon DEF EndsAt, Boundary
<1> QED
  BY <1>2, <1>3, SMT

-----------------------------------------------------------------------------
(* The inductive invariant.                                                *)

WatchStates ==
  [at : {"start", "counting", "sending", "sent", "failed"}, chunk_capacity : Nat,
   chunk_count : Nat, next_chunk_index : Nat, next_chunk_offset : Nat,
   length : Nat, outbox_chunk_bytes : Nat]

Chunks == [index : Nat, count : Nat, total : Nat, text : Seq(Nat)]

Typed ==
  /\ transcript \in Transcripts /\ outbox_size \in OutboxSizes
  /\ watch \in WatchStates /\ link \in Seq(Chunks)
  /\ DOMAIN phone = DOMAIN NewAssembler
  /\ phone.outcome \in {"adding", "complete", "error"}

\* No counter leaves the transcript.
Bounded ==
  /\ End <= Len(transcript)
  /\ watch.next_chunk_offset + watch.outbox_chunk_bytes <= Len(transcript)
  /\ watch.next_chunk_index <= watch.chunk_count
  /\ watch.chunk_count <= Len(transcript)

\* chunk_capacity is the longest text that can be sent.
Measures ==
  /\ watch.chunk_capacity <= MaxChunkBytes
  /\ watch.at \in {"counting", "sending", "sent"} =>
       /\ Overhead + watch.chunk_capacity <= outbox_size
       /\ \A size \in Nat : Fit(outbox_size, size) => size <= watch.chunk_capacity

\* While it counts, nothing is sent; the chunks counted are not empty.
Counts ==
  /\ watch.at \in {"start", "counting", "failed"} => link = <<>> /\ phone = NewAssembler
  /\ watch.at = "start" =>
       watch.next_chunk_offset = 0 /\ watch.length = 0 /\ watch.chunk_count = 0
  /\ watch.at \in {"start", "counting"} =>
       watch.next_chunk_index = 0 /\ watch.outbox_chunk_bytes = 0
  /\ watch.at = "counting" =>
       /\ Walked(transcript, outbox_size, End)
       /\ watch.chunk_count <= watch.next_chunk_offset
       /\ watch.next_chunk_offset > 0 => watch.chunk_count > 0
  /\ watch.at = "failed" => ~ CanSend(transcript, outbox_size)

\* The second walk goes from character to character of a transcript that can
\* be sent; what it sends is whole.
Sends ==
  /\ watch.at \in {"sending", "sent"} => CanSend(transcript, outbox_size)
  /\ watch.at = "sending" =>
       /\ watch.length <= watch.chunk_capacity
       /\ Boundary(transcript, watch.next_chunk_offset)
       /\ Boundary(transcript, End)
       /\ Boundary(transcript, watch.next_chunk_offset + watch.outbox_chunk_bytes)
       /\ watch.next_chunk_index < watch.chunk_count
       /\ Len(link) <= watch.next_chunk_index
                         + (IF watch.outbox_chunk_bytes > 0 THEN 1 ELSE 0)
  /\ watch.at = "sent" => Len(link) <= watch.next_chunk_index
  /\ watch.outbox_chunk_bytes > 0 => watch.length = 0

Whole(m, outbox) ==
  m.text # <<>> /\ WellFormed(m.text) /\ Overhead + Len(m.text) <= outbox

SentWhole == \A i \in DOMAIN link : Whole(link[i], outbox_size)

IInv == Typed /\ Bounded /\ Measures /\ Counts /\ Sends /\ SentWhole

LEMMA TranscriptType ==
  ASSUME transcript \in Transcripts
  PROVE  transcript \in Seq(Nat) /\ transcript # <<>>
<1>1. transcript \in Seq(1 .. 255) /\ transcript # <<>>
  BY TranscriptAssumption
<1>2. PICK B : B = 1 .. 255
  OBVIOUS
<1>3. transcript \in Seq(B) /\ \A b \in B : b \in Nat
  BY <1>1, <1>2, SMT
<1>4. transcript \in Seq(Nat)
  BY <1>3, SMT
<1> QED
  BY <1>1, <1>4

LEMMA InitIInv == Init => IInv
<1> SUFFICES ASSUME Init PROVE IInv
  OBVIOUS
<1> USE DEF Init
<1>1. Typed
  <2>1. watch \in WatchStates /\ link \in Seq(Chunks)
    BY SMT DEF WatchStates
  <2>2. phone.outcome = "adding"
    BY SMT DEF NewAssembler
  <2> QED
    BY <2>1, <2>2 DEF Typed
<1>2. Bounded
  BY TranscriptType, SMT DEF Bounded, End
<1>3. Measures /\ Counts /\ Sends
  BY SizeAssumption, SMT DEF Measures, Counts, Sends
<1>4. SentWhole
  BY SMT DEF SentWhole
<1> QED
  BY <1>1, <1>2, <1>3, <1>4 DEF IInv

\* The watch's fields by name.
LEMMA Fields ==
  ASSUME watch \in WatchStates
  PROVE  /\ watch.at \in {"start", "counting", "sending", "sent", "failed"}
         /\ watch.chunk_capacity \in Nat /\ watch.chunk_count \in Nat
         /\ watch.next_chunk_index \in Nat /\ watch.next_chunk_offset \in Nat
         /\ watch.length \in Nat /\ watch.outbox_chunk_bytes \in Nat
BY DEF WatchStates

\* It refuses a transcript, before it has sent any of it, that cannot be sent.
LEMMA RefuseIInv ==
  ASSUME IInv, watch.at \in {"start", "counting"},
         ~ CanSend(transcript, outbox_size),
         Refuse, UNCHANGED <<transcript, outbox_size, link, phone>>
  PROVE  IInv'
<1>1. watch' = [watch EXCEPT !.at = "failed"]
  BY DEF Refuse
<1>2. Typed'
  BY <1>1, SMT DEF IInv, Typed, WatchStates
<1>3. /\ watch'.at = "failed" /\ watch'.chunk_capacity = watch.chunk_capacity
      /\ watch'.chunk_count = watch.chunk_count
      /\ watch'.next_chunk_index = watch.next_chunk_index
      /\ watch'.next_chunk_offset = watch.next_chunk_offset
      /\ watch'.length = watch.length
      /\ watch'.outbox_chunk_bytes = watch.outbox_chunk_bytes
  BY <1>1, SMT DEF IInv, Typed, WatchStates
<1>4. Bounded'
  BY <1>3, Zenon DEF IInv, Bounded, End
<1>5. Measures'
  BY <1>3, SMT DEF IInv, Measures
<1>6. Counts'
  BY <1>3, SMT DEF IInv, Counts
<1>7. Sends'
  BY <1>3, SMT DEF IInv, Sends
<1>8. SentWhole'
  BY Zenon DEF IInv, SentWhole
<1> QED
  BY <1>2, <1>4, <1>5, <1>6, <1>7, <1>8 DEF IInv

LEMMA MeasureIInv ==
  ASSUME IInv, Measure
  PROVE  IInv'
<1> USE DEF IInv
<1>1. /\ transcript \in Seq(Nat) /\ transcript # <<>>
      /\ outbox_size \in Nat /\ Overhead \in Nat /\ MaxChunkBytes \in Nat
  BY TranscriptType, SizeAssumption DEF Typed
<1>2. /\ watch.at = "start"
      /\ UNCHANGED <<transcript, outbox_size, link, phone>>
  BY DEF Measure
<1>3. CASE Overhead >= outbox_size
  <2>1. ASSUME NEW size \in Nat, size > 0
        PROVE  ~ Fit(outbox_size, size)
    BY <1>1, <1>3, <2>1, SMT DEF Fit
  <2>2. ~ CanSend(transcript, outbox_size)
    BY <1>1, <2>1, NothingFits
  <2>3. Refuse
    BY <1>3 DEF Measure
  <2> QED
    BY <1>2, <2>2, <2>3, RefuseIInv, SMT
<1>4. CASE ~ (Overhead >= outbox_size)
  <2>0. PICK capacity \in Nat :
          capacity = IF outbox_size - Overhead > MaxChunkBytes
                       THEN MaxChunkBytes ELSE outbox_size - Overhead
    <3>1. outbox_size - Overhead \in Nat /\ MaxChunkBytes \in Nat
      BY <1>1, <1>4, SMT
    <3> QED
      BY <3>1, Zenon
  <2>1. watch' = [watch EXCEPT !.at = "counting", !.chunk_capacity = capacity]
    BY <1>4, <2>0, Zenon DEF Measure
  <2>2. Typed'
    <3>1. PICK w : w = [watch EXCEPT !.at = "counting"]
      OBVIOUS
    <3>2. w \in WatchStates
      BY <3>1, SMT DEF Typed, WatchStates
    <3>3. watch' = [w EXCEPT !.chunk_capacity = capacity]
      BY <2>1, <3>1, SMT DEF Typed, WatchStates
    <3>4. watch' \in WatchStates
      BY <3>2, <3>3, SMT DEF WatchStates
    <3> QED
      BY <1>2, <3>4 DEF Typed
  <2>3. /\ watch'.at = "counting" /\ watch'.chunk_capacity = capacity
        /\ watch'.chunk_count = watch.chunk_count
        /\ watch'.next_chunk_index = watch.next_chunk_index
        /\ watch'.next_chunk_offset = watch.next_chunk_offset
        /\ watch'.length = watch.length
        /\ watch'.outbox_chunk_bytes = watch.outbox_chunk_bytes
    BY <2>1, SMT DEF Typed, WatchStates
  <2>4. Bounded'
    BY <1>2, <2>3, Zenon DEF Bounded, End
  <2>5. Measures'
    BY <1>1, <1>2, <1>4, <2>0, <2>3, SMT DEF Measures, Fit
  <2>6. Counts'
    <3>1. Walked(transcript, outbox_size, 0)
      <4>1. \A i \in Starts(transcript) : ~ (i <= 0)
        BY <1>1, StartsAre, SMT
      <4>2. ~ (0 > 0)
        BY SMT
      <4> QED
        BY <4>1, <4>2, Zenon DEF Walked
    <3>2. End' = 0
      BY <1>2, <2>3, SMT DEF Counts, End
    <3>3. Walked(transcript, outbox_size, End)'
      BY <1>2, <3>1, <3>2, Zenon
    <3> QED
      BY <1>2, <2>3, <3>3, SMT DEF Counts
  <2>7. Sends'
    BY <1>2, <2>3, SMT DEF Counts, Sends
  <2>8. SentWhole'
    BY <1>2, Zenon DEF SentWhole
  <2> QED
    BY <2>2, <2>4, <2>5, <2>6, <2>7, <2>8
<1> QED
  BY <1>3, <1>4

\* What every step reads of the state it starts in.
LEMMA Reads ==
  ASSUME IInv
  PROVE  /\ transcript \in Seq(Nat) /\ transcript # <<>> /\ Len(transcript) \in Nat
         /\ outbox_size \in Nat /\ Overhead \in Nat /\ MaxChunkBytes \in Nat
         /\ watch \in WatchStates /\ End \in Nat
<1>1. transcript \in Seq(Nat) /\ transcript # <<>>
  BY TranscriptType DEF IInv, Typed
<1>2. outbox_size \in Nat /\ Overhead \in Nat /\ MaxChunkBytes \in Nat
  BY SizeAssumption DEF IInv, Typed
<1>3. watch \in WatchStates /\ End \in Nat
  BY Fields, SMT DEF IInv, Typed, End
<1> QED
  BY <1>1, <1>2, <1>3, SMT

\* A character that can be sent fits a chunk of its own.
LEMMA RoomForOne ==
  ASSUME IInv, Measuring, NEW size \in Nat, Size = size, Fit(outbox_size, size),
         watch.length = 0
  PROVE  Room
<1>1. size <= watch.chunk_capacity
  BY SMT DEF IInv, Measures, Measuring
<1> QED
  BY <1>1, Fields, Reads, SMT DEF Room

LEMMA GrowIInv ==
  ASSUME IInv, Grow
  PROVE  IInv'
<1> USE DEF IInv
<1>1. Measuring /\ End < Len(transcript) /\ Size > 0 /\ Room
      /\ UNCHANGED <<transcript, outbox_size, link, phone>>
  BY DEF Grow
<1>2. PICK size \in 1 .. 4 : size = Size
  <2>1. Size \in 0 .. 4
    BY <1>1, Reads, SizeType, SMT DEF Size
  <2> QED
    BY <1>1, <2>1, SMT
<1>3. End + size <= Len(transcript)
  BY <1>1, <1>2, Reads, SizeType, SMT DEF Size
<1>4. watch' = [watch EXCEPT !.length = watch.length + size]
  BY <1>2 DEF Grow
<1>5. watch.length + size \in Nat
  BY Fields, SMT DEF Typed
<1>6. Typed'
  <2>1. watch' \in WatchStates
    BY <1>4, <1>5, SMT DEF Typed, WatchStates
  <2> QED
    BY <1>1, <2>1 DEF Typed
<1>7. /\ watch'.at = watch.at /\ watch'.chunk_capacity = watch.chunk_capacity
      /\ watch'.chunk_count = watch.chunk_count
      /\ watch'.next_chunk_index = watch.next_chunk_index
      /\ watch'.next_chunk_offset = watch.next_chunk_offset
      /\ watch'.length = watch.length + size
      /\ watch'.outbox_chunk_bytes = watch.outbox_chunk_bytes
  BY <1>4, SMT DEF Typed, WatchStates
<1>8. End' = End + size
  BY <1>7, Fields, SMT DEF Typed, End
<1>9. Bounded'
  BY <1>1, <1>3, <1>7, <1>8, SMT DEF Bounded
<1>10. Measures'
  BY <1>1, <1>7, SMT DEF Measures
<1>11. watch.length + size <= watch.chunk_capacity
  BY <1>1, <1>2 DEF Room
<1>12. Counts'
  <2>1. CASE watch.at = "counting"
    <3>1. Fit(outbox_size, size)
      <4>1. /\ watch.chunk_capacity <= MaxChunkBytes
            /\ Overhead + watch.chunk_capacity <= outbox_size
        BY <2>1, SMT DEF Measures
      <4>2. size <= watch.chunk_capacity /\ watch.chunk_capacity \in Nat
        BY <1>11, Fields, SMT DEF Typed
      <4> QED
        BY <4>1, <4>2, Reads, SMT DEF Fit
    <3>2. Walked(transcript, outbox_size, End + size)
      BY <1>2, <2>1, <3>1, Reads, WalkStep DEF Counts, Size
    <3>3. Walked(transcript, outbox_size, End)'
      BY <1>1, <1>8, <3>2, Zenon
    <3> QED
      BY <1>1, <1>7, <2>1, <3>3, SMT DEF Counts
  <2>2. CASE watch.at = "sending"
    BY <1>7, <2>2, SMT DEF Counts
  <2> QED
    BY <1>1, <2>1, <2>2 DEF Measuring
<1>13. Sends'
  <2>1. CASE watch.at = "counting"
    BY <1>1, <1>7, <2>1, SMT DEF Sends, Counts
  <2>2. CASE watch.at = "sending"
    <3>1. CanSend(transcript, outbox_size) /\ Boundary(transcript, End)
      BY <2>2 DEF Sends
    <3>2. Boundary(transcript, End + size)
      BY <1>1, <1>2, <3>1, Reads, SendNext DEF Size
    <3>3. Boundary(transcript, End)'
      BY <1>1, <1>8, <3>2, Zenon
    <3>4. watch.outbox_chunk_bytes = 0
      BY <1>1, <2>2, SMT DEF Measuring
    <3> QED
      BY <1>1, <1>7, <1>11, <2>2, <3>1, <3>3, <3>4, SMT DEF Sends
  <2> QED
    BY <1>1, <2>1, <2>2 DEF Measuring
<1>14. SentWhole'
  BY <1>1, Zenon DEF SentWhole
<1> QED
  BY <1>6, <1>9, <1>10, <1>12, <1>13, <1>14

\* A measurement that finds no chunk never happens in the second walk, and in
\* the first only when the transcript cannot be sent.
LEMMA NoChunkIInv ==
  ASSUME IInv, NoChunk
  PROVE  IInv'
<1> USE DEF IInv
<1>1. Measuring /\ End < Len(transcript)
      /\ (Size = 0 \/ (watch.length = 0 /\ ~ Room))
      /\ Refuse /\ UNCHANGED <<transcript, outbox_size, link, phone>>
  BY DEF NoChunk
<1>2. ASSUME CanSend(transcript, outbox_size), Boundary(transcript, End)
      PROVE  FALSE
  <2>1. Size \in 1 .. 4 /\ Fit(outbox_size, Size)
    BY <1>1, <1>2, Reads, SendNext DEF Size
  <2>2. Size \in Nat /\ Size # 0
    BY <2>1, SMT
  <2> QED
    BY <1>1, <2>1, <2>2, RoomForOne
<1>3. CASE watch.at = "counting"
  <2>1. Walked(transcript, outbox_size, End)
    BY <1>3 DEF Counts
  <2>2. ~ CanSend(transcript, outbox_size)
    BY <1>2, <2>1, Reads, WalkGoesOn
  <2> QED
    BY <1>1, <1>3, <2>2, RefuseIInv
<1>4. CASE watch.at = "sending"
  BY <1>2, <1>4 DEF Sends
<1> QED
  BY <1>1, <1>3, <1>4 DEF Measuring

LEMMA CountChunkIInv ==
  ASSUME IInv, CountChunk
  PROVE  IInv'
<1> USE DEF IInv
<1>1. /\ watch.at = "counting" /\ watch.length > 0
      /\ UNCHANGED <<transcript, outbox_size, link, phone>>
  BY DEF CountChunk, Measured
<1>2. /\ watch.chunk_count + 1 \in Nat /\ End \in Nat /\ 0 \in Nat
      /\ watch.chunk_count + 1 > 0 /\ watch.chunk_count + 1 <= End
  <2>1. PICK n, offset, length \in Nat :
          /\ n = watch.chunk_count /\ offset = watch.next_chunk_offset
          /\ length = watch.length
    BY Fields, Zenon DEF Typed
  <2>2. n <= offset /\ length > 0 /\ End = offset + length
    BY <1>1, <2>1, Zenon DEF Counts, End
  <2>3. /\ n + 1 \in Nat /\ offset + length \in Nat /\ 0 \in Nat
        /\ n + 1 > 0 /\ n + 1 <= offset + length
    BY <2>2, SMT
  <2> QED
    BY <2>1, <2>2, <2>3, Zenon
<1>3. PICK count \in Nat, offset \in Nat : count = watch.chunk_count + 1 /\ offset = End
  BY <1>2
<1>4. watch' = [watch EXCEPT !.next_chunk_offset = offset, !.length = 0,
                             !.chunk_count = count]
  BY <1>3 DEF CountChunk
<1>5. Typed'
  <2>1. PICK w1 : w1 = [watch EXCEPT !.next_chunk_offset = offset]
    OBVIOUS
  <2>2. PICK w2 : w2 = [w1 EXCEPT !.length = 0]
    OBVIOUS
  <2>3. w1 \in WatchStates
    BY <2>1, SMT DEF Typed, WatchStates
  <2>4. w2 \in WatchStates
    BY <2>2, <2>3, SMT DEF WatchStates
  <2>5. watch' = [w2 EXCEPT !.chunk_count = count]
    BY <1>4, <2>1, <2>2, SMT DEF Typed, WatchStates
  <2>6. watch' \in WatchStates
    BY <2>4, <2>5, SMT DEF WatchStates
  <2> QED
    BY <1>1, <2>6 DEF Typed
<1>6. /\ watch'.at = "counting" /\ watch'.chunk_capacity = watch.chunk_capacity
      /\ watch'.chunk_count = count
      /\ watch'.next_chunk_index = watch.next_chunk_index
      /\ watch'.next_chunk_offset = offset
      /\ watch'.length = 0
      /\ watch'.outbox_chunk_bytes = watch.outbox_chunk_bytes
  BY <1>1, <1>4, SMT DEF Typed, WatchStates
<1>7. End' = End
  BY <1>3, <1>6, SMT DEF End
<1>8. watch.next_chunk_index = 0 /\ watch.outbox_chunk_bytes = 0
  BY <1>1, SMT DEF Counts
<1>9. Bounded'
  BY <1>1, <1>2, <1>3, <1>6, <1>7, <1>8, Reads, SMT DEF Bounded
<1>10. Measures'
  BY <1>1, <1>6, SMT DEF Measures
<1>11. Counts'
  <2>1. Walked(transcript, outbox_size, End)'
    BY <1>1, <1>7, Zenon DEF Counts
  <2> QED
    BY <1>1, <1>2, <1>3, <1>6, <1>8, <2>1, SMT DEF Counts
<1>12. Sends'
  BY <1>6, <1>8, SMT DEF Sends
<1>13. SentWhole'
  BY <1>1, Zenon DEF SentWhole
<1> QED
  BY <1>5, <1>9, <1>10, <1>11, <1>12, <1>13

\* The first walk has come to the end: the transcript can be sent.
LEMMA PreparedIInv ==
  ASSUME IInv, Prepared
  PROVE  IInv'
<1> USE DEF IInv
<1>1. /\ watch.at = "counting" /\ watch.next_chunk_offset = Len(transcript)
      /\ UNCHANGED <<transcript, outbox_size, link, phone>>
      /\ watch' = [watch EXCEPT !.at = "sending", !.next_chunk_offset = 0]
  BY DEF Prepared
<1>2. watch.length = 0 /\ End = Len(transcript) /\ watch.chunk_count > 0
  BY <1>1, Fields, Reads, SMT DEF Typed, Bounded, Counts, End
<1>3. CanSend(transcript, outbox_size)
  BY <1>1, <1>2, Reads, WalkEnd DEF Counts
<1>4. Typed'
  <2>1. PICK w : w = [watch EXCEPT !.at = "sending"]
    OBVIOUS
  <2>2. w \in WatchStates
    BY <2>1, SMT DEF Typed, WatchStates
  <2>3. watch' = [w EXCEPT !.next_chunk_offset = 0]
    BY <1>1, <2>1, SMT DEF Typed, WatchStates
  <2>4. watch' \in WatchStates
    BY <2>2, <2>3, SMT DEF WatchStates
  <2> QED
    BY <1>1, <2>4 DEF Typed
<1>5. /\ watch'.at = "sending" /\ watch'.chunk_capacity = watch.chunk_capacity
      /\ watch'.chunk_count = watch.chunk_count
      /\ watch'.next_chunk_index = watch.next_chunk_index
      /\ watch'.next_chunk_offset = 0
      /\ watch'.length = watch.length
      /\ watch'.outbox_chunk_bytes = watch.outbox_chunk_bytes
  BY <1>1, SMT DEF Typed, WatchStates
<1>6. watch.next_chunk_index = 0 /\ watch.outbox_chunk_bytes = 0 /\ link = <<>>
  BY <1>1, SMT DEF Counts
<1>7. End' = 0 /\ watch'.next_chunk_offset + watch'.outbox_chunk_bytes = 0
  BY <1>2, <1>5, <1>6, SMT DEF End
<1>8. Bounded'
  BY <1>1, <1>5, <1>6, <1>7, Reads, SMT DEF Bounded
<1>9. Measures'
  BY <1>1, <1>5, SMT DEF Measures
<1>10. Counts'
  BY <1>5, SMT DEF Counts
<1>11. Sends'
  <2>1. 1 \in Starts(transcript) /\ 0 + 1 = 1
    BY <1>3, Reads, SMT DEF CanSend, WellFormed
  <2>2. Boundary(transcript, 0)
    BY <2>1, Zenon DEF Boundary
  <2>3. /\ Boundary(transcript, watch.next_chunk_offset)'
        /\ Boundary(transcript, End)'
        /\ Boundary(transcript, watch.next_chunk_offset + watch.outbox_chunk_bytes)'
    BY <1>1, <1>5, <1>7, <2>2, Zenon
  <2>4. Len(link) = 0 /\ watch.length <= watch.chunk_capacity
    BY <1>2, <1>6, Fields, SMT DEF Typed
  <2> QED
    BY <1>1, <1>2, <1>3, <1>5, <1>6, <2>3, <2>4, SMT DEF Sends
<1>12. SentWhole'
  BY <1>1, Zenon DEF SentWhole
<1> QED
  BY <1>4, <1>8, <1>9, <1>10, <1>11, <1>12

\* The chunk it sends: from boundary to boundary, and no longer than measured.
LEMMA ChunkIsWhole ==
  ASSUME IInv, watch.at = "sending", watch.length > 0
  PROVE  Chunk \in Chunks /\ Whole(Chunk, outbox_size)
<1>1. PICK a, b, n, length, capacity, outbox \in Nat :
        /\ a = watch.next_chunk_offset /\ b = End /\ n = Len(transcript)
        /\ length = watch.length /\ capacity = watch.chunk_capacity
        /\ outbox = outbox_size
  BY Fields, Reads, Zenon DEF IInv, Typed
<1>2. a < b /\ b <= n /\ b = a + length
  <2>1. b = a + length /\ b <= n /\ length > 0
    BY <1>1, Zenon DEF IInv, Bounded, End
  <2> QED
    BY <2>1, SMT
<1>3. /\ a + 1 \in 1 .. Len(transcript) /\ b \in a + 1 .. Len(transcript)
      /\ b - (a + 1) + 1 = watch.length
  <2>1. a + 1 \in 1 .. n /\ b \in a + 1 .. n /\ b - (a + 1) + 1 = length
    BY <1>2, SMT
  <2> QED
    BY <1>1, <2>1, Zenon
<1>4. PICK text : text = SubSeq(transcript, a + 1, b)
  OBVIOUS
<1>5. text \in Seq(Nat) /\ Len(text) = watch.length
  BY <1>3, <1>4, Reads, SubSeqFacts, Zenon
<1>6. text # <<>>
  BY <1>5, SMT
<1>7. WellFormed(text)
  <2>1. /\ WellFormed(transcript)
        /\ Boundary(transcript, a) /\ Boundary(transcript, b)
    BY <1>1, Zenon DEF IInv, Sends, CanSend
  <2> QED
    BY <1>1, <1>2, <1>4, <2>1, Reads, WellFormedPart
<1>8. Overhead + Len(text) <= outbox_size
  <2>1. Overhead + capacity <= outbox /\ length <= capacity
    BY <1>1, SMT DEF IInv, Measures, Sends
  <2>2. Overhead + length <= outbox
    BY <2>1, Reads, SMT
  <2> QED
    BY <1>1, <1>5, <2>2, Zenon
<1>9. Chunk = [index |-> watch.next_chunk_index, count |-> watch.chunk_count,
               total |-> Len(transcript), text |-> text]
  BY <1>1, <1>4, Zenon DEF Chunk
<1>10. Chunk \in Chunks
  BY <1>5, <1>9, Fields, Reads, SMT DEF Chunks
<1>11. Chunk.text = text
  BY <1>9, SMT
<1> QED
  BY <1>6, <1>7, <1>8, <1>10, <1>11, Zenon DEF Whole

LEMMA SendChunkIInv ==
  ASSUME IInv, SendChunk
  PROVE  IInv'
<1> USE DEF IInv
<1>1. /\ watch.at = "sending" /\ watch.length > 0 /\ Measuring
      /\ link' = Append(link, Chunk)
      /\ UNCHANGED <<transcript, outbox_size, phone>>
      /\ watch' = [watch EXCEPT !.outbox_chunk_bytes = watch.length, !.length = 0]
  BY DEF SendChunk, Measured
<1>2. PICK m : m = Chunk
  OBVIOUS
<1>3. m \in Chunks /\ Whole(m, outbox_size) /\ link' = Append(link, m)
  BY <1>1, <1>2, ChunkIsWhole
<1>4. link \in Seq(Chunks)
  BY DEF Typed
<1>5. /\ link' \in Seq(Chunks) /\ Len(link') = Len(link) + 1 /\ Len(link) \in Nat
      /\ \A i \in 1 .. Len(link) : link'[i] = link[i]
      /\ link'[Len(link) + 1] = m
  BY <1>3, <1>4, SMT
<1>6. Typed'
  <2>1. PICK n \in Nat : n = watch.length
    BY Fields DEF Typed
  <2>2. PICK w : w = [watch EXCEPT !.outbox_chunk_bytes = n]
    OBVIOUS
  <2>3. w \in WatchStates
    BY <2>2, SMT DEF Typed, WatchStates
  <2>4. watch' = [w EXCEPT !.length = 0]
    BY <1>1, <2>1, <2>2, SMT DEF Typed, WatchStates
  <2>5. watch' \in WatchStates
    BY <2>3, <2>4, SMT DEF WatchStates
  <2> QED
    BY <1>1, <1>5, <2>5 DEF Typed
<1>7. /\ watch'.at = "sending" /\ watch'.chunk_capacity = watch.chunk_capacity
      /\ watch'.chunk_count = watch.chunk_count
      /\ watch'.next_chunk_index = watch.next_chunk_index
      /\ watch'.next_chunk_offset = watch.next_chunk_offset
      /\ watch'.length = 0
      /\ watch'.outbox_chunk_bytes = watch.length
  BY <1>1, SMT DEF Typed, WatchStates
<1>8. /\ End' = watch.next_chunk_offset
      /\ watch'.next_chunk_offset + watch'.outbox_chunk_bytes = End
  BY <1>7, Fields, SMT DEF Typed, End
<1>9. watch.outbox_chunk_bytes = 0
  BY <1>1, SMT DEF Measuring
<1>10. Bounded'
  BY <1>1, <1>7, <1>8, <1>9, Fields, SMT DEF Typed, Bounded
<1>11. Measures'
  BY <1>1, <1>7, SMT DEF Measures
<1>12. Counts'
  BY <1>7, SMT DEF Counts
<1>13. Sends'
  <2>1. /\ CanSend(transcript, outbox_size)
        /\ Boundary(transcript, watch.next_chunk_offset)
        /\ Boundary(transcript, End)
        /\ watch.next_chunk_index < watch.chunk_count
        /\ Len(link) <= watch.next_chunk_index + 0
    BY <1>1, <1>9, SMT DEF Sends
  <2>2. /\ Boundary(transcript, watch.next_chunk_offset)'
        /\ Boundary(transcript, End)'
        /\ Boundary(transcript, watch.next_chunk_offset + watch.outbox_chunk_bytes)'
    BY <1>1, <1>7, <1>8, <2>1, Zenon
  <2>3. 0 <= watch.chunk_capacity /\ Len(link') <= watch.next_chunk_index + 1
    BY <1>5, <2>1, Fields, SMT DEF Typed
  <2>4. watch'.outbox_chunk_bytes > 0
    BY <1>1, <1>7
  <2> QED
    BY <1>1, <1>7, <2>1, <2>2, <2>3, <2>4, SMT DEF Sends
<1>14. SentWhole'
  <2> SUFFICES ASSUME NEW i \in DOMAIN link'
               PROVE  Whole(link'[i], outbox_size)
    BY <1>1, Zenon DEF SentWhole
  <2>1. i \in 1 .. Len(link) \/ i = Len(link) + 1
    BY <1>5, SMT
  <2>2. i \in 1 .. Len(link) => i \in DOMAIN link
    BY <1>4, SMT
  <2> QED
    BY <1>3, <1>5, <2>1, <2>2, Zenon DEF SentWhole
<1> QED
  BY <1>6, <1>10, <1>11, <1>12, <1>13, <1>14

LEMMA ChunkSentIInv ==
  ASSUME IInv, ChunkSent
  PROVE  IInv'
<1> USE DEF IInv
<1>1. /\ watch.at = "sending" /\ watch.outbox_chunk_bytes > 0
      /\ UNCHANGED <<transcript, outbox_size, link, phone>>
  BY DEF ChunkSent
<1>2. PICK offset, index \in Nat :
        /\ offset = watch.next_chunk_offset + watch.outbox_chunk_bytes
        /\ index = watch.next_chunk_index + 1
  <2>1. /\ watch.next_chunk_offset + watch.outbox_chunk_bytes \in Nat
        /\ watch.next_chunk_index + 1 \in Nat
    BY Fields, SMT DEF Typed
  <2> QED
    BY <2>1, Zenon
<1>3. PICK at \in {"sending", "sent"} :
        at = IF index < watch.chunk_count THEN "sending" ELSE "sent"
  BY SMT
<1>4. watch' = [watch EXCEPT !.next_chunk_offset = offset, !.next_chunk_index = index,
                             !.outbox_chunk_bytes = 0, !.at = at]
  BY <1>2, <1>3 DEF ChunkSent
<1>5. Typed'
  <2>1. PICK w1 : w1 = [watch EXCEPT !.next_chunk_offset = offset]
    OBVIOUS
  <2>2. PICK w2 : w2 = [w1 EXCEPT !.next_chunk_index = index]
    OBVIOUS
  <2>3. PICK w3 : w3 = [w2 EXCEPT !.outbox_chunk_bytes = 0]
    OBVIOUS
  <2>4. w1 \in WatchStates
    BY <2>1, SMT DEF Typed, WatchStates
  <2>5. w2 \in WatchStates
    BY <2>2, <2>4, SMT DEF WatchStates
  <2>6. w3 \in WatchStates
    BY <2>3, <2>5, SMT DEF WatchStates
  <2>7. watch' = [w3 EXCEPT !.at = at]
    BY <1>4, <2>1, <2>2, <2>3, SMT DEF Typed, WatchStates
  <2>8. watch' \in WatchStates
    BY <2>6, <2>7, SMT DEF WatchStates
  <2> QED
    BY <1>1, <2>8 DEF Typed
<1>6. /\ watch'.at = at /\ watch'.chunk_capacity = watch.chunk_capacity
      /\ watch'.chunk_count = watch.chunk_count
      /\ watch'.next_chunk_index = index
      /\ watch'.next_chunk_offset = offset
      /\ watch'.length = watch.length
      /\ watch'.outbox_chunk_bytes = 0
  BY <1>4, SMT DEF Typed, WatchStates
<1>7. /\ CanSend(transcript, outbox_size) /\ watch.length = 0
      /\ Boundary(transcript, offset)
      /\ watch.next_chunk_index < watch.chunk_count
      /\ Len(link) <= index
  BY <1>1, <1>2, SMT DEF Sends
<1>8. End' = offset /\ watch'.next_chunk_offset + watch'.outbox_chunk_bytes = offset
  BY <1>6, <1>7, SMT DEF End
<1>9. Bounded'
  BY <1>1, <1>2, <1>6, <1>7, <1>8, Fields, SMT DEF Typed, Bounded
<1>10. Measures'
  BY <1>1, <1>6, SMT DEF Measures
<1>11. Counts'
  BY <1>3, <1>6, SMT DEF Counts
<1>12. Sends'
  <2>1. /\ Boundary(transcript, watch.next_chunk_offset)'
        /\ Boundary(transcript, End)'
        /\ Boundary(transcript, watch.next_chunk_offset + watch.outbox_chunk_bytes)'
    BY <1>1, <1>6, <1>7, <1>8, Zenon
  <2>2. 0 <= watch.chunk_capacity /\ Len(link) <= index + 0
    BY <1>7, Fields, SMT DEF Typed
  <2>3. at = "sending" => index < watch.chunk_count
    BY <1>3, SMT
  <2> QED
    BY <1>1, <1>3, <1>6, <1>7, <2>1, <2>2, <2>3, SMT DEF Sends
<1>13. SentWhole'
  BY <1>1, Zenon DEF SentWhole
<1> QED
  BY <1>5, <1>9, <1>10, <1>11, <1>12, <1>13

\* The phone takes a chunk: what is left in the link is as it was.
LEMMA AddChunkIInv ==
  ASSUME IInv, AddChunk
  PROVE  IInv'
<1> USE DEF IInv
<1>1. /\ link # <<>> /\ phone.outcome = "adding"
      /\ link' = Tail(link) /\ UNCHANGED <<transcript, outbox_size, watch>>
  BY DEF AddChunk
<1>2. watch.at \in {"sending", "sent"}
  BY <1>1, Fields, SMT DEF Typed, Counts
<1>3. link \in Seq(Chunks)
  BY DEF Typed
<1>4. /\ link' \in Seq(Chunks) /\ Len(link') <= Len(link)
      /\ \A i \in DOMAIN link' : i + 1 \in DOMAIN link /\ link'[i] = link[i + 1]
  BY <1>1, <1>3, SMT
<1>5. Typed'
  <2>1. PICK m, units, chunks :
          phone' =
            CASE ~ (WellFormedChunk(m, units) /\ Fits(m)) ->
                   [phone EXCEPT !.outcome = "error"]
              [] WellFormedChunk(m, units) /\ Fits(m) ->
                   [chunkCount |-> m.count, totalBytes |-> m.total,
                    nextIndex |-> phone.nextIndex + 1, chunks |-> chunks,
                    outcome |->
                      CASE phone.nextIndex + 1 < m.count -> "adding"
                        [] phone.nextIndex + 1 >= m.count
                             /\ Utf8ByteLength(Joined(chunks)) = m.total -> "complete"
                        [] OTHER -> "error"]
    BY Zenon DEF AddChunk
  <2>2. CASE ~ (WellFormedChunk(m, units) /\ Fits(m))
    <3>1. phone' = [phone EXCEPT !.outcome = "error"]
      BY <2>1, <2>2, Zenon
    <3>2. "outcome" \in DOMAIN phone /\ DOMAIN phone = DOMAIN NewAssembler
      BY SMT DEF Typed, NewAssembler
    <3>3. phone'.outcome = "error" /\ DOMAIN phone' = DOMAIN NewAssembler
      BY <3>1, <3>2, SMT
    <3> QED
      BY <1>1, <1>4, <3>3 DEF Typed
  <2>3. CASE WellFormedChunk(m, units) /\ Fits(m)
    <3>1. PICK outcome : outcome =
            CASE phone.nextIndex + 1 < m.count -> "adding"
              [] phone.nextIndex + 1 >= m.count
                   /\ Utf8ByteLength(Joined(chunks)) = m.total -> "complete"
              [] OTHER -> "error"
      OBVIOUS
    <3>2. outcome \in {"adding", "complete", "error"}
      BY <3>1, Zenon
    <3>3. phone' = [chunkCount |-> m.count, totalBytes |-> m.total,
                    nextIndex |-> phone.nextIndex + 1, chunks |-> chunks,
                    outcome |-> outcome]
      BY <2>1, <2>3, <3>1, Zenon
    <3>4. phone'.outcome = outcome /\ DOMAIN phone' = DOMAIN NewAssembler
      BY <3>3, SMT DEF NewAssembler
    <3> QED
      BY <1>1, <1>4, <3>2, <3>4 DEF Typed
  <2> QED
    BY <2>2, <2>3
<1>6. Bounded'
  BY <1>1, Zenon DEF Bounded, End
<1>7. Measures'
  BY <1>1, Zenon DEF Measures
<1>8. Counts'
  BY <1>1, <1>2, SMT DEF Counts
<1>9. Sends'
  <2>1. Len(link') \in Nat /\ Len(link) \in Nat
    BY <1>3, <1>4, SMT
  <2>2. ASSUME NEW n \in Nat, Len(link) <= n
        PROVE  Len(link') <= n
    BY <1>4, <2>1, <2>2, SMT
  <2>3. PICK n \in Nat : n = watch.next_chunk_index
                              + (IF watch.outbox_chunk_bytes > 0 THEN 1 ELSE 0)
    <3>1. watch.next_chunk_index + 1 \in Nat /\ watch.next_chunk_index + 0 \in Nat
      BY Fields, SMT DEF Typed
    <3> QED
      BY <3>1, Zenon
  <2>4. watch.at = "sending" => Len(link') <= n
    BY <2>2, <2>3, Zenon DEF Sends
  <2>5. watch.at = "sent" => Len(link') <= watch.next_chunk_index
    BY <2>2, Fields, Zenon DEF Typed, Sends
  <2>6. End' = End
    BY <1>1, Zenon DEF End
  <2> QED
    BY <1>1, <2>3, <2>4, <2>5, <2>6, Zenon DEF Sends
<1>10. SentWhole'
  BY <1>1, <1>4, Zenon DEF SentWhole
<1> QED
  BY <1>5, <1>6, <1>7, <1>8, <1>9, <1>10

LEMMA StepIInv ==
  ASSUME IInv, [Next]_transferVars
  PROVE  IInv'
<1>1. CASE Measure
  BY <1>1, MeasureIInv
<1>2. CASE Grow
  BY <1>2, GrowIInv
<1>3. CASE NoChunk
  BY <1>3, NoChunkIInv
<1>4. CASE CountChunk
  BY <1>4, CountChunkIInv
<1>5. CASE Prepared
  BY <1>5, PreparedIInv
<1>6. CASE SendChunk
  BY <1>6, SendChunkIInv
<1>7. CASE ChunkSent
  BY <1>7, ChunkSentIInv
<1>8. CASE AddChunk
  BY <1>8, AddChunkIInv
<1>9. CASE UNCHANGED transferVars
  BY <1>9, Zenon
     DEF transferVars, IInv, Typed, Bounded, Measures, Counts, Sends, SentWhole, End
<1> QED
  BY <1>1, <1>2, <1>3, <1>4, <1>5, <1>6, <1>7, <1>8, <1>9 DEF Next, WatchMoves, Done

LEMMA IInvType ==
  ASSUME IInv
  PROVE  TypeOK
<1> USE DEF IInv
<1>1. watch.chunk_capacity \in 0 .. MaxChunkBytes
  BY Fields, Reads, SMT DEF Typed, Measures
<1>2. /\ watch.next_chunk_offset \in 0 .. Len(transcript)
      /\ watch.length \in 0 .. Len(transcript)
      /\ watch.outbox_chunk_bytes \in 0 .. Len(transcript)
      /\ watch.chunk_count \in 0 .. Len(transcript)
      /\ watch.next_chunk_index \in 0 .. Len(transcript)
  <2>1. PICK n \in Nat : n = Len(transcript)
    BY Reads
  <2>2. PICK offset, length, bytes, count, index \in Nat :
          /\ offset = watch.next_chunk_offset /\ length = watch.length
          /\ bytes = watch.outbox_chunk_bytes /\ count = watch.chunk_count
          /\ index = watch.next_chunk_index
    BY Fields, Zenon DEF Typed
  <2>3. /\ offset + length <= n /\ offset + bytes <= n
        /\ index <= count /\ count <= n
    BY <2>1, <2>2, Zenon DEF Bounded, End
  <2>4. /\ offset \in 0 .. n /\ length \in 0 .. n /\ bytes \in 0 .. n
        /\ count \in 0 .. n /\ index \in 0 .. n
    BY <2>3, SMT
  <2> QED
    BY <2>1, <2>2, <2>4, Zenon
<1>3. Len(link) <= watch.chunk_count
  <2>1. Len(link) \in Nat /\ (link = <<>> => Len(link) = 0)
    BY SMT DEF Typed
  <2>2. CASE watch.at \in {"start", "counting", "failed"}
    BY <2>1, <2>2, Fields, SMT DEF Typed, Counts
  <2>3. CASE watch.at = "sending"
    BY <2>1, <2>3, Fields, SMT DEF Typed, Sends
  <2>4. CASE watch.at = "sent"
    BY <2>1, <2>4, Fields, SMT DEF Typed, Bounded, Sends
  <2> QED
    BY <2>2, <2>3, <2>4, Fields DEF Typed
<1> QED
  BY <1>1, <1>2, <1>3, Fields, Zenon DEF Typed, TypeOK

\* CanSend is Sendable, of this transcript and this outbox.
LEMMA SendableIs == CanSend(transcript, outbox_size) <=> Sendable
BY Zenon DEF CanSend, Sendable, Fit

-----------------------------------------------------------------------------
(* The theorems.                                                           *)

\* The inductive invariant holds in every behaviour: the transfer's walk and
\* its chunks, whatever the transcripts and the outbox's sizes.
THEOREM Invariance == Spec => []IInv
<1>1. Init => IInv
  BY InitIInv
<1>2. IInv /\ [Next]_transferVars => IInv'
  BY StepIInv
<1> QED
  BY <1>1, <1>2, PTL DEF Spec

\* No counter of prv_prepare_chunks and prv_send_next_chunk leaves the
\* transcript, and no more chunks are on their way than were counted.
THEOREM TransferTypes == Spec => []TypeOK
<1>1. IInv => TypeOK
  BY IInvType
<1> QED
  BY <1>1, Invariance, PTL

\* prv_prepare_chunks, by comparing bytes, refuses exactly the transcripts
\* that are no Unicode text or hold a character no chunk has room for, before
\* a chunk was sent; prv_send_next_chunk never fails over what it accepted.
THEOREM RefusesExactly == Spec => []RefusesTheUnsendable
<1>1. IInv => RefusesTheUnsendable
  BY SendableIs, SMT DEF IInv, Counts, Sends, RefusesTheUnsendable
<1> QED
  BY <1>1, Invariance, PTL

\* Each chunk prv_send_chunk writes is some whole characters, and fits the
\* outbox with its dictionary.
THEOREM WholeChunks == Spec => []ChunksAreWhole
<1>1. IInv => ChunksAreWhole
  BY IInvType, Zenon DEF IInv, SentWhole, Whole, ChunksAreWhole
<1> QED
  BY <1>1, Invariance, PTL

=============================================================================
