---------------------------- MODULE ResultProofs ----------------------------
(***************************************************************************)
(* The phone rejects exactly the responses that do not fit, and divides    *)
(* the others into as few chunks as their characters allow, whatever the   *)
(* response and both limits are.                                           *)
(*                                                                         *)
(* Both properties speak of the encoding, the code of a count that adds up *)
(* code units: that the count is the encoding's length is the first part.  *)
(* The second is that a paired text is made of whole characters, and stays *)
(* paired when whole characters are joined.  The invariant then follows    *)
(* one turn of splitUtf8 after the other.                                  *)
(***************************************************************************)
EXTENDS ResultTransfer, SequenceTheorems, WellFoundedInduction, TLAPS

\* Every set of natural numbers has a least element.
LEMMA LeastNumber ==
  ASSUME NEW T \in SUBSET Nat, T # {}
  PROVE  \E n \in T : \A m \in T : n <= m
<1> DEFINE R == OpToRel(<, Nat)
<1>1. IsWellFoundedOn(R, Nat)
  BY NatLessThanWellFounded
<1>2. \A m, n \in Nat : m < n => <<m, n>> \in R
  BY DEF OpToRel
<1> HIDE DEF R
<1>3. PICK n \in T : \A m \in T : ~ (<<m, n>> \in R)
  BY <1>1, WFMin
<1>4. ASSUME NEW m \in T
      PROVE  n <= m
  <2>1. m \in Nat /\ n \in Nat /\ ~ (m < n)
    BY <1>2, <1>3
  <2> QED
    BY <2>1
<1> QED
  BY <1>4

-----------------------------------------------------------------------------
(* What the phone counts is what the encoding holds.                       *)

\* A function of the numbers up to n whose value at i is made of the one
\* before, and of what `more` has at i.
SumOf(f, more, n) ==
  f = [i \in 0 .. n |-> IF i = 0 THEN 0 ELSE f[i - 1] + more[i]]

JoinOf(f, more, n) ==
  f = [i \in 0 .. n |-> IF i = 0 THEN <<>> ELSE f[i - 1] \o more[i]]

\* There is such a function for any n, and one only: the recursive functions of
\* Utf8 are what they say.
LEMMA SumExists ==
  ASSUME NEW more, NEW n \in Nat
  PROVE  \E f : SumOf(f, more, n)
<1> DEFINE T == {k \in Nat : ~ \E f : SumOf(f, more, k)}
<1>1. SUFFICES ASSUME T # {} PROVE FALSE
  OBVIOUS
<1>2. PICK k \in T : \A m \in T : k <= m
  <2>1. T \in SUBSET Nat
    OBVIOUS
  <2> HIDE DEF T
  <2> QED
    BY <1>1, <2>1, LeastNumber
<1>3. k # 0
  <2>1. SumOf([i \in 0 .. 0 |-> 0], more, 0)
    BY SMT DEF SumOf
  <2> QED
    BY <2>1
<1>4. k - 1 \in Nat /\ k - 1 \notin T
  <2>1. k \in Nat
    OBVIOUS
  <2> HIDE DEF T
  <2> QED
    BY <1>2, <1>3, <2>1, SMT
<1>5. PICK f : SumOf(f, more, k - 1)
  BY <1>4
<1>6. PICK g : g = [i \in 0 .. k |-> IF i = k THEN f[k - 1] + more[k] ELSE f[i]]
  OBVIOUS
<1>7. \A i \in 0 .. k : g[i] = IF i = 0 THEN 0 ELSE g[i - 1] + more[i]
  <2> SUFFICES ASSUME NEW i \in 0 .. k
               PROVE  g[i] = IF i = 0 THEN 0 ELSE g[i - 1] + more[i]
    OBVIOUS
  <2>1. k \in Nat
    OBVIOUS
  <2>2. f[0] = 0 /\ \A j \in 1 .. k - 1 : f[j] = f[j - 1] + more[j]
    <3>1. f = [j \in 0 .. k - 1 |-> IF j = 0 THEN 0 ELSE f[j - 1] + more[j]]
      BY <1>5 DEF SumOf
    <3>2. 0 \in 0 .. k - 1 /\ \A j \in 1 .. k - 1 : j \in 0 .. k - 1 /\ j # 0
      BY <1>3, <2>1, SMT
    <3> QED
      BY <3>1, <3>2, Zenon
  <2>3. \A j \in 0 .. k : g[j] = IF j = k THEN f[k - 1] + more[k] ELSE f[j]
    BY <1>6, Zenon
  <2> HIDE DEF T
  <2>4. CASE i = 0
    <3>1. 0 \in 0 .. k /\ 0 # k
      BY <1>3, <2>1, SMT
    <3> QED
      BY <2>2, <2>3, <2>4, <3>1, Zenon
  <2>5. CASE i # 0
    <3>1. i - 1 \in 0 .. k /\ i - 1 # k /\ (i # k => i \in 1 .. k - 1)
      BY <2>1, <2>5, SMT
    <3>2. g[i - 1] = f[i - 1]
      BY <2>3, <3>1, Zenon
    <3> QED
      BY <2>2, <2>3, <2>5, <3>1, <3>2, Zenon
  <2> QED
    BY <2>4, <2>5
<1>8. SumOf(g, more, k)
  <2>1. PICK h : h = [i \in 0 .. k |-> IF i = 0 THEN 0 ELSE g[i - 1] + more[i]]
    OBVIOUS
  <2>2. g = h
    <3> HIDE DEF T
    <3> QED
      BY <1>6, <1>7, <2>1
  <2> QED
    BY <2>1, <2>2, Zenon DEF SumOf
<1> QED
  BY <1>2, <1>8

LEMMA JoinExists ==
  ASSUME NEW more, NEW n \in Nat
  PROVE  \E f : JoinOf(f, more, n)
<1> DEFINE T == {k \in Nat : ~ \E f : JoinOf(f, more, k)}
<1>1. SUFFICES ASSUME T # {} PROVE FALSE
  OBVIOUS
<1>2. PICK k \in T : \A m \in T : k <= m
  <2>1. T \in SUBSET Nat
    OBVIOUS
  <2> HIDE DEF T
  <2> QED
    BY <1>1, <2>1, LeastNumber
<1>3. k # 0
  <2>1. JoinOf([i \in 0 .. 0 |-> <<>>], more, 0)
    BY SMT DEF JoinOf
  <2> QED
    BY <2>1
<1>4. k - 1 \in Nat /\ k - 1 \notin T
  <2>1. k \in Nat
    OBVIOUS
  <2> HIDE DEF T
  <2> QED
    BY <1>2, <1>3, <2>1, SMT
<1>5. PICK f : JoinOf(f, more, k - 1)
  BY <1>4
<1>6. PICK g : g = [i \in 0 .. k |-> IF i = k THEN f[k - 1] \o more[k] ELSE f[i]]
  OBVIOUS
<1>7. \A i \in 0 .. k : g[i] = IF i = 0 THEN <<>> ELSE g[i - 1] \o more[i]
  <2> SUFFICES ASSUME NEW i \in 0 .. k
               PROVE  g[i] = IF i = 0 THEN <<>> ELSE g[i - 1] \o more[i]
    OBVIOUS
  <2>1. k \in Nat
    OBVIOUS
  <2>2. f[0] = <<>> /\ \A j \in 1 .. k - 1 : f[j] = f[j - 1] \o more[j]
    <3>1. f = [j \in 0 .. k - 1 |-> IF j = 0 THEN <<>> ELSE f[j - 1] \o more[j]]
      BY <1>5 DEF JoinOf
    <3>2. 0 \in 0 .. k - 1 /\ \A j \in 1 .. k - 1 : j \in 0 .. k - 1 /\ j # 0
      BY <1>3, <2>1, SMT
    <3> QED
      BY <3>1, <3>2, Zenon
  <2>3. \A j \in 0 .. k : g[j] = IF j = k THEN f[k - 1] \o more[k] ELSE f[j]
    BY <1>6, Zenon
  <2> HIDE DEF T
  <2>4. CASE i = 0
    <3>1. 0 \in 0 .. k /\ 0 # k
      BY <1>3, <2>1, SMT
    <3> QED
      BY <2>2, <2>3, <2>4, <3>1, Zenon
  <2>5. CASE i # 0
    <3>1. i - 1 \in 0 .. k /\ i - 1 # k /\ (i # k => i \in 1 .. k - 1)
      BY <2>1, <2>5, SMT
    <3>2. g[i - 1] = f[i - 1]
      BY <2>3, <3>1, Zenon
    <3> QED
      BY <2>2, <2>3, <2>5, <3>1, <3>2, Zenon
  <2> QED
    BY <2>4, <2>5
<1>8. JoinOf(g, more, k)
  <2>1. PICK h : h = [i \in 0 .. k |-> IF i = 0 THEN <<>> ELSE g[i - 1] \o more[i]]
    OBVIOUS
  <2>2. g = h
    <3> HIDE DEF T
    <3> QED
      BY <1>6, <1>7, <2>1
  <2> QED
    BY <2>1, <2>2, Zenon DEF JoinOf
<1> QED
  BY <1>2, <1>8

\* The sums of natural numbers, and the texts joined.
LEMMA SumType ==
  ASSUME NEW n \in Nat, NEW more, \A i \in 1 .. n : more[i] \in Nat,
         NEW f, SumOf(f, more, n)
  PROVE  /\ f[0] = 0 /\ \A i \in 1 .. n : f[i] = f[i - 1] + more[i]
         /\ \A i \in 0 .. n : f[i] \in Nat
<1>1. \A i \in 0 .. n : f[i] = IF i = 0 THEN 0 ELSE f[i - 1] + more[i]
  BY Zenon DEF SumOf
<1>2. /\ 0 \in 0 .. n
      /\ \A i \in 1 .. n : i \in 0 .. n /\ i # 0 /\ i - 1 \in 0 .. n /\ i - 1 < i
      /\ \A i \in 0 .. n : i = 0 \/ i \in 1 .. n
  BY SMT
<1>3. f[0] = 0 /\ \A i \in 1 .. n : f[i] = f[i - 1] + more[i]
  BY <1>1, <1>2, Zenon
<1>4. ASSUME NEW i \in 0 .. n, f[i] \notin Nat
      PROVE  FALSE
  <2> DEFINE T == {k \in 0 .. n : f[k] \notin Nat}
  <2>1. T \in SUBSET Nat /\ T # {}
    BY <1>4, SMT
  <2>2. PICK k \in T : \A m \in T : k <= m
    <3> HIDE DEF T
    <3> QED
      BY <2>1, LeastNumber
  <2>3. k \in 0 .. n /\ f[k] \notin Nat
    OBVIOUS
  <2>4. k # 0
    BY <1>3, <2>3, SMT
  <2>5. k \in 1 .. n
    BY <1>2, <2>3, <2>4, Zenon
  <2>6. k - 1 \in 0 .. n /\ ~ (k <= k - 1)
    BY <2>3, <2>5, SMT
  <2>7. f[k - 1] \in Nat
    BY <2>2, <2>6, Zenon
  <2> HIDE DEF T
  <2>8. f[k] = f[k - 1] + more[k] /\ more[k] \in Nat
    BY <1>3, <2>5
  <2> QED
    BY <2>3, <2>7, <2>8, SMT
<1> QED
  BY <1>3, <1>4, Zenon

LEMMA JoinType ==
  ASSUME NEW n \in Nat, NEW more, \A i \in 1 .. n : more[i] \in Seq(Nat),
         NEW f, JoinOf(f, more, n)
  PROVE  /\ f[0] = <<>> /\ \A i \in 1 .. n : f[i] = f[i - 1] \o more[i]
         /\ \A i \in 0 .. n : f[i] \in Seq(Nat)
<1>1. \A i \in 0 .. n : f[i] = IF i = 0 THEN <<>> ELSE f[i - 1] \o more[i]
  BY Zenon DEF JoinOf
<1>2. /\ 0 \in 0 .. n
      /\ \A i \in 1 .. n : i \in 0 .. n /\ i # 0 /\ i - 1 \in 0 .. n /\ i - 1 < i
      /\ \A i \in 0 .. n : i = 0 \/ i \in 1 .. n
  BY SMT
<1>3. f[0] = <<>> /\ \A i \in 1 .. n : f[i] = f[i - 1] \o more[i]
  BY <1>1, <1>2, Zenon
<1>4. ASSUME NEW i \in 0 .. n, f[i] \notin Seq(Nat)
      PROVE  FALSE
  <2> DEFINE T == {k \in 0 .. n : f[k] \notin Seq(Nat)}
  <2>1. T \in SUBSET Nat /\ T # {}
    BY <1>4, SMT
  <2>2. PICK k \in T : \A m \in T : k <= m
    <3> HIDE DEF T
    <3> QED
      BY <2>1, LeastNumber
  <2>3. k \in 0 .. n /\ f[k] \notin Seq(Nat)
    OBVIOUS
  <2>4. k # 0
    <3>1. <<>> \in Seq(Nat)
      BY SMT
    <3> QED
      BY <1>3, <2>3, <3>1, Zenon
  <2>5. k \in 1 .. n
    BY <1>2, <2>3, <2>4, Zenon
  <2>6. k - 1 \in 0 .. n /\ ~ (k <= k - 1)
    BY <2>3, <2>5, SMT
  <2>7. f[k - 1] \in Seq(Nat)
    BY <2>2, <2>6, Zenon
  <2> HIDE DEF T
  <2>8. f[k] = f[k - 1] \o more[k] /\ more[k] \in Seq(Nat)
    BY <1>3, <2>5
  <2> QED
    BY <2>3, <2>7, <2>8, SMT
<1> QED
  BY <1>3, <1>4, Zenon

\* Code units.
Units == {u \in Nat : u < 65536}

LEMMA UnitType ==
  ASSUME NEW u \in Units
  PROVE  /\ UnitBytes(u) \in 1 .. 3
         /\ High(u) \/ Low(u) => UnitBytes(u) = 2
         /\ ~ (High(u) /\ Low(u))
         /\ ~ High(u) /\ ~ Low(u) =>
              ToUtf8(u) \in Seq(Nat) /\ Len(ToUtf8(u)) = UnitBytes(u)
<1>1. u \in Nat /\ u < 65536
  BY SMT DEF Units
<1>2. UnitBytes(u) \in 1 .. 3 /\ (High(u) \/ Low(u) => UnitBytes(u) = 2) /\ ~ (High(u) /\ Low(u))
  BY <1>1, SMT DEF UnitBytes, High, Low
<1>3. ASSUME ~ High(u), ~ Low(u)
      PROVE  ToUtf8(u) \in Seq(Nat) /\ Len(ToUtf8(u)) = UnitBytes(u)
  <2>1. CASE u < 128
    <3>1. ToUtf8(u) = <<u>>
      BY <1>1, <2>1, SMT DEF ToUtf8
    <3>2. UnitBytes(u) = 1
      BY <1>1, <2>1, SMT DEF UnitBytes, High, Low
    <3> QED
      BY <1>1, <3>1, <3>2, SMT
  <2>2. CASE u >= 128 /\ u < 2048
    <3>1. PICK a, b \in Nat : ToUtf8(u) = <<a, b>>
      <4>1. 192 + u \div 64 \in Nat /\ 128 + (u % 64) \in Nat
        BY <1>1, SMT
      <4>2. ToUtf8(u) = <<192 + u \div 64, 128 + (u % 64)>>
        BY <1>1, <2>2, SMT DEF ToUtf8
      <4> QED
        BY <4>1, <4>2, SMT
    <3>2. UnitBytes(u) = 2
      BY <1>1, <2>2, SMT DEF UnitBytes, High, Low
    <3> QED
      BY <3>1, <3>2, SMT
  <2>3. CASE u >= 2048
    <3>1. PICK a, b, c \in Nat : ToUtf8(u) = <<a, b, c>>
      <4>1. /\ 224 + u \div 4096 \in Nat /\ 128 + ((u \div 64) % 64) \in Nat
            /\ 128 + (u % 64) \in Nat
        BY <1>1, SMT
      <4>2. ToUtf8(u) =
              <<224 + u \div 4096, 128 + ((u \div 64) % 64), 128 + (u % 64)>>
        BY <1>1, <2>3, SMT DEF ToUtf8
      <4> QED
        BY <4>1, <4>2, SMT
    <3>2. UnitBytes(u) = 3
      BY <1>1, <1>3, <2>3, SMT DEF UnitBytes
    <3> QED
      BY <3>1, <3>2, SMT
  <2> QED
    BY <1>1, <2>1, <2>2, <2>3, SMT
<1> QED
  BY <1>2, <1>3, SMT

\* A pair is encoded in four bytes.
LEMMA PairType ==
  ASSUME NEW h \in Units, High(h), NEW l \in Units, Low(l)
  PROVE  /\ ToUtf8(65536 + (h - 55296) * 1024 + (l - 56320)) \in Seq(Nat)
         /\ Len(ToUtf8(65536 + (h - 55296) * 1024 + (l - 56320))) = 4
<1>1. h \in Nat /\ l \in Nat /\ 55296 <= h /\ 56320 <= l
  BY SMT DEF Units, High, Low
<1>2. PICK c \in Nat : c = 65536 + (h - 55296) * 1024 + (l - 56320) /\ c >= 65536
  <2>1. PICK a, b \in Nat : a = h - 55296 /\ b = l - 56320
    BY <1>1, SMT
  <2>2. 65536 + a * 1024 + b \in Nat /\ 65536 + a * 1024 + b >= 65536
    BY SMT
  <2> QED
    BY <2>1, <2>2, SMT
<1>3. PICK p, q, r, s \in Nat : ToUtf8(c) = <<p, q, r, s>>
  <2>1. /\ 240 + c \div 262144 \in Nat /\ 128 + ((c \div 4096) % 64) \in Nat
        /\ 128 + ((c \div 64) % 64) \in Nat /\ 128 + (c % 64) \in Nat
    BY SMT
  <2>2. ~ (c < 128) /\ ~ (c >= 128 /\ c < 2048) /\ ~ (c >= 2048 /\ c < 65536)
    BY <1>2, SMT
  <2>3. ToUtf8(c) = <<240 + c \div 262144, 128 + ((c \div 4096) % 64),
                      128 + ((c \div 64) % 64), 128 + (c % 64)>>
    BY <2>2, SMT DEF ToUtf8
  <2> QED
    BY <2>1, <2>3, SMT
<1>4. ToUtf8(c) \in Seq(Nat) /\ Len(ToUtf8(c)) = 4
  BY <1>3, SMT
<1> QED
  BY <1>2, <1>4, SMT

\* utf8ByteLength adds up its units' bytes ...
LEMMA LengthUnfolds ==
  ASSUME NEW u \in Seq(Units)
  PROVE  \E f : /\ f[0] = 0 /\ \A i \in 1 .. Len(u) : f[i] = f[i - 1] + UnitBytes(u[i])
                /\ \A i \in 0 .. Len(u) : f[i] \in Nat
                /\ Utf8ByteLength(u) = f[Len(u)]
<1>1. PICK n \in Nat : n = Len(u)
  BY SMT
<1>2. PICK more : more = [i \in 1 .. n |-> UnitBytes(u[i])]
  OBVIOUS
<1>3. \A i \in 1 .. n : more[i] = UnitBytes(u[i]) /\ more[i] \in Nat
  <2> SUFFICES ASSUME NEW i \in 1 .. n
               PROVE  more[i] = UnitBytes(u[i]) /\ more[i] \in Nat
    OBVIOUS
  <2>1. u[i] \in Units
    BY <1>1, SMT
  <2>2. UnitBytes(u[i]) \in Nat
    BY <2>1, UnitType, SMT
  <2> QED
    BY <1>2, <2>2, Zenon
<1> DEFINE F(f) == [i \in 0 .. n |-> IF i = 0 THEN 0 ELSE f[i - 1] + UnitBytes(u[i])]
<1>4. ASSUME NEW f
      PROVE  SumOf(f, more, n) <=> f = F(f)
  <2>1. \A i \in 0 .. n : i # 0 => i \in 1 .. n
    BY SMT
  <2>2. F(f) = [i \in 0 .. n |-> IF i = 0 THEN 0 ELSE f[i - 1] + more[i]]
    BY <1>3, <2>1, Zenon
  <2> HIDE DEF F
  <2> QED
    BY <2>2, Zenon DEF SumOf
<1>5. PICK g : g = CHOOSE f : f = F(f)
  OBVIOUS
<1>6. \E f : f = F(f)
  <2>1. PICK f : SumOf(f, more, n)
    BY SumExists
  <2> HIDE DEF F
  <2> QED
    BY <1>4, <2>1, Zenon
<1>7. SumOf(g, more, n)
  <2> HIDE DEF F
  <2>1. g = F(g)
    BY <1>5, <1>6, Zenon
  <2> QED
    BY <1>4, <2>1, Zenon
<1>8. /\ g[0] = 0 /\ \A i \in 1 .. n : g[i] = g[i - 1] + more[i]
      /\ \A i \in 0 .. n : g[i] \in Nat
  BY <1>3, <1>7, SumType
<1>9. Utf8ByteLength(u) = g[n]
  BY <1>1, <1>5, Zenon DEF Utf8ByteLength
<1> QED
  BY <1>1, <1>3, <1>8, <1>9, Zenon

LEMMA LengthType ==
  ASSUME NEW u \in Seq(Units)
  PROVE  Utf8ByteLength(u) \in Nat
<1>1. PICK f : (\A i \in 0 .. Len(u) : f[i] \in Nat) /\ Utf8ByteLength(u) = f[Len(u)]
  BY LengthUnfolds
<1>2. Len(u) \in 0 .. Len(u)
  BY SMT
<1> QED
  BY <1>1, <1>2, Zenon

\* In a paired text each half stands next to the other.
LEMMA Partners ==
  ASSUME NEW u \in Seq(Units), ~ Unpaired(u), NEW i \in 1 .. Len(u)
  PROVE  /\ High(u[i]) => i + 1 \in 1 .. Len(u) /\ Low(u[i + 1])
         /\ Low(u[i]) => i - 1 \in 1 .. Len(u) /\ High(u[i - 1])
<1>1. i \in DOMAIN u
  BY SMT
<1>2. /\ High(u[i]) => i # Len(u) /\ Low(u[i + 1])
      /\ Low(u[i]) => i # 1 /\ High(u[i - 1])
  BY <1>1, Zenon DEF Unpaired
<1>3. /\ i # Len(u) => i + 1 \in 1 .. Len(u)
      /\ i # 1 => i - 1 \in 1 .. Len(u)
  BY SMT
<1> QED
  BY <1>2, <1>3, Zenon

\* Each unit is written in as many bytes as it counts, a pair where it ends.
LEMMA BytesAtType ==
  ASSUME NEW u \in Seq(Units), ~ Unpaired(u), NEW i \in 1 .. Len(u)
  PROVE  /\ BytesAt(u, i) \in Seq(Nat)
         /\ High(u[i]) => Len(BytesAt(u, i)) = 0
         /\ Low(u[i]) => Len(BytesAt(u, i)) = 4
         /\ ~ High(u[i]) /\ ~ Low(u[i]) => Len(BytesAt(u, i)) = UnitBytes(u[i])
<1>1. \A j \in 1 .. Len(u) : u[j] \in Units
  BY SMT
<1>2. PICK x \in Units : x = u[i]
  BY <1>1
<1>3. CASE High(x)
  <2>1. BytesAt(u, i) = <<>> /\ ~ Low(x)
    BY <1>2, <1>3, UnitType, SMT DEF BytesAt
  <2> QED
    BY <1>2, <1>3, <2>1, SMT
<1>4. CASE Low(x)
  <2>1. i - 1 \in 1 .. Len(u) /\ High(u[i - 1])
    BY <1>2, <1>4, Partners, Zenon
  <2>2. PICK h \in Units : h = u[i - 1] /\ High(h)
    BY <1>1, <2>1, Zenon
  <2>3. ~ High(x)
    BY <1>4, UnitType, Zenon
  <2>4. PICK b : b = ToUtf8(65536 + (h - 55296) * 1024 + (x - 56320))
    OBVIOUS
  <2>5. BytesAt(u, i) = b
    BY <1>2, <1>4, <2>2, <2>3, <2>4, SMT DEF BytesAt
  <2>6. b \in Seq(Nat) /\ Len(b) = 4
    BY <1>4, <2>2, <2>4, PairType, SMT
  <2> QED
    BY <1>2, <1>4, <2>3, <2>5, <2>6, Zenon
<1>5. CASE ~ High(x) /\ ~ Low(x)
  <2>1. BytesAt(u, i) = ToUtf8(x)
    BY <1>2, <1>5, SMT DEF BytesAt
  <2>2. ToUtf8(x) \in Seq(Nat) /\ Len(ToUtf8(x)) = UnitBytes(x)
    BY <1>5, UnitType, Zenon
  <2> QED
    BY <1>2, <1>5, <2>1, <2>2, Zenon
<1> QED
  BY <1>3, <1>4, <1>5, Zenon

\* ... and the encoding joins them.
LEMMA EncodingUnfolds ==
  ASSUME NEW u \in Seq(Units), ~ Unpaired(u)
  PROVE  \E f : /\ f[0] = <<>> /\ \A i \in 1 .. Len(u) : f[i] = f[i - 1] \o BytesAt(u, i)
                /\ \A i \in 0 .. Len(u) : f[i] \in Seq(Nat)
                /\ Utf8OfUtf16(u) = f[Len(u)]
<1>1. PICK n \in Nat : n = Len(u)
  BY SMT
<1>2. PICK more : more = [i \in 1 .. n |-> BytesAt(u, i)]
  OBVIOUS
<1>3. \A i \in 1 .. n : more[i] = BytesAt(u, i) /\ more[i] \in Seq(Nat)
  BY <1>1, <1>2, BytesAtType, Zenon
<1> DEFINE F(f) == [i \in 0 .. n |-> IF i = 0 THEN <<>> ELSE f[i - 1] \o BytesAt(u, i)]
<1>4. ASSUME NEW f
      PROVE  JoinOf(f, more, n) <=> f = F(f)
  <2>1. \A i \in 0 .. n : i # 0 => i \in 1 .. n
    BY SMT
  <2>2. F(f) = [i \in 0 .. n |-> IF i = 0 THEN <<>> ELSE f[i - 1] \o more[i]]
    BY <1>3, <2>1, Zenon
  <2> HIDE DEF F
  <2> QED
    BY <2>2, Zenon DEF JoinOf
<1>5. PICK g : g = CHOOSE f : f = F(f)
  OBVIOUS
<1>6. \E f : f = F(f)
  <2>1. PICK f : JoinOf(f, more, n)
    BY JoinExists
  <2> HIDE DEF F
  <2> QED
    BY <1>4, <2>1, Zenon
<1>7. JoinOf(g, more, n)
  <2> HIDE DEF F
  <2>1. g = F(g)
    BY <1>5, <1>6, Zenon
  <2> QED
    BY <1>4, <2>1, Zenon
<1>8. /\ g[0] = <<>> /\ \A i \in 1 .. n : g[i] = g[i - 1] \o more[i]
      /\ \A i \in 0 .. n : g[i] \in Seq(Nat)
  BY <1>3, <1>7, JoinType
<1>9. Utf8OfUtf16(u) = g[n]
  BY <1>1, <1>5, Zenon DEF Utf8OfUtf16
<1> QED
  BY <1>1, <1>3, <1>8, <1>9, Zenon

\* The phone counts, by code units, the bytes of the encoding.
LEMMA CountsBytes ==
  ASSUME NEW u \in Seq(Units), ~ Unpaired(u)
  PROVE  Utf8OfUtf16(u) \in Seq(Nat) /\ Len(Utf8OfUtf16(u)) = Utf8ByteLength(u)
<1>1. PICK n \in Nat : n = Len(u)
  BY SMT
<1>2. PICK f : /\ f[0] = 0 /\ \A i \in 1 .. n : f[i] = f[i - 1] + UnitBytes(u[i])
               /\ \A i \in 0 .. n : f[i] \in Nat
               /\ Utf8ByteLength(u) = f[n]
  BY <1>1, LengthUnfolds
<1>3. PICK g : /\ g[0] = <<>> /\ \A i \in 1 .. n : g[i] = g[i - 1] \o BytesAt(u, i)
               /\ \A i \in 0 .. n : g[i] \in Seq(Nat)
               /\ Utf8OfUtf16(u) = g[n]
  BY <1>1, EncodingUnfolds
\* Between the halves of a pair the encoding lags by what the first counts.
<1> DEFINE Agree(i) ==
      IF i > 0 /\ High(u[i]) THEN Len(g[i]) + 2 = f[i] ELSE Len(g[i]) = f[i]
<1>4. ASSUME NEW i \in 1 .. n, Agree(i - 1)
      PROVE  Agree(i)
  <2>1. PICK x \in Units : x = u[i]
    BY <1>1, SMT
  <2>2. i - 1 \in 0 .. n /\ i \in 0 .. n /\ i > 0 /\ (i - 1 > 0 => i - 1 \in 1 .. n)
    BY SMT
  <2>3. PICK a, b \in Nat : a = f[i - 1] /\ b = Len(g[i - 1])
    BY <1>2, <1>3, <2>2, SMT
  <2>4. f[i] = a + UnitBytes(x)
    BY <1>2, <2>1, <2>3, Zenon
  <2>5. BytesAt(u, i) \in Seq(Nat) /\ g[i - 1] \in Seq(Nat)
    BY <1>1, <1>3, <2>2, BytesAtType
  <2>6. Len(g[i]) = b + Len(BytesAt(u, i))
    <3>1. PICK p, q \in Seq(Nat) : p = g[i - 1] /\ q = BytesAt(u, i)
      BY <2>5
    <3>2. g[i] = p \o q
      BY <1>3, <3>1, Zenon
    <3>3. Len(p \o q) = Len(p) + Len(q)
      BY SMT
    <3> QED
      BY <2>3, <3>1, <3>2, <3>3, Zenon
  <2>7. /\ High(x) => Len(BytesAt(u, i)) = 0
        /\ Low(x) => Len(BytesAt(u, i)) = 4
        /\ ~ High(x) /\ ~ Low(x) => Len(BytesAt(u, i)) = UnitBytes(x)
    BY <1>1, <2>1, BytesAtType, Zenon
  <2>8. i - 1 > 0 /\ High(u[i - 1]) => Low(x)
    <3>1. i - 1 > 0 => (i - 1) + 1 = i
      BY SMT
    <3> QED
      BY <1>1, <2>1, <2>2, <3>1, Partners, Zenon
  <2>9. Low(x) => i - 1 > 0 /\ High(u[i - 1])
    <3>1. Low(x) => i - 1 \in 1 .. n /\ High(u[i - 1])
      BY <1>1, <2>1, Partners, Zenon
    <3> QED
      BY <3>1, SMT
  <2>10. /\ i - 1 > 0 /\ High(u[i - 1]) => b + 2 = a
         /\ ~ (i - 1 > 0 /\ High(u[i - 1])) => b = a
    BY <1>4, <2>3
  <2>11. /\ UnitBytes(x) \in Nat /\ (High(x) \/ Low(x) => UnitBytes(x) = 2)
         /\ ~ (High(x) /\ Low(x))
    BY UnitType, SMT
  <2>12. CASE High(x)
    <3>1. b = a /\ f[i] = a + 2 /\ Len(g[i]) = b + 0
      BY <2>4, <2>6, <2>7, <2>8, <2>10, <2>11, <2>12, Zenon
    <3>2. Len(g[i]) + 2 = f[i]
      BY <3>1, SMT
    <3> QED
      BY <2>1, <2>2, <2>12, <3>2, Zenon
  <2>13. CASE Low(x)
    <3>1. b + 2 = a /\ f[i] = a + 2 /\ Len(g[i]) = b + 4 /\ ~ High(x)
      BY <2>4, <2>6, <2>7, <2>9, <2>10, <2>11, <2>13, Zenon
    <3>2. Len(g[i]) = f[i]
      BY <3>1, SMT
    <3> QED
      BY <2>1, <3>1, <3>2, Zenon
  <2>14. CASE ~ High(x) /\ ~ Low(x)
    <3>1. b = a /\ f[i] = a + UnitBytes(x) /\ Len(g[i]) = b + UnitBytes(x)
      BY <2>4, <2>6, <2>7, <2>8, <2>10, <2>14, Zenon
    <3> QED
      BY <2>1, <2>14, <3>1, Zenon
  <2> QED
    BY <2>12, <2>13, <2>14, Zenon
<1>5. Agree(n)
  <2> DEFINE T == {i \in 0 .. n : ~ Agree(i)}
  <2> HIDE DEF Agree
  <2>1. SUFFICES ASSUME T # {} PROVE FALSE
    BY SMT
  <2>2. T \in SUBSET Nat
    BY SMT
  <2>3. PICK i \in T : \A m \in T : i <= m
    <3> HIDE DEF T
    <3> QED
      BY <2>1, <2>2, LeastNumber
  <2>4. i \in 0 .. n /\ ~ Agree(i)
    OBVIOUS
  <2>5. i # 0
    <3>1. Agree(0)
      BY <1>2, <1>3, SMT DEF Agree
    <3> QED
      BY <2>4, <3>1, Zenon
  <2>6. i \in 1 .. n /\ i - 1 \in 0 .. n /\ ~ (i <= i - 1)
    BY <2>4, <2>5, SMT
  <2>7. Agree(i - 1)
    BY <2>3, <2>6, Zenon
  <2> QED
    BY <1>4, <2>4, <2>6, <2>7, Zenon
<1>6. Len(g[n]) = f[n]
  <2>1. ~ (n > 0 /\ High(u[n]))
    <3>1. n > 0 => n \in 1 .. n /\ n + 1 \notin 1 .. n
      BY SMT
    <3> QED
      BY <1>1, <3>1, Partners, Zenon
  <2> QED
    BY <1>5, <2>1, Zenon
<1> QED
  BY <1>2, <1>3, <1>6, SMT

-----------------------------------------------------------------------------
(* Characters of a string of code units.                                   *)

\* What text.substring takes at i: NextCharacter.
CharAt(u, i) == IF High(u[i]) THEN SubSeq(u, i, i + 1) ELSE <<u[i]>>

\* Texts of one unit and of two.
LEMMA Single ==
  ASSUME NEW S, NEW a \in S
  PROVE  /\ <<a>> \in Seq(S) /\ Len(<<a>>) = 1 /\ <<a>>[1] = a
         /\ DOMAIN <<a>> = {1} /\ <<a>> # <<>>
<1>1. <<a>> \in Seq(S) /\ Len(<<a>>) = 1 /\ <<a>>[1] = a /\ <<a>> # <<>>
  BY SMT
<1>2. DOMAIN <<a>> = 1 .. 1 /\ 1 .. 1 = {1}
  BY SMT
<1> QED
  BY <1>1, <1>2, Zenon

LEMMA Pair ==
  ASSUME NEW S, NEW a \in S, NEW b \in S
  PROVE  /\ <<a, b>> \in Seq(S) /\ Len(<<a, b>>) = 2
         /\ <<a, b>>[1] = a /\ <<a, b>>[2] = b
         /\ DOMAIN <<a, b>> = {1, 2} /\ <<a, b>> # <<>>
<1>1. <<a, b>> \in Seq(S) /\ Len(<<a, b>>) = 2 /\ <<a, b>> # <<>>
  BY SMT
<1>2. <<a, b>>[1] = a /\ <<a, b>>[2] = b
  BY SMT
<1>3. DOMAIN <<a, b>> = 1 .. 2 /\ 1 .. 2 = {1, 2}
  BY SMT
<1> QED
  BY <1>1, <1>2, <1>3, Zenon

LEMMA SubPair ==
  ASSUME NEW S, NEW u \in Seq(S), NEW i \in 1 .. Len(u), i + 1 \in 1 .. Len(u)
  PROVE  SubSeq(u, i, i + 1) = <<u[i], u[i + 1]>>
<1>1. u[i] \in S /\ u[i + 1] \in S
  BY SMT
<1>2. PICK p, q : p = SubSeq(u, i, i + 1) /\ q = <<u[i], u[i + 1]>>
  OBVIOUS
<1>3. q \in Seq(S) /\ Len(q) = 2 /\ q[1] = u[i] /\ q[2] = u[i + 1]
  BY <1>1, <1>2, Pair, Zenon
<1>4. p \in Seq(S) /\ Len(p) = 2
  BY <1>2, SMT
<1>5. p[1] = u[i] /\ p[2] = u[i + 1]
  <2>1. 1 \in 1 .. (i + 1) - i + 1 /\ 2 \in 1 .. (i + 1) - i + 1
    BY SMT
  <2> QED
    BY <1>2, <2>1, SMT
<1>6. \A k \in 1 .. Len(p) : p[k] = q[k]
  BY <1>3, <1>4, <1>5, SMT
<1>7. p = q
  BY <1>3, <1>4, <1>6, SeqEqual
<1> QED
  BY <1>2, <1>7

LEMMA OneUnit ==
  ASSUME NEW a \in Units, ~ High(a), ~ Low(a)
  PROVE  ~ Unpaired(<<a>>) /\ Utf8ByteLength(<<a>>) \in 1 .. 4
<1>1. PICK u \in Seq(Units) : u = <<a>> /\ Len(u) = 1 /\ u[1] = a /\ DOMAIN u = {1}
  BY Single, Zenon
<1>2. ~ Unpaired(u)
  BY <1>1, Zenon DEF Unpaired
<1>3. Utf8ByteLength(u) = UnitBytes(a)
  <2>1. PICK f : /\ f[0] = 0 /\ \A i \in 1 .. Len(u) : f[i] = f[i - 1] + UnitBytes(u[i])
                 /\ Utf8ByteLength(u) = f[Len(u)]
    BY LengthUnfolds
  <2>2. f[1] = f[1 - 1] + UnitBytes(u[1])
    BY <1>1, <2>1, SMT
  <2>3. UnitBytes(a) \in Nat
    BY UnitType, SMT
  <2> QED
    BY <1>1, <2>1, <2>2, <2>3, SMT
<1> QED
  BY <1>1, <1>2, <1>3, UnitType, SMT

LEMMA TwoUnits ==
  ASSUME NEW a \in Units, NEW b \in Units, High(a), Low(b)
  PROVE  ~ Unpaired(<<a, b>>) /\ Utf8ByteLength(<<a, b>>) \in 1 .. 4
<1>1. PICK u \in Seq(Units) :
        u = <<a, b>> /\ Len(u) = 2 /\ u[1] = a /\ u[2] = b /\ DOMAIN u = {1, 2}
  <2>1. /\ <<a, b>> \in Seq(Units) /\ Len(<<a, b>>) = 2
        /\ <<a, b>>[1] = a /\ <<a, b>>[2] = b /\ DOMAIN <<a, b>> = {1, 2}
    BY Pair
  <2>2. PICK u : u = <<a, b>>
    OBVIOUS
  <2> QED
    BY <2>1, <2>2, Zenon
<1>2. ~ High(b) /\ ~ Low(a)
  BY UnitType, Zenon
<1>3. ~ Unpaired(u)
  <2>1. u[1 + 1] = b /\ u[2 - 1] = a /\ 1 # Len(u) /\ 2 # 1
    BY <1>1, SMT
  <2> QED
    BY <1>1, <1>2, <2>1, Zenon DEF Unpaired
<1>4. Utf8ByteLength(u) = UnitBytes(a) + UnitBytes(b)
  <2>1. PICK f : /\ f[0] = 0 /\ \A i \in 1 .. Len(u) : f[i] = f[i - 1] + UnitBytes(u[i])
                 /\ Utf8ByteLength(u) = f[Len(u)]
    BY LengthUnfolds
  <2>2. f[1] = f[1 - 1] + UnitBytes(u[1]) /\ f[2] = f[2 - 1] + UnitBytes(u[2])
    BY <1>1, <2>1, SMT
  <2>3. UnitBytes(a) \in Nat
    BY UnitType, SMT
  <2> QED
    BY <1>1, <2>1, <2>2, <2>3, SMT
<1>5. UnitBytes(a) = 2 /\ UnitBytes(b) = 2
  BY UnitType, Zenon
<1> QED
  BY <1>1, <1>3, <1>4, <1>5, SMT

\* At a unit that is no second half of a pair starts a character; where it
\* ends is the next, or the end.
LEMMA CharacterAt ==
  ASSUME NEW u \in Seq(Units), ~ Unpaired(u), NEW i \in 1 .. Len(u), ~ Low(u[i])
  PROVE  LET c == CharAt(u, i)
         IN  /\ c \in Seq(Units) /\ c # <<>> /\ ~ Unpaired(c) /\ Utf8ByteLength(c) \in 1 .. 4
             /\ CharAt(c, 1) = c
             /\ i + Len(c) \in 1 .. Len(u) + 1
             /\ i + Len(c) > 1
             /\ i + Len(c) <= Len(u) => ~ Low(u[i + Len(c)])
<1>1. \A j \in 1 .. Len(u) : u[j] \in Units
  BY SMT
<1>2. PICK x \in Units : x = u[i] /\ ~ Low(x)
  BY <1>1
<1>3. CASE High(x)
  <2>1. i + 1 \in 1 .. Len(u) /\ Low(u[i + 1])
    BY <1>2, <1>3, Partners, Zenon
  <2>2. PICK y \in Units : y = u[i + 1] /\ Low(y)
    BY <1>1, <2>1
  <2>3. PICK c \in Seq(Units) :
            c = <<x, y>> /\ Len(c) = 2 /\ c[1] = x /\ c[2] = y /\ c # <<>>
    BY Pair, Zenon
  <2>4. SubSeq(u, i, i + 1) = <<x, y>>
    BY <1>2, <2>1, <2>2, SubPair, Zenon
  <2>5. CharAt(u, i) = c
    BY <1>2, <1>3, <2>3, <2>4, Zenon DEF CharAt
  <2>6. ~ Unpaired(c) /\ Utf8ByteLength(c) \in 1 .. 4
    BY <1>3, <2>2, <2>3, TwoUnits, Zenon
  <2>7. CharAt(c, 1) = c
    <3>1. 1 \in 1 .. Len(c) /\ 1 + 1 \in 1 .. Len(c) /\ 1 + 1 = 2
      BY <2>3, SMT
    <3>2. SubSeq(c, 1, 1 + 1) = c
      BY <2>3, <3>1, SubPair, Zenon
    <3> QED
      BY <1>3, <2>3, <3>2, Zenon DEF CharAt
  <2>8. i + Len(c) \in 1 .. Len(u) + 1 /\ i + Len(c) > 1
    BY <2>1, <2>3, SMT
  <2>9. i + Len(c) <= Len(u) => ~ Low(u[i + Len(c)])
    <3> SUFFICES ASSUME i + Len(c) <= Len(u), Low(u[i + Len(c)]) PROVE FALSE
      OBVIOUS
    <3>1. i + Len(c) \in 1 .. Len(u) /\ (i + Len(c)) - 1 = i + 1
      BY <2>1, <2>3, <2>8, SMT
    <3>2. High(u[i + 1])
      BY <3>1, Partners, Zenon
    <3> QED
      BY <2>2, <3>2, UnitType, Zenon
  <2> QED
    BY <2>3, <2>5, <2>6, <2>7, <2>8, <2>9, Zenon
<1>4. CASE ~ High(x)
  <2>1. PICK c \in Seq(Units) : c = <<x>> /\ Len(c) = 1 /\ c[1] = x /\ c # <<>>
    BY Single, Zenon
  <2>2. CharAt(u, i) = c
    BY <1>2, <1>4, <2>1, Zenon DEF CharAt
  <2>3. ~ Unpaired(c) /\ Utf8ByteLength(c) \in 1 .. 4
    BY <1>2, <1>4, <2>1, OneUnit, Zenon
  <2>4. CharAt(c, 1) = c
    BY <1>4, <2>1, Zenon DEF CharAt
  <2>5. i + Len(c) \in 1 .. Len(u) + 1 /\ i + Len(c) > 1
    BY <2>1, SMT
  <2>6. i + Len(c) <= Len(u) => ~ Low(u[i + Len(c)])
    <3> SUFFICES ASSUME i + Len(c) <= Len(u), Low(u[i + Len(c)]) PROVE FALSE
      OBVIOUS
    <3>1. i + Len(c) \in 1 .. Len(u) /\ (i + Len(c)) - 1 = i
      BY <2>1, <2>5, SMT
    <3>2. High(u[i])
      BY <3>1, Partners, Zenon
    <3> QED
      BY <1>2, <1>4, <3>2, Zenon
  <2> QED
    BY <2>1, <2>2, <2>3, <2>4, <2>5, <2>6, Zenon
<1> QED
  BY <1>3, <1>4

\* Two strings without lone halves make one without.
LEMMA PairedJoined ==
  ASSUME NEW c \in Seq(Units), NEW d \in Seq(Units), ~ Unpaired(c), ~ Unpaired(d)
  PROVE  c \o d \in Seq(Units) /\ ~ Unpaired(c \o d)
<1>1. PICK e \in Seq(Units) : e = c \o d
  <2>1. c \o d \in Seq(Units)
    BY SMT
  <2> QED
    BY <2>1, Zenon
<1>2. PICK m, n \in Nat : m = Len(c) /\ n = Len(d)
  BY SMT
<1>3. /\ Len(e) = m + n
      /\ \A i \in 1 .. m : e[i] = c[i]
      /\ \A i \in 1 .. n : e[m + i] = d[i]
  BY <1>1, <1>2, SMT
<1>4. ASSUME NEW i \in 1 .. m + n
      PROVE  /\ High(e[i]) => i # Len(e) /\ Low(e[i + 1])
             /\ Low(e[i]) => i # 1 /\ High(e[i - 1])
  <2>1. CASE i \in 1 .. m
    <3>1. /\ High(c[i]) => i + 1 \in 1 .. m /\ Low(c[i + 1])
          /\ Low(c[i]) => i - 1 \in 1 .. m /\ High(c[i - 1])
      BY <1>2, <2>1, Partners, Zenon
    <3>2. (i + 1 \in 1 .. m => i # m + n) /\ (i - 1 \in 1 .. m => i # 1)
      BY <2>1, SMT
    <3> QED
      BY <1>3, <2>1, <3>1, <3>2, Zenon
  <2>2. CASE i \notin 1 .. m
    <3>1. PICK j \in 1 .. n : i = m + j
      <4>1. i - m \in 1 .. n /\ i = m + (i - m)
        BY <2>2, SMT
      <4> QED
        BY <4>1, Zenon
    <3>2. /\ High(d[j]) => j + 1 \in 1 .. n /\ Low(d[j + 1])
          /\ Low(d[j]) => j - 1 \in 1 .. n /\ High(d[j - 1])
      BY <1>2, Partners, Zenon
    <3>3. /\ j + 1 \in 1 .. n => i # m + n /\ i + 1 = m + (j + 1)
          /\ j - 1 \in 1 .. n => i # 1 /\ i - 1 = m + (j - 1)
      BY <3>1, SMT
    <3> QED
      BY <1>3, <3>1, <3>2, <3>3, Zenon
  <2> QED
    BY <2>1, <2>2
<1>5. DOMAIN e = 1 .. m + n
  BY <1>3, SMT
<1>6. ~ Unpaired(e)
  BY <1>4, <1>5, Zenon DEF Unpaired
<1> QED
  BY <1>1, <1>6

\* More units do not change the first character.
LEMMA FirstCharacter ==
  ASSUME NEW c \in Seq(Units), NEW d \in Seq(Units), ~ Unpaired(c), c # <<>>
  PROVE  CharAt(c \o d, 1) = CharAt(c, 1)
<1>1. PICK e \in Seq(Units) : e = c \o d
  <2>1. c \o d \in Seq(Units)
    BY SMT
  <2> QED
    BY <2>1, Zenon
<1>2. PICK m, n \in Nat : m = Len(c) /\ n = Len(d) /\ m > 0
  BY SMT
<1>3. Len(e) = m + n /\ \A i \in 1 .. m : e[i] = c[i]
  BY <1>1, <1>2, SMT
<1>4. 1 \in 1 .. m /\ e[1] = c[1]
  BY <1>2, <1>3, SMT
<1>5. CASE High(c[1])
  <2>1. 1 + 1 \in 1 .. m
    BY <1>2, <1>4, <1>5, Partners, Zenon
  <2>2. SubSeq(e, 1, 1 + 1) = <<e[1], e[2]>> /\ SubSeq(c, 1, 1 + 1) = <<c[1], c[2]>>
    <3>1. /\ 1 \in 1 .. Len(e) /\ 1 + 1 \in 1 .. Len(e) /\ 1 + 1 = 2
          /\ 1 \in 1 .. Len(c) /\ 1 + 1 \in 1 .. Len(c)
      BY <1>2, <1>3, <2>1, SMT
    <3> QED
      BY <3>1, SubPair, Zenon
  <2>3. e[2] = c[2]
    BY <1>3, <2>1, SMT
  <2> QED
    BY <1>1, <1>4, <1>5, <2>2, <2>3, Zenon DEF CharAt
<1>6. CASE ~ High(c[1])
  BY <1>1, <1>4, <1>6, Zenon DEF CharAt
<1> QED
  BY <1>5, <1>6

-----------------------------------------------------------------------------
(* The inductive invariant.                                                *)

Divisions == Seq(Seq(Units))

PhoneStates ==
  [state : {"awaiting_result", "splitting", "forwarding_result", "complete",
            "protocol_error"},
   at : Nat, chunks : Divisions, next : Nat]

Typed ==
  /\ response \in Responses /\ response \in Seq(Units)
  /\ phone \in PhoneStates
  /\ phone.next \in 1 .. Len(phone.chunks) + 1

\* The phone's state tells what it found of the response.
Judged ==
  /\ phone.state = "protocol_error" => ~ Acceptable(response)
  /\ phone.state \in {"splitting", "forwarding_result", "complete"} =>
       Acceptable(response)
  /\ phone.state = "awaiting_result" => phone.at = 1
  /\ phone.state \in {"awaiting_result", "splitting"} => phone.next = 1

\* What splitUtf8 has read are whole characters.
AtCharacter ==
  /\ phone.at \in 1 .. Len(response) + 1
  /\ phone.state = "splitting" /\ phone.at <= Len(response) => ~ Low(response[phone.at])
  /\ phone.state \in {"forwarding_result", "complete"} => phone.at > Len(response)

\* A chunk of whole characters within the limit.
GoodChunk(c) == ~ Unpaired(c) /\ Utf8ByteLength(c) <= ResponseChunkBytes

\* The first character of d did not fit c any more.
FullBefore(c, d) ==
  d # <<>> /\ ~ Low(d[1]) /\ Utf8ByteLength(c \o CharAt(d, 1)) > ResponseChunkBytes

Divided(chunks, at) ==
  /\ Len(chunks) >= 1
  /\ \A i \in 1 .. Len(chunks) :
       /\ GoodChunk(chunks[i])
       /\ chunks[i] = <<>> => Len(chunks) = 1 /\ at = 1
       /\ i < Len(chunks) => FullBefore(chunks[i], chunks[i + 1])

WatchSound ==
  /\ DOMAIN watch = {"state", "count", "total", "next", "buffer"}
  /\ watch.state \in {"AWAITING_RESULT", "RECEIVING_RESULT", "COMPLETE", "FAILED"}
  /\ watch.buffer \in Seq(Nat)
  /\ Len(watch.buffer) <= watch.total /\ watch.total <= MaxResponseBytes

OnLink == link = <<>> \/ \E m : link = <<m>> /\ m.text \in Seq(Nat)

IInv ==
  /\ Typed /\ Judged /\ AtCharacter /\ Divided(phone.chunks, phone.at)
  /\ WatchSound /\ OnLink

\* A character that opens a chunk did not fit the one before; one that joins a
\* chunk leaves the first character of that chunk alone.
LEMMA SplitStep ==
  ASSUME NEW chunks \in Seq(Seq(Units)), NEW at, Divided(chunks, at),
         NEW c \in Seq(Units), c # <<>>, ~ Unpaired(c), ~ Low(c[1]), CharAt(c, 1) = c,
         Utf8ByteLength(c) <= ResponseChunkBytes,
         NEW after, after # 1
  PROVE  LET last == Len(chunks)
             chunk == chunks[last]
         IN  /\ chunk # <<>> /\ Utf8ByteLength(chunk \o c) > ResponseChunkBytes =>
                  /\ Append(chunks, c) \in Seq(Seq(Units))
                  /\ Divided(Append(chunks, c), after)
             /\ ~ (chunk # <<>> /\ Utf8ByteLength(chunk \o c) > ResponseChunkBytes) =>
                  /\ [chunks EXCEPT ![last] = chunk \o c] \in Seq(Seq(Units))
                  /\ Divided([chunks EXCEPT ![last] = chunk \o c], after)
<1>1. PICK last \in Nat : last = Len(chunks) /\ last >= 1 /\ last \in 1 .. last
  BY SMT DEF Divided
<1>2. PICK chunk \in Seq(Units) : chunk = chunks[last]
  BY <1>1, SMT
<1>3. \A i \in 1 .. last : chunks[i] \in Seq(Units)
  BY <1>1, SMT
<1>4. \A i \in 1 .. last :
        /\ GoodChunk(chunks[i])
        /\ chunks[i] = <<>> => last = 1
        /\ i < last => FullBefore(chunks[i], chunks[i + 1])
  BY <1>1, Zenon DEF Divided
<1>5. chunk \o c \in Seq(Units) /\ ~ Unpaired(chunk \o c) /\ chunk \o c # <<>>
  <2>1. ~ Unpaired(chunk)
    BY <1>1, <1>2, <1>4, Zenon DEF GoodChunk
  <2>2. chunk \o c \in Seq(Units) /\ ~ Unpaired(chunk \o c)
    BY <2>1, PairedJoined
  <2>3. Len(chunk \o c) # 0
    BY SMT
  <2>4. chunk \o c # <<>>
    BY <2>2, <2>3, SMT
  <2> QED
    BY <2>2, <2>4
<1>6. ASSUME chunk # <<>>, Utf8ByteLength(chunk \o c) > ResponseChunkBytes
      PROVE  /\ Append(chunks, c) \in Seq(Seq(Units))
             /\ Divided(Append(chunks, c), after)
  <2>1. PICK new : new = Append(chunks, c)
    OBVIOUS
  <2>2. /\ new \in Seq(Seq(Units)) /\ Len(new) = last + 1
        /\ \A i \in 1 .. last : new[i] = chunks[i]
        /\ new[last + 1] = c
    BY <1>1, <2>1, SMT
  <2>3. ASSUME NEW i \in 1 .. last + 1
        PROVE  /\ GoodChunk(new[i]) /\ new[i] # <<>>
               /\ i < last + 1 => FullBefore(new[i], new[i + 1])
    <3>1. i \in 1 .. last \/ i = last + 1
      BY SMT
    <3>2. CASE i = last + 1
      <4>1. ~ (i < last + 1)
        BY <3>2, SMT
      <4> QED
        BY <2>2, <3>2, <4>1, Zenon DEF GoodChunk
    <3>3. CASE i = last
      <4>1. FullBefore(chunk, c)
        BY <1>6, Zenon DEF FullBefore
      <4> QED
        BY <1>1, <1>2, <1>4, <1>6, <2>2, <3>3, <4>1, Zenon
    <3>4. CASE i \in 1 .. last /\ i # last
      <4>1. i < last /\ i + 1 \in 1 .. last /\ last # 1
        BY <3>4, SMT
      <4> QED
        BY <1>4, <2>2, <3>4, <4>1, Zenon
    <3> QED
      BY <3>1, <3>2, <3>3, <3>4
  <2>4. Len(new) >= 1
    BY <2>2, SMT
  <2>5. Divided(new, after)
    BY <2>2, <2>3, <2>4, Zenon DEF Divided
  <2> QED
    BY <2>1, <2>2, <2>5
<1>7. ASSUME ~ (chunk # <<>> /\ Utf8ByteLength(chunk \o c) > ResponseChunkBytes)
      PROVE  /\ [chunks EXCEPT ![last] = chunk \o c] \in Seq(Seq(Units))
             /\ Divided([chunks EXCEPT ![last] = chunk \o c], after)
  <2>1. PICK joined \in Seq(Units) : joined = chunk \o c
    BY <1>5
  <2>2. PICK new : new = [chunks EXCEPT ![last] = joined]
    OBVIOUS
  <2>3. /\ new \in Seq(Seq(Units)) /\ Len(new) = last
        /\ \A i \in 1 .. last : i # last => new[i] = chunks[i]
        /\ new[last] = joined
    BY <1>1, <2>2, SMT
  <2>4. GoodChunk(joined)
    <3>1. CASE chunk = <<>>
      <4>1. <<>> \o c = c
        BY SMT
      <4> QED
        BY <2>1, <3>1, <4>1, Zenon DEF GoodChunk
    <3>2. CASE ~ (Utf8ByteLength(joined) > ResponseChunkBytes)
      <4>1. Utf8ByteLength(joined) \in Nat
        BY LengthType
      <4>2. Utf8ByteLength(joined) <= ResponseChunkBytes
        BY <3>2, <4>1, LimitAssumption, SMT
      <4> QED
        BY <1>5, <2>1, <4>2, Zenon DEF GoodChunk
    <3> QED
      BY <1>7, <2>1, <3>1, <3>2, Zenon
  <2>5. ASSUME NEW i \in 1 .. last, i < last, FullBefore(chunks[i], chunk), chunk # <<>>
        PROVE  FullBefore(chunks[i], joined)
    <3>1. CharAt(joined, 1) = CharAt(chunk, 1)
      <4>1. ~ Unpaired(chunk)
        BY <1>1, <1>2, <1>4, Zenon DEF GoodChunk
      <4> QED
        BY <2>1, <2>5, <4>1, FirstCharacter
    <3>2. joined[1] = chunk[1]
      BY <2>1, <2>5, SMT
    <3> QED
      BY <1>5, <2>1, <2>5, <3>1, <3>2, Zenon DEF FullBefore
  <2>6. ASSUME NEW i \in 1 .. last
        PROVE  /\ GoodChunk(new[i]) /\ new[i] # <<>>
               /\ i < last => FullBefore(new[i], new[i + 1])
    <3>1. CASE i = last
      <4>1. ~ (i < last)
        BY <3>1, SMT
      <4> QED
        BY <1>5, <2>1, <2>3, <2>4, <3>1, <4>1, Zenon
    <3>2. CASE i # last
      <4>1. i < last /\ i + 1 \in 1 .. last /\ last # 1
        BY <3>2, SMT
      <4>2. GoodChunk(new[i]) /\ new[i] # <<>> /\ FullBefore(new[i], chunks[i + 1])
        BY <1>4, <2>3, <3>2, <4>1, Zenon
      <4>3. chunk # <<>>
        BY <1>1, <1>2, <1>4, <4>1, Zenon
      <4>4. CASE i + 1 = last
        BY <1>2, <2>3, <2>5, <3>2, <4>1, <4>2, <4>3, <4>4, Zenon
      <4>5. CASE i + 1 # last
        BY <2>3, <4>1, <4>2, <4>5, Zenon
      <4> QED
        BY <4>2, <4>4, <4>5, Zenon
    <3> QED
      BY <3>1, <3>2
  <2>7. Len(new) >= 1
    BY <1>1, <2>3, SMT
  <2>8. Divided(new, after)
    BY <2>3, <2>6, <2>7, Zenon DEF Divided
  <2> QED
    BY <2>1, <2>2, <2>3, <2>8
<1> QED
  BY <1>1, <1>2, <1>6, <1>7, Zenon

LEMMA ResponseType ==
  ASSUME response \in Responses
  PROVE  response \in Seq(Units)
BY ResponseAssumption, SMT DEF Units

LEMMA InitIInv ==
  ASSUME Init
  PROVE  IInv
<1> USE DEF Init
<1>1. response \in Responses /\ response \in Seq(Units)
  BY ResponseType
<1>2. PICK e \in Seq(Units) : e = <<>> /\ Len(e) = 0
  <2>1. <<>> \in Seq(Units) /\ Len(<<>>) = 0
    BY SMT
  <2> QED
    BY <2>1, Zenon
<1>3. PICK chunks \in Seq(Seq(Units)) : chunks = <<e>> /\ Len(chunks) = 1 /\ chunks[1] = e
  BY Single, Zenon
<1>4. phone = [state |-> "awaiting_result", at |-> 1, chunks |-> chunks, next |-> 1]
  BY <1>2, <1>3, Zenon
<1>5. Typed
  <2>0. chunks \in Divisions
    BY DEF Divisions
  <2>1. phone \in PhoneStates
    BY <2>0, <1>4, SMT DEF PhoneStates
  <2>2. phone.next = 1 /\ phone.chunks = chunks
    BY <1>4, SMT
  <2>3. phone.next \in 1 .. Len(phone.chunks) + 1
    BY <1>3, <2>2, SMT
  <2> QED
    BY <1>1, <2>1, <2>3 DEF Typed
<1>6. Judged
  BY <1>4, SMT DEF Judged
<1>7. AtCharacter
  BY <1>1, <1>4, SMT DEF AtCharacter
<1>8. Divided(phone.chunks, phone.at)
  <2>1. phone.chunks = chunks /\ phone.at = 1
    BY <1>4, SMT
  <2>2. Utf8ByteLength(e) = 0
    <3>1. PICK f : f[0] = 0 /\ Utf8ByteLength(e) = f[Len(e)]
      BY LengthUnfolds
    <3> QED
      BY <1>2, <3>1, Zenon
  <2>3. ~ Unpaired(e)
    <3>1. DOMAIN e = {}
      BY <1>2, SMT
    <3> QED
      BY <3>1, Zenon DEF Unpaired
  <2>4. GoodChunk(e)
    BY <2>2, <2>3, LimitAssumption, SMT DEF GoodChunk
  <2>5. \A i \in 1 .. 1 : i = 1 /\ ~ (i < 1)
    BY SMT
  <2>6. 1 >= 1
    BY SMT
  <2> QED
    BY <1>3, <2>1, <2>4, <2>5, <2>6, Zenon DEF Divided
<1>9. WatchSound
  <2>1. watch.state = "AWAITING_RESULT" /\ watch.buffer = <<>> /\ watch.total = 0
    BY SMT
  <2>2. DOMAIN watch = {"state", "count", "total", "next", "buffer"}
    BY SMT
  <2>3. watch.buffer \in Seq(Nat) /\ Len(watch.buffer) <= watch.total
        /\ watch.total <= MaxResponseBytes
    BY <2>1, LimitAssumption, SMT
  <2> QED
    BY <2>1, <2>2, <2>3, Zenon DEF WatchSound
<1>10. OnLink
  BY DEF OnLink
<1> QED
  BY <1>5, <1>6, <1>7, <1>8, <1>9, <1>10 DEF IInv

\* An accepted response starts with a character.
LEMMA ResultFrameIInv ==
  ASSUME IInv, ResultFrame
  PROVE  IInv'
<1> USE DEF IInv
<1>1. /\ phone.state = "awaiting_result"
      /\ UNCHANGED <<response, link, watch>>
  BY DEF ResultFrame
<1>2. PICK state \in {"splitting", "protocol_error"} :
        state = IF Acceptable(response) THEN "splitting" ELSE "protocol_error"
  BY Zenon
<1>3. phone' = [phone EXCEPT !.state = state]
  BY <1>2, Zenon DEF ResultFrame
<1>4. phone' \in PhoneStates
  <2>1. CASE state = "splitting"
    BY <1>3, <2>1, SMT DEF Typed, PhoneStates
  <2>2. CASE state = "protocol_error"
    BY <1>3, <2>2, SMT DEF Typed, PhoneStates
  <2> QED
    BY <1>2, <2>1, <2>2
<1>5. /\ phone'.state = state /\ phone'.at = phone.at /\ phone'.chunks = phone.chunks
      /\ phone'.next = phone.next
  BY <1>3, SMT DEF Typed, PhoneStates
<1>6. Typed'
  BY <1>1, <1>4, <1>5, Zenon DEF Typed
<1>7. Judged'
  BY <1>1, <1>2, <1>5, SMT DEF Judged
<1>8. AtCharacter'
  <2>1. phone.at = 1
    BY <1>1 DEF Judged
  <2>2. ASSUME phone.at <= Len(response), state = "splitting"
        PROVE  ~ Low(response[phone.at])
    <3>1. ~ Unpaired(response)
      BY <1>2, <2>2, SMT DEF Acceptable
    <3>2. 1 \in 1 .. Len(response) /\ 1 - 1 \notin 1 .. Len(response)
      BY <2>1, <2>2, SMT DEF Typed
    <3>3. response \in Seq(Units)
      BY DEF Typed
    <3> QED
      BY <2>1, <3>1, <3>2, <3>3, Partners, Zenon
  <2>3. phone.at \in 1 .. Len(response) + 1
    BY DEF AtCharacter
  <2> QED
    BY <1>1, <1>2, <1>5, <2>2, <2>3, Zenon DEF AtCharacter
<1>9. Divided(phone.chunks, phone.at)'
  BY <1>5, Zenon
<1>10. WatchSound' /\ OnLink'
  BY <1>1, Zenon DEF WatchSound, OnLink
<1> QED
  BY <1>6, <1>7, <1>8, <1>9, <1>10 DEF IInv

\* One turn of the loop of splitUtf8 takes a character, whole.
LEMMA SplitUtf8IInv ==
  ASSUME IInv, SplitUtf8
  PROVE  IInv'
<1> USE DEF IInv
<1>1. /\ phone.state = "splitting" /\ phone.at <= Len(response)
      /\ UNCHANGED <<response, link, watch>>
  BY DEF SplitUtf8
<1>2. /\ response \in Seq(Units) /\ phone \in PhoneStates /\ phone.at \in Nat
      /\ phone.chunks \in Seq(Seq(Units)) /\ phone.next \in Nat
  BY SMT DEF Typed, PhoneStates, Divisions
<1>3. ~ Unpaired(response)
  BY <1>1, SMT DEF Judged, Acceptable
<1>4. phone.at \in 1 .. Len(response) /\ ~ Low(response[phone.at])
  BY <1>1, <1>2, SMT DEF AtCharacter
<1>5. PICK c : c = CharAt(response, phone.at)
  OBVIOUS
<1>6. NextCharacter = c
  BY <1>5, Zenon DEF NextCharacter, CharAt
<1>7. /\ c \in Seq(Units) /\ c # <<>> /\ ~ Unpaired(c) /\ Utf8ByteLength(c) \in 1 .. 4
      /\ CharAt(c, 1) = c
      /\ phone.at + Len(c) \in 1 .. Len(response) + 1
      /\ phone.at + Len(c) > 1
      /\ phone.at + Len(c) <= Len(response) => ~ Low(response[phone.at + Len(c)])
  BY <1>2, <1>3, <1>4, <1>5, CharacterAt
<1>8. Utf8ByteLength(c) <= ResponseChunkBytes
  BY <1>7, LimitAssumption, SMT
<1>9. ~ Low(c[1])
  <2> SUFFICES ASSUME Low(c[1]) PROVE FALSE
    OBVIOUS
  <2>1. 1 \in 1 .. Len(c) /\ 1 - 1 \notin 1 .. Len(c)
    BY <1>7, SMT
  <2> QED
    BY <1>7, <2>1, Partners, Zenon
<1>10. PICK at \in Nat : at = phone.at + Len(c) /\ at # 1
  <2>1. phone.at + Len(c) \in Nat /\ phone.at + Len(c) # 1
    BY <1>2, <1>7, SMT
  <2> QED
    BY <2>1, Zenon
<1>11. PICK last : last = Len(phone.chunks)
  OBVIOUS
<1>12. PICK chunks : chunks =
         IF phone.chunks[last] # <<>>
              /\ Utf8ByteLength(phone.chunks[last] \o c) > ResponseChunkBytes
           THEN Append(phone.chunks, c)
           ELSE [phone.chunks EXCEPT ![last] = phone.chunks[last] \o c]
  OBVIOUS
<1>13. phone' = [phone EXCEPT !.at = at, !.chunks = chunks]
  BY <1>6, <1>10, <1>11, <1>12, Zenon DEF SplitUtf8, Overflows
<1>14. chunks \in Seq(Seq(Units)) /\ chunks \in Divisions /\ Divided(chunks, at)
  BY <1>2, <1>7, <1>8, <1>9, <1>10, <1>11, <1>12, SplitStep, Zenon DEF Divisions
<1>15. PICK p : p = [phone EXCEPT !.at = at]
  OBVIOUS
<1>16. p \in PhoneStates
  BY <1>15, <1>2, SMT DEF PhoneStates
<1>17. phone' = [p EXCEPT !.chunks = chunks]
  BY <1>2, <1>13, <1>15, SMT DEF PhoneStates
<1>18. phone' \in PhoneStates
  BY <1>14, <1>16, <1>17, SMT DEF PhoneStates
<1>19. /\ phone'.state = "splitting" /\ phone'.at = at /\ phone'.chunks = chunks
       /\ phone'.next = phone.next
  BY <1>1, <1>2, <1>13, SMT DEF PhoneStates
<1>20. Typed'
  <2>1. phone.next = 1
    BY <1>1 DEF Judged
  <2>2. Len(chunks) \in Nat
    BY <1>14, SMT
  <2>3. phone.next \in 1 .. Len(chunks) + 1
    BY <2>1, <2>2, SMT
  <2> QED
    BY <1>1, <1>18, <1>19, <2>3, Zenon DEF Typed
<1>21. Judged'
  BY <1>1, <1>19, SMT DEF Judged
<1>22. AtCharacter'
  BY <1>1, <1>7, <1>10, <1>19, SMT DEF AtCharacter
<1>23. Divided(phone.chunks, phone.at)'
  BY <1>14, <1>19, Zenon
<1>24. WatchSound' /\ OnLink'
  BY <1>1, Zenon DEF WatchSound, OnLink
<1> QED
  BY <1>20, <1>21, <1>22, <1>23, <1>24 DEF IInv

\* The loop ends with the response.
LEMMA SplitIInv ==
  ASSUME IInv, Split
  PROVE  IInv'
<1> USE DEF IInv
<1>1. /\ phone.state = "splitting" /\ phone.at > Len(response)
      /\ phone' = [phone EXCEPT !.state = "forwarding_result"]
      /\ UNCHANGED <<response, link, watch>>
  BY DEF Split
<1>2. phone' \in PhoneStates
  BY <1>1, SMT DEF Typed, PhoneStates
<1>3. /\ phone'.state = "forwarding_result" /\ phone'.at = phone.at
      /\ phone'.chunks = phone.chunks /\ phone'.next = phone.next
  BY <1>1, SMT DEF Typed, PhoneStates
<1>4. Typed'
  BY <1>1, <1>2, <1>3, Zenon DEF Typed
<1>5. Judged' /\ AtCharacter'
  BY <1>1, <1>3, SMT DEF Judged, AtCharacter
<1>6. Divided(phone.chunks, phone.at)'
  BY <1>3, Zenon
<1>7. WatchSound' /\ OnLink'
  BY <1>1, Zenon DEF WatchSound, OnLink
<1> QED
  BY <1>4, <1>5, <1>6, <1>7 DEF IInv

\* The rest of the steps.
LEMMA ForwardedIInv ==
  ASSUME IInv, Forwarded
  PROVE  IInv'
<1> USE DEF IInv
<1>1. /\ phone.state = "forwarding_result"
      /\ phone' = [phone EXCEPT !.state = "complete"]
      /\ UNCHANGED <<response, link, watch>>
  BY DEF Forwarded
<1>2. phone' \in PhoneStates
  BY <1>1, SMT DEF Typed, PhoneStates
<1>3. /\ phone'.state = "complete" /\ phone'.at = phone.at
      /\ phone'.chunks = phone.chunks /\ phone'.next = phone.next
  BY <1>1, SMT DEF Typed, PhoneStates
<1>4. Typed'
  BY <1>1, <1>2, <1>3, Zenon DEF Typed
<1>5. Judged' /\ AtCharacter'
  BY <1>1, <1>3, SMT DEF Judged, AtCharacter
<1>6. Divided(phone.chunks, phone.at)'
  BY <1>3, Zenon
<1>7. WatchSound' /\ OnLink'
  BY <1>1, Zenon DEF WatchSound, OnLink
<1> QED
  BY <1>4, <1>5, <1>6, <1>7 DEF IInv

\* What PebbleKit JS makes of a text is a string of bytes.
LEMMA CStringType ==
  ASSUME NEW u \in Seq(Units), ~ Unpaired(u), NEW text \in CStrings(u)
  PROVE  text \in Seq(Nat)
<1>1. PICK bytes \in Seq(Nat) : bytes = Utf8OfUtf16(u)
  BY CountsBytes
<1>2. StrLen(bytes) \in 0 .. Len(bytes)
  <2> DEFINE N == {i \in DOMAIN bytes : bytes[i] = 0}
             T == {i \in 1 .. Len(bytes) : i \in N}
  <2>1. Len(bytes) \in 0 .. Len(bytes)
    BY SMT
  <2>2. CASE N = {}
    BY <2>1, <2>2, Zenon DEF StrLen
  <2>3. CASE N # {}
    <3>1. DOMAIN bytes = 1 .. Len(bytes)
      BY SMT
    <3>2. T \in SUBSET Nat /\ T # {}
      BY <2>3, <3>1, SMT
    <3>3. PICK k \in T : \A m \in T : k <= m
      <4> HIDE DEF T
      <4> QED
        BY <3>2, LeastNumber
    <3>4. k \in 1 .. Len(bytes) /\ k \in N
      OBVIOUS
    <3>5. PICK i \in 0 .. Len(bytes) : i + 1 = k
      <4>1. k - 1 \in 0 .. Len(bytes) /\ (k - 1) + 1 = k
        BY <3>4, SMT
      <4> QED
        BY <4>1, Zenon
    <3>6. ASSUME NEW j \in 1 .. i
          PROVE  j \notin N
      <4>1. j \in 1 .. Len(bytes) /\ ~ (k <= j)
        BY <3>4, <3>5, SMT
      <4> QED
        BY <3>3, <4>1, Zenon
    <3>7. (CHOOSE n \in 0 .. Len(bytes) : n + 1 \in N /\ \A j \in 1 .. n : j \notin N)
            \in 0 .. Len(bytes)
      <4> HIDE DEF N, T
      <4> QED
        BY <3>4, <3>5, <3>6, Zenon
    <3> QED
      BY <2>3, <3>7, Zenon DEF StrLen
  <2> QED
    BY <2>2, <2>3
<1>3. PICK n \in 0 .. Len(bytes) : n = StrLen(bytes)
  BY <1>2
<1>4. SubSeq(bytes, 1, n) \in Seq(Nat)
  BY SMT
<1>5. text = bytes \/ text = SubSeq(bytes, 1, n)
  BY <1>1, <1>3, Zenon DEF CStrings
<1> QED
  BY <1>4, <1>5

\* A chunk on its way holds bytes.
LEMMA SendNextIInv ==
  ASSUME IInv, SendNext
  PROVE  IInv'
<1> USE DEF IInv
<1>1. /\ phone.state = "forwarding_result" /\ phone.next <= Len(phone.chunks)
      /\ phone' = [phone EXCEPT !.next = phone.next + 1]
      /\ UNCHANGED <<response, watch>>
  BY DEF SendNext
<1>2. phone.next \in 1 .. Len(phone.chunks) /\ phone.next + 1 \in 1 .. Len(phone.chunks) + 1
  BY <1>1, SMT DEF Typed
<1>3. PICK next \in Nat : next = phone.next + 1
  BY <1>2, SMT
<1>4. phone' = [phone EXCEPT !.next = next]
  BY <1>1, <1>3
<1>5. phone' \in PhoneStates
  BY <1>4, SMT DEF Typed, PhoneStates
<1>6. /\ phone'.state = "forwarding_result" /\ phone'.at = phone.at
      /\ phone'.chunks = phone.chunks /\ phone'.next = next
  BY <1>1, <1>4, SMT DEF Typed, PhoneStates
<1>7. Typed'
  BY <1>1, <1>2, <1>3, <1>5, <1>6, Zenon DEF Typed
<1>8. Judged' /\ AtCharacter'
  BY <1>1, <1>6, SMT DEF Judged, AtCharacter
<1>9. Divided(phone.chunks, phone.at)'
  BY <1>6, Zenon
<1>10. WatchSound'
  BY <1>1, Zenon DEF WatchSound
<1>11. OnLink'
  <2>1. PICK u : u = phone.chunks[phone.next]
    OBVIOUS
  <2>2. u \in Seq(Units) /\ ~ Unpaired(u)
    <3>1. u \in Seq(Units)
      BY <1>2, <2>1, SMT DEF Typed, PhoneStates, Divisions
    <3>2. GoodChunk(u)
      BY <1>2, <2>1, Zenon DEF Divided
    <3> QED
      BY <3>1, <3>2 DEF GoodChunk
  <2>3. PayloadOf(phone.next).text = u
    BY <2>1, SMT DEF PayloadOf
  <2>4. PICK text \in CStrings(u) : \E index, count, total :
          link' = <<[index |-> index, count |-> count, total |-> total, text |-> text]>>
    BY <2>3, Zenon DEF SendNext
  <2>5. PICK index, count, total :
          link' = <<[index |-> index, count |-> count, total |-> total, text |-> text]>>
    BY <2>4
  <2>6. PICK m : /\ m = [index |-> index, count |-> count, total |-> total, text |-> text]
                 /\ m.text = text /\ link' = <<m>>
    BY <2>5, SMT
  <2>7. text \in Seq(Nat)
    BY <2>2, CStringType
  <2> QED
    BY <2>6, <2>7, Zenon DEF OnLink
<1> QED
  BY <1>7, <1>8, <1>9, <1>10, <1>11 DEF IInv

\* A chunk that is taken fits the buffer its total announced; nothing else
\* changes the buffer but the failure that frees it.
LEMMA ReceiveChunkIInv ==
  ASSUME IInv, ReceiveChunk
  PROVE  IInv'
<1> USE DEF IInv
<1>1. link # <<>> /\ link' = Tail(link) /\ UNCHANGED <<response, phone>>
  BY DEF ReceiveChunk
<1>2. PICK m : link = <<m>> /\ m.text \in Seq(Nat)
  BY <1>1, Zenon DEF OnLink
<1>3. Head(link) = m /\ link' = <<>>
  BY <1>1, <1>2, SMT
<1>4. PICK w : w = Opened(m)
  OBVIOUS
<1>5. /\ DOMAIN w = {"state", "count", "total", "next", "buffer"}
      /\ w.buffer \in Seq(Nat)
      /\ watch.state # "AWAITING_RESULT" => w.total <= MaxResponseBytes
      /\ watch.state = "AWAITING_RESULT" => w.total = m.total.value
  <2>1. CASE watch.state = "AWAITING_RESULT"
    <3>1. w = [state |-> "RECEIVING_RESULT", count |-> m.count.value,
               total |-> m.total.value, next |-> 0, buffer |-> <<>>]
      BY <1>4, <2>1, Zenon DEF Opened
    <3>2. w.buffer = <<>> /\ w.total = m.total.value
      BY <3>1, SMT
    <3>3. DOMAIN w = {"state", "count", "total", "next", "buffer"}
      BY <3>1, SMT
    <3>4. w.buffer \in Seq(Nat)
      BY <3>2, SMT
    <3> QED
      BY <2>1, <3>2, <3>3, <3>4
  <2>2. CASE watch.state # "AWAITING_RESULT"
    <3>1. w = watch
      BY <1>4, <2>2, Zenon DEF Opened
    <3> QED
      BY <2>2, <3>1, Zenon DEF WatchSound
  <2> QED
    BY <2>1, <2>2
<1>6. PICK after : after = [w EXCEPT !.next = w.next + 1, !.buffer = w.buffer \o m.text]
  OBVIOUS
<1>7. PICK state : state = IF (watch.state = "AWAITING_RESULT" => m.index.value = 0)
                                /\ ValidChunk(m) /\ Appends(w, m)
                             THEN StateAfter(after) ELSE "FAILED"
  OBVIOUS
<1>8. watch' = CASE watch.state = "FAILED" -> watch
                 [] watch.state # "FAILED" /\ state = "FAILED" -> Failed
                 [] OTHER -> [after EXCEPT !.state = state]
  BY <1>3, <1>4, <1>6, <1>7, Zenon DEF ReceiveChunk
<1>9. WatchSound'
  <2>1. CASE watch.state = "FAILED"
    <3>1. watch' = watch
      BY <1>8, <2>1, Zenon
    <3> QED
      BY <3>1, Zenon DEF WatchSound
  <2>2. CASE watch.state # "FAILED" /\ state = "FAILED"
    <3>1. watch' = Failed
      BY <1>8, <2>2, Zenon
    <3>2. watch'.state = "FAILED" /\ watch'.buffer = <<>> /\ watch'.total = 0
      BY <3>1, SMT DEF Failed
    <3>3. DOMAIN watch' = {"state", "count", "total", "next", "buffer"}
      BY <3>1, SMT DEF Failed
    <3>4. watch'.buffer \in Seq(Nat) /\ Len(watch'.buffer) <= watch'.total
          /\ watch'.total <= MaxResponseBytes
      BY <3>2, LimitAssumption, SMT
    <3> QED
      BY <3>2, <3>3, <3>4, Zenon DEF WatchSound
  <2>3. CASE watch.state # "FAILED" /\ state # "FAILED"
    <3>1. watch' = [after EXCEPT !.state = state]
      BY <1>8, <2>3, Zenon
    <3>2. ValidChunk(m) /\ Appends(w, m) /\ state = StateAfter(after)
      BY <1>7, <2>3, Zenon
    <3>3. state \in {"RECEIVING_RESULT", "COMPLETE", "FAILED"}
      BY <3>2, Zenon DEF StateAfter
    <3>4. PICK buffer \in Seq(Nat) : /\ buffer = w.buffer \o m.text
                                     /\ Len(buffer) = Len(w.buffer) + Len(m.text)
      <4>1. w.buffer \o m.text \in Seq(Nat)
            /\ Len(w.buffer \o m.text) = Len(w.buffer) + Len(m.text)
        BY <1>2, <1>5, SMT
      <4> QED
        BY <4>1, Zenon
    <3>5. after = [w EXCEPT !.next = w.next + 1, !.buffer = buffer]
      BY <1>6, <3>4
    <3>6. /\ DOMAIN watch' = {"state", "count", "total", "next", "buffer"}
          /\ watch'.state = state /\ watch'.buffer = buffer /\ watch'.total = w.total
      BY <1>5, <3>1, <3>5, SMT
    <3>7. Len(buffer) <= w.total
      BY <3>2, <3>4, Zenon DEF Appends
    <3>8. w.total <= MaxResponseBytes
      BY <1>5, <3>2, Zenon DEF ValidChunk
    <3> QED
      BY <3>3, <3>6, <3>7, <3>8, Zenon DEF WatchSound
  <2> QED
    BY <2>1, <2>2, <2>3
<1>10. Typed' /\ Judged' /\ AtCharacter' /\ Divided(phone.chunks, phone.at)'
  BY <1>1, Zenon DEF Typed, Judged, AtCharacter
<1>11. OnLink'
  BY <1>3 DEF OnLink
<1> QED
  BY <1>9, <1>10, <1>11 DEF IInv

LEMMA StepIInv ==
  ASSUME IInv, [Next]_transferVars
  PROVE  IInv'
<1>1. CASE UNCHANGED transferVars
  BY <1>1, Zenon DEF transferVars, IInv, Typed, Judged, AtCharacter, WatchSound, OnLink
<1>2. CASE Done
  BY <1>1, <1>2 DEF Done
<1>3. CASE ReceiveChunk
  BY <1>3, ReceiveChunkIInv
<1> QED
  BY <1>1, <1>2, <1>3, ResultFrameIInv, SplitUtf8IInv, SplitIInv, SendNextIInv,
     ForwardedIInv, Zenon DEF Next

-----------------------------------------------------------------------------
(* What the properties say, from the invariant.                            *)

LEMMA IInvTypes ==
  ASSUME IInv
  PROVE  TypeOK
<1> USE DEF IInv
<1>1. response \in Responses /\ phone.next \in 1 .. Len(phone.chunks) + 1
  BY DEF Typed
<1>2. phone.state \in {"awaiting_result", "splitting", "forwarding_result", "complete",
                       "protocol_error"}
  BY SMT DEF Typed, PhoneStates
<1>3. Len(link) <= 1
  <2>1. CASE link = <<>>
    BY <2>1, SMT
  <2>2. CASE link # <<>>
    <3>1. PICK m : link = <<m>>
      BY <2>2, Zenon DEF OnLink
    <3> QED
      BY <3>1, SMT
  <2> QED
    BY <2>1, <2>2
<1>4. /\ watch.state \in {"AWAITING_RESULT", "RECEIVING_RESULT", "COMPLETE", "FAILED"}
      /\ Len(watch.buffer) <= watch.total /\ watch.total <= MaxResponseBytes
  BY DEF WatchSound
<1> QED
  BY <1>1, <1>2, <1>3, <1>4, Zenon DEF TypeOK

LEMMA IInvRejects ==
  ASSUME IInv
  PROVE  RejectsTheOversized
<1> USE DEF IInv
<1>1. response \in Seq(Units)
  BY DEF Typed
<1>2. ASSUME ~ Unpaired(response)
      PROVE  Len(Utf8OfUtf16(response)) = Utf8ByteLength(response)
  BY <1>1, <1>2, CountsBytes
<1>3. Utf8ByteLength(response) \in Nat
  BY <1>1, LengthType
<1>4. ASSUME phone.state = "protocol_error", ~ Unpaired(response)
      PROVE  Len(Utf8OfUtf16(response)) > MaxResponseBytes
  <2>1. ~ (Utf8ByteLength(response) <= MaxResponseBytes)
    BY <1>4, Zenon DEF Judged, Acceptable
  <2>2. Utf8ByteLength(response) > MaxResponseBytes
    BY <1>3, <2>1, LimitAssumption, SMT
  <2> QED
    BY <1>2, <1>4, <2>2, Zenon
<1>5. ASSUME phone.state \in {"splitting", "forwarding_result", "complete"}
      PROVE  ~ Unpaired(response) /\ Len(Utf8OfUtf16(response)) <= MaxResponseBytes
  <2>1. ~ Unpaired(response) /\ Utf8ByteLength(response) <= MaxResponseBytes
    BY <1>5, Zenon DEF Judged, Acceptable
  <2> QED
    BY <1>2, <2>1, Zenon
<1> QED
  BY <1>4, <1>5, Zenon DEF RejectsTheOversized

LEMMA IInvFull ==
  ASSUME IInv
  PROVE  ChunksAreFull
<1> USE DEF IInv
<1>1. SUFFICES ASSUME phone.state \in {"forwarding_result", "complete"},
                      NEW i \in DOMAIN phone.chunks
               PROVE  LET chunk == phone.chunks[i]
                          next == phone.chunks[i + 1]
                          first == IF High(next[1]) THEN SubSeq(next, 1, 2) ELSE <<next[1]>>
                      IN  /\ ~ Unpaired(chunk)
                          /\ Len(Utf8OfUtf16(chunk)) <= ResponseChunkBytes
                          /\ chunk = <<>> => response = <<>>
                          /\ i < Len(phone.chunks) =>
                               Len(Utf8OfUtf16(chunk \o first)) > ResponseChunkBytes
  BY IInvTypes, Zenon DEF ChunksAreFull
<1>2. phone.chunks \in Seq(Seq(Units))
  BY SMT DEF Typed, PhoneStates, Divisions
<1>3. i \in 1 .. Len(phone.chunks) /\ i \in Nat /\ Len(phone.chunks) \in Nat
  BY <1>1, <1>2, SMT
<1>4. PICK chunk \in Seq(Units) : chunk = phone.chunks[i]
  BY <1>2, <1>3, SMT
<1>5. GoodChunk(chunk)
  BY <1>3, <1>4, Zenon DEF Divided
<1>6. ~ Unpaired(chunk) /\ Len(Utf8OfUtf16(chunk)) <= ResponseChunkBytes
  <2>1. ~ Unpaired(chunk) /\ Utf8ByteLength(chunk) <= ResponseChunkBytes
    BY <1>5 DEF GoodChunk
  <2> QED
    BY <2>1, CountsBytes, Zenon
<1>7. ASSUME chunk = <<>>
      PROVE  response = <<>>
  <2>1. phone.at = 1
    BY <1>3, <1>4, <1>7, Zenon DEF Divided
  <2>2. phone.at > Len(response)
    BY <1>1, SMT DEF AtCharacter
  <2>3. response \in Seq(Units)
    BY DEF Typed
  <2> QED
    BY <2>1, <2>2, <2>3, SMT
<1>8. ASSUME i < Len(phone.chunks)
      PROVE  LET next == phone.chunks[i + 1]
                 first == IF High(next[1]) THEN SubSeq(next, 1, 2) ELSE <<next[1]>>
             IN  Len(Utf8OfUtf16(chunk \o first)) > ResponseChunkBytes
  <2>1. PICK j \in 1 .. Len(phone.chunks) : j = i + 1
    <3>1. i + 1 \in 1 .. Len(phone.chunks)
      BY <1>3, <1>8, SMT
    <3> QED
      BY <3>1, Zenon
  <2>2. PICK next \in Seq(Units) : next = phone.chunks[j]
    BY <1>2, <2>1, SMT
  <2>3. FullBefore(chunk, next)
    BY <1>3, <1>4, <1>8, <2>1, <2>2, Zenon DEF Divided
  <2>4. ~ Unpaired(next)
    <3>1. GoodChunk(next)
      BY <2>1, <2>2, Zenon DEF Divided
    <3> QED
      BY <3>1 DEF GoodChunk
  <2>5. PICK first : first = CharAt(next, 1)
    OBVIOUS
  <2>6. next # <<>> /\ ~ Low(next[1]) /\ Utf8ByteLength(chunk \o first) > ResponseChunkBytes
    BY <2>3, <2>5 DEF FullBefore
  <2>7. first \in Seq(Units) /\ ~ Unpaired(first)
    <3>1. 1 \in 1 .. Len(next)
      BY <2>2, <2>6, SMT
    <3> QED
      BY <2>4, <2>5, <2>6, <3>1, CharacterAt
  <2>8. chunk \o first \in Seq(Units) /\ ~ Unpaired(chunk \o first)
    BY <1>6, <2>7, PairedJoined
  <2>9. Len(Utf8OfUtf16(chunk \o first)) > ResponseChunkBytes
    BY <2>6, <2>8, CountsBytes, Zenon
  <2>10. first = IF High(next[1]) THEN SubSeq(next, 1, 2) ELSE <<next[1]>>
    <3>1. 1 + 1 = 2
      BY SMT
    <3> QED
      BY <2>5, <3>1, Zenon DEF CharAt
  <2> QED
    BY <2>1, <2>2, <2>9, <2>10, Zenon
<1> QED
  BY <1>4, <1>6, <1>7, <1>8, Zenon

\* The conjunction holds in every reachable state.
THEOREM Invariance == Spec => []IInv
<1>1. Init => IInv
  BY InitIInv
<1>2. IInv /\ [Next]_transferVars => IInv'
  BY StepIInv
<1> QED
  BY <1>1, <1>2, PTL DEF Spec

\* The watch's buffer never holds more than was announced, nor more than the
\* limit, whatever the chunks say.
THEOREM TransferTypes == Spec => []TypeOK
<1>1. IInv => TypeOK
  BY IInvTypes
<1> QED
  BY <1>1, Invariance, PTL

\* parseServerFrame and splitUtf8, which measure code units, reject exactly the
\* responses whose encoding is too long or does not exist.
THEOREM RefusesTheOversized == Spec => []RejectsTheOversized
<1>1. IInv => RejectsTheOversized
  BY IInvRejects
<1> QED
  BY <1>1, Invariance, PTL

\* Each chunk of splitUtf8 is some whole characters and within the limit, and
\* none has room for the first character of the next.
THEOREM FullChunks == Spec => []ChunksAreFull
<1>1. IInv => ChunksAreFull
  BY IInvFull
<1> QED
  BY <1>1, Invariance, PTL

=============================================================================
