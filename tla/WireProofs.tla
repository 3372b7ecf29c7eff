----------------------------- MODULE WireProofs -----------------------------
(***************************************************************************)
(* TornRefused, LimitsAgree and Transparent of Wire for any codec, any      *)
(* limits and any payloads.                                                 *)
(***************************************************************************)
EXTENDS Wire, SequenceTheorems, TLAPS

-----------------------------------------------------------------------------
(* Numbers of fixed width. *)

(* Dividing with remainder and multiplying again gives the number back. *)
LEMMA DivMod ==
    ASSUME NEW n \in Nat, NEW d \in Nat \ {0}
    PROVE  /\ n \div d \in Nat /\ n % d \in 0 .. d - 1
           /\ (n \div d) * d + (n % d) = n
BY SMT

(* A quotient is below the factor that bounds the number. *)
LEMMA DivBound ==
    ASSUME NEW d \in Nat \ {0}, NEW e \in Nat, NEW n \in 0 .. (e * d) - 1
    PROVE  n \div d \in 0 .. e - 1
<1> DEFINE q == n \div d
<1>1. q \in Nat /\ q * d + (n % d) = n /\ n % d >= 0 /\ n % d \in Int
  BY DivMod
<1>2. ASSUME q >= e PROVE FALSE
  <2> HIDE DEF q
  <2>1. q * d >= e * d
    BY <1>1, <1>2, SMT
  <2>2. q * d \in Nat /\ e * d \in Nat
    BY <1>1, SMT
  <2> QED
    BY <1>1, <2>1, <2>2, SMT
<1> QED
  BY <1>1, <1>2, SMT

LEMMA RadixFact == Radix \in Nat \ {0} /\ Radix * Radix \in Nat \ {0}
<1>1. Radix \in Nat /\ Radix >= 16
  BY RadixAssumption
<1> QED
  BY <1>1, SMT

(* u16::to_be_bytes and from_be_bytes are inverse. *)
LEMMA U16Kept ==
    ASSUME NEW n \in 0 .. Radix * Radix - 1
    PROVE  /\ u16_bytes(n) \in Seq(Byte) /\ Len(u16_bytes(n)) = 2
           /\ u16_from(u16_bytes(n)) = n
<1> USE RadixFact
<1>1. n \div Radix \in 0 .. Radix - 1
  BY DivBound
<1>2. n % Radix \in 0 .. Radix - 1 /\ (n \div Radix) * Radix + (n % Radix) = n
  BY DivMod
<1>3. (n \div Radix) % Radix = n \div Radix
  BY <1>1, SMT
<1>4. u16_bytes(n) = <<n \div Radix, n % Radix>>
  BY <1>3 DEF u16_bytes
<1> HIDE DEF u16_bytes
<1> QED
  BY <1>1, <1>2, <1>4 DEF u16_from, Byte

(* Two bytes are a u16. *)
LEMMA U16Typed ==
    ASSUME NEW s \in Seq(Byte), Len(s) = 2
    PROVE  u16_from(s) \in 0 .. Radix * Radix - 1
<1>1. s[1] \in Byte /\ s[2] \in Byte
  <2>1. 1 \in 1 .. Len(s) /\ 2 \in 1 .. Len(s)
    OBVIOUS
  <2> QED
    BY <2>1, ElementOfSeq, Zenon
<1>2. PICK r \in Nat : r = Radix
  BY RadixFact
<1>3. s[1] \in 0 .. r - 1 /\ s[2] \in 0 .. r - 1
  BY <1>1, <1>2 DEF Byte
<1>4. s[1] * r <= (r - 1) * r /\ s[1] * r \in Nat
  BY <1>3, SMT
<1>5. (r - 1) * r + r = r * r
  BY SMT
<1>6. s[1] * r + s[2] <= r * r - 1
  BY <1>3, <1>4, <1>5, SMT
<1> QED
  BY <1>2, <1>3, <1>4, <1>6 DEF u16_from

(* The halves of a sequence of four. *)
LEMMA TwoAndTwo ==
    ASSUME NEW S, NEW hi \in Seq(S), NEW lo \in Seq(S), Len(hi) = 2, Len(lo) = 2
    PROVE  /\ hi \o lo \in Seq(S) /\ Len(hi \o lo) = 4
           /\ (hi \o lo)[1] = hi[1] /\ (hi \o lo)[2] = hi[2]
           /\ SubSeq(hi \o lo, 3, 4) = lo
<1>1. /\ hi \o lo \in Seq(S) /\ Len(hi \o lo) = Len(hi) + Len(lo)
      /\ \A i \in 1 .. Len(hi) + Len(lo) :
            (hi \o lo)[i] = IF i <= Len(hi) THEN hi[i] ELSE lo[i - Len(hi)]
  BY ConcatProperties, Zenon
<1>2. SubSeq(hi \o lo, 3, 4) = SubSeq(lo, 3 - Len(hi), 4 - Len(hi))
  <2>1. 3 \in Len(hi) + 1 .. Len(hi) + Len(lo) /\ 4 \in Len(hi) + 1 .. Len(hi) + Len(lo)
    OBVIOUS
  <2> QED
    BY ONLY hi \in Seq(S), lo \in Seq(S), <2>1, SubSeqOfConcat2, Zenon
<1>3. SubSeq(lo, 1, 2) = lo
  BY SubSeqFull
<1> QED
  BY <1>1, <1>2, <1>3

(* u32::to_be_bytes and from_be_bytes are inverse. *)
LEMMA U32Kept ==
    ASSUME NEW n \in 0 .. (Radix * Radix) * (Radix * Radix) - 1
    PROVE  /\ u32_bytes(n) \in Seq(Byte) /\ Len(u32_bytes(n)) = 4
           /\ u32_from(u32_bytes(n)) = n
<1> DEFINE hi == u16_bytes(n \div (Radix * Radix))
           lo == u16_bytes(n % (Radix * Radix))
<1>1. n \div (Radix * Radix) \in 0 .. Radix * Radix - 1
  BY RadixFact, DivBound
<1>2. /\ n % (Radix * Radix) \in 0 .. Radix * Radix - 1
      /\ (n \div (Radix * Radix)) * (Radix * Radix) + (n % (Radix * Radix)) = n
  <2>1. n \in Nat
    BY RadixFact, SMT
  <2> QED
    BY ONLY <2>1, RadixFact, DivMod, Zenon
<1>3. /\ hi \in Seq(Byte) /\ Len(hi) = 2 /\ u16_from(hi) = n \div (Radix * Radix)
      /\ lo \in Seq(Byte) /\ Len(lo) = 2 /\ u16_from(lo) = n % (Radix * Radix)
  BY ONLY <1>1, <1>2, U16Kept, Zenon
<1>4. u32_bytes(n) = hi \o lo
  BY DEF u32_bytes
<1> HIDE DEF hi, lo
<1>5. /\ hi \o lo \in Seq(Byte) /\ Len(hi \o lo) = 4
      /\ (hi \o lo)[1] = hi[1] /\ (hi \o lo)[2] = hi[2]
      /\ SubSeq(hi \o lo, 3, 4) = lo
  BY ONLY <1>3, TwoAndTwo, Zenon
<1>6. u16_from(hi \o lo) = u16_from(hi)
  BY <1>5 DEF u16_from
<1>7. u32_from(hi \o lo) = n
  BY <1>2, <1>3, <1>5, <1>6 DEF u32_from
<1> QED
  BY <1>4, <1>5, <1>7

-----------------------------------------------------------------------------
(* Sequences, by position.  The predicates keep the quantifiers out of the   *)
(* steps that only cite a lemma.                                             *)

(* r is s and then t. *)
Joined(S, r, s, t) ==
    /\ r \in Seq(S) /\ Len(r) = Len(s) + Len(t)
    /\ \A i \in 1 .. Len(s) : r[i] = s[i]
    /\ \A i \in 1 .. Len(t) : r[Len(s) + i] = t[i]

(* r is the part of s that begins after m elements and has n. *)
Part(S, r, s, m, n) ==
    /\ r \in Seq(S) /\ Len(r) = n
    /\ \A i \in 1 .. n : r[i] = s[m + i]

LEMMA ConcatJoins ==
    ASSUME NEW S, NEW s \in Seq(S), NEW t \in Seq(S)
    PROVE  Joined(S, s \o t, s, t)
<1> DEFINE m == Len(s)
           n == Len(t)
<1>1. m \in Nat /\ n \in Nat
  OBVIOUS
<1>2. /\ s \o t \in Seq(S) /\ Len(s \o t) = m + n
      /\ \A i \in 1 .. m + n : (s \o t)[i] = IF i <= m THEN s[i] ELSE t[i - m]
  BY ConcatProperties, Zenon
<1> HIDE DEF m, n
<1>3. ASSUME NEW i \in 1 .. m PROVE (s \o t)[i] = s[i]
  BY <1>1, <1>2
<1>4. ASSUME NEW i \in 1 .. n PROVE (s \o t)[m + i] = t[i]
  <2>1. m + i \in 1 .. m + n /\ ~(m + i <= m) /\ (m + i) - m = i
    BY <1>1
  <2> QED
    BY ONLY <1>2, <2>1
<1> QED
  BY ONLY <1>2, <1>3, <1>4, Zenon DEF m, n, Joined

LEMMA SubSeqPart ==
    ASSUME NEW S, NEW s \in Seq(S), NEW m \in Nat, NEW n \in Nat, m + n <= Len(s)
    PROVE  Part(S, SubSeq(s, m + 1, m + n), s, m, n)
BY DEF Part

(* A sequence has one part of a length at a place. *)
LEMMA OnePart ==
    ASSUME NEW S, NEW r, NEW t, NEW s, NEW m, NEW n,
           Part(S, r, s, m, n), Part(S, t, s, m, n)
    PROVE  r = t
<1>1. r \in Seq(S) /\ t \in Seq(S) /\ Len(r) = Len(t) /\ \A i \in 1 .. Len(r) : r[i] = t[i]
  BY DEF Part
<1> QED
  BY ONLY <1>1, SeqEqual, Zenon

-----------------------------------------------------------------------------
(* Encryption. *)

LEMMA SizeFact == NONCE_SIZE \in Nat /\ TAG_SIZE \in Nat /\ TAG_SIZE >= 1
BY DEF NONCE_SIZE, TAG_SIZE

(* e is a nonce, the plaintext p and a tag. *)
Encrypted(C, b, p, e) ==
    /\ e \in Seq(C) /\ Len(e) = NONCE_SIZE + Len(p) + TAG_SIZE
    /\ \A i \in 1 .. NONCE_SIZE : e[i] = b
    /\ \A i \in 1 .. Len(p) : e[NONCE_SIZE + i] = p[i]
    /\ \A i \in 1 .. TAG_SIZE : e[NONCE_SIZE + Len(p) + i] = b

LEMMA EncryptShape ==
    ASSUME NEW b, NEW C, b \in C, NEW p \in Seq(C)
    PROVE  Encrypted(C, b, p, encrypt(b, p))
<1> DEFINE n == [i \in 1 .. NONCE_SIZE |-> b]
           t == [i \in 1 .. TAG_SIZE |-> b]
           e == (n \o p) \o t
<1>1. n \in Seq(C) /\ Len(n) = NONCE_SIZE /\ \A i \in 1 .. NONCE_SIZE : n[i] = b
  BY SizeFact
<1>2. t \in Seq(C) /\ Len(t) = TAG_SIZE /\ \A i \in 1 .. TAG_SIZE : t[i] = b
  BY SizeFact
<1>3. encrypt(b, p) = e
  BY DEF encrypt
<1> HIDE DEF n, t
<1>4. Joined(C, n \o p, n, p)
  BY <1>1, ConcatJoins
<1>5. n \o p \in Seq(C)
  BY <1>4 DEF Joined
<1>6. Joined(C, e, n \o p, t)
  BY <1>2, <1>5, ConcatJoins
<1> HIDE DEF e
<1>7. PICK l \in Nat : Len(p) = l
  OBVIOUS
<1>8. /\ Len(n \o p) = NONCE_SIZE + l
      /\ \A i \in 1 .. NONCE_SIZE : (n \o p)[i] = n[i]
      /\ \A i \in 1 .. l : (n \o p)[NONCE_SIZE + i] = p[i]
  BY ONLY <1>1, <1>4, <1>7 DEF Joined
<1>9. /\ e \in Seq(C) /\ Len(e) = NONCE_SIZE + l + TAG_SIZE
      /\ \A i \in 1 .. NONCE_SIZE + l : e[i] = (n \o p)[i]
      /\ \A i \in 1 .. TAG_SIZE : e[NONCE_SIZE + l + i] = t[i]
  BY ONLY <1>2, <1>6, <1>8 DEF Joined
<1>10. \A i \in 1 .. NONCE_SIZE : e[i] = b
  BY ONLY <1>1, <1>8, <1>9, SizeFact, l \in Nat
<1>11. ASSUME NEW i \in 1 .. l PROVE e[NONCE_SIZE + i] = p[i]
  <2>1. NONCE_SIZE + i \in 1 .. NONCE_SIZE + l
    BY SizeFact
  <2> QED
    BY ONLY <1>8, <1>9, <2>1, i \in 1 .. l
<1>12. \A i \in 1 .. TAG_SIZE : e[NONCE_SIZE + l + i] = b
  BY ONLY <1>2, <1>9
<1>13. Encrypted(C, b, p, e)
  BY ONLY <1>7, <1>9, <1>10, <1>11, <1>12 DEF Encrypted
<1> QED
  BY ONLY <1>3, <1>13

(* What was encrypted is decrypted under the same key. *)
LEMMA DecryptWhole ==
    ASSUME NEW b, NEW p \in Seq(Byte)
    PROVE  decrypt(b, encrypt(b, p)) = Some(p)
<1> DEFINE C == Byte \cup {b}
           e == encrypt(b, p)
<1>1. b \in C /\ p \in Seq(C)
  OBVIOUS
<1> HIDE DEF C
<1>2. Encrypted(C, b, p, e)
  BY <1>1, EncryptShape
<1> HIDE DEF e
<1>3. PICK l \in Nat : Len(p) = l
  OBVIOUS
<1>4. /\ e \in Seq(C) /\ Len(e) = NONCE_SIZE + l + TAG_SIZE
      /\ \A i \in 1 .. NONCE_SIZE : e[i] = b
      /\ \A i \in 1 .. l : e[NONCE_SIZE + i] = p[i]
      /\ \A i \in 1 .. TAG_SIZE : e[NONCE_SIZE + l + i] = b
  BY ONLY <1>2, <1>3 DEF Encrypted
<1>5. PICK h \in Nat : h = Len(e)
  BY <1>4, SizeFact
<1>6. ASSUME NEW i \in (1 .. NONCE_SIZE) \cup (h - TAG_SIZE + 1 .. h) PROVE e[i] = b
  <2>1. CASE i \in 1 .. NONCE_SIZE
    BY ONLY <1>4, <2>1
  <2>2. CASE i \in h - TAG_SIZE + 1 .. h
    <3>1. i - (NONCE_SIZE + l) \in 1 .. TAG_SIZE /\ NONCE_SIZE + l + (i - (NONCE_SIZE + l)) = i
      BY <1>4, <1>5, <2>2, SizeFact
    <3> QED
      BY ONLY <1>4, <3>1
  <2> QED
    BY <2>1, <2>2
<1>7. SubSeq(e, NONCE_SIZE + 1, h - TAG_SIZE) = p
  <2>1. h - TAG_SIZE = NONCE_SIZE + l /\ NONCE_SIZE + l <= Len(e)
    BY <1>4, <1>5, SizeFact
  <2>2. Part(C, SubSeq(e, NONCE_SIZE + 1, NONCE_SIZE + l), e, NONCE_SIZE, l)
    BY <1>4, <2>1, SizeFact, SubSeqPart
  <2>3. SubSeq(e, NONCE_SIZE + 1, NONCE_SIZE + l) = p
    <3>1. Part(C, p, e, NONCE_SIZE, l)
      BY ONLY <1>1, <1>3, <1>4 DEF Part
    <3> QED
      BY ONLY <2>2, <3>1, OnePart
  <2> QED
    BY ONLY <2>1, <2>3
<1>8. h >= NONCE_SIZE + TAG_SIZE
  BY <1>4, <1>5, SizeFact
<1>9. decrypt(b, e) = Some(SubSeq(e, NONCE_SIZE + 1, h - TAG_SIZE))
  BY ONLY <1>5, <1>6, <1>8 DEF decrypt
<1> QED
  BY ONLY <1>7, <1>9 DEF e

(* No part of what was encrypted is: its tag would begin in the plaintext.   *)
LEMMA DecryptPrefix ==
    ASSUME NEW b, b \notin Byte, NEW p \in Seq(Byte), NEW m \in Nat,
           m < Len(encrypt(b, p)), NEW S, NEW d, Part(S, d, encrypt(b, p), 0, m)
    PROVE  decrypt(b, d) = None
<1> DEFINE C == Byte \cup {b}
           e == encrypt(b, p)
<1>1. b \in C /\ p \in Seq(C)
  OBVIOUS
<1>2. Part(S, d, e, 0, m)
  OBVIOUS
<1> HIDE DEF C
<1>3. Encrypted(C, b, p, e)
  BY <1>1, EncryptShape
<1>4. m < Len(e)
  OBVIOUS
<1> HIDE DEF e
<1>5. PICK l \in Nat : Len(p) = l
  OBVIOUS
<1>6. Len(e) = NONCE_SIZE + l + TAG_SIZE /\ \A i \in 1 .. l : e[NONCE_SIZE + i] = p[i]
  BY ONLY <1>3, <1>5 DEF Encrypted
<1>7. Len(d) = m /\ \A i \in 1 .. m : d[i] = e[i]
  BY ONLY <1>2, m \in Nat DEF Part
<1>8. ASSUME m >= NONCE_SIZE + TAG_SIZE
      PROVE  d[m - TAG_SIZE + 1] # b /\ m - TAG_SIZE + 1 \in m - TAG_SIZE + 1 .. m
  <2>1. PICK j \in 1 .. l : m - TAG_SIZE + 1 = NONCE_SIZE + j
    <3>1. /\ m - TAG_SIZE + 1 - NONCE_SIZE \in 1 .. l
          /\ m - TAG_SIZE + 1 = NONCE_SIZE + (m - TAG_SIZE + 1 - NONCE_SIZE)
      BY <1>4, <1>6, <1>8, SizeFact
    <3> QED
      BY <3>1
  <2>2. m - TAG_SIZE + 1 \in 1 .. m /\ m - TAG_SIZE + 1 \in m - TAG_SIZE + 1 .. m
    BY <1>8, SizeFact
  <2>3. d[m - TAG_SIZE + 1] = p[j]
    BY ONLY <1>6, <1>7, <2>1, <2>2
  <2>4. p[j] \in Byte
    BY <1>5
  <2> QED
    BY ONLY b \notin Byte, <2>2, <2>3, <2>4
<1> QED
  BY ONLY <1>7, <1>8 DEF decrypt

-----------------------------------------------------------------------------
(* Bodies: sealed with the key of the session, if there is one. *)

(* What a stream holds: bytes, the number of a length, and what shows a key. *)
Cell == Nat \cup UNION KeyChoices

LEMMA ByteCell == Byte \subseteq Cell
BY RadixFact DEF Byte, Cell

LEMMA KeyIs ==
    ASSUME NEW k \in KeyChoices, k # None
    PROVE  The(k) \notin Byte /\ The(k) \in Cell
<1>1. PICK b \in k : k = Some(b) /\ b \notin Byte
  BY WireAssumption
<1>2. The(k) = b
  BY <1>1 DEF The, Some
<1> QED
  BY <1>1, <1>2 DEF Cell

LEMMA SealShape ==
    ASSUME NEW k \in KeyChoices, NEW p \in Seq(Byte)
    PROVE  /\ seal(k, p) \in Seq(Cell)
           /\ Len(seal(k, p)) = IF k = None THEN Len(p) ELSE NONCE_SIZE + Len(p) + TAG_SIZE
<1>1. p \in Seq(Cell)
  BY ByteCell
<1>2. CASE k = None
  BY <1>1, <1>2 DEF seal
<1>3. CASE k # None
  <2>1. Encrypted(Cell, The(k), p, encrypt(The(k), p))
    BY <1>1, <1>3, KeyIs, EncryptShape
  <2> QED
    BY ONLY <1>3, <2>1 DEF seal, Encrypted
<1> QED
  BY <1>2, <1>3

LEMMA OpenWhole ==
    ASSUME NEW k \in KeyChoices, NEW p \in Seq(Byte)
    PROVE  open(k, seal(k, p)) = Some(p)
BY DecryptWhole DEF open, seal

LEMMA OpenPart ==
    ASSUME NEW k \in KeyChoices, k # None, NEW p \in Seq(Byte), NEW m \in Nat,
           m < Len(seal(k, p)), NEW d, Part(Cell, d, seal(k, p), 0, m)
    PROVE  open(k, d) = None
<1>1. seal(k, p) = encrypt(The(k), p) /\ open(k, d) = decrypt(The(k), d)
  BY DEF seal, open
<1> QED
  BY <1>1, KeyIs, DecryptPrefix

-----------------------------------------------------------------------------
(* Frames. *)

U16s == 0 .. Radix * Radix - 1
U32s == 0 .. (Radix * Radix) * (Radix * Radix) - 1

(* The frame of a body, if it is written. *)
Frame(seq, body) == <<total_len(body)>> \o u32_bytes(seq) \o body

Framed(f, seq, body) ==
    /\ f \in Seq(Cell) /\ Len(f) = 5 + Len(body)
    /\ f[1] = total_len(body)
    /\ \A i \in 1 .. 4 : f[1 + i] = u32_bytes(seq)[i]
    /\ \A i \in 1 .. Len(body) : f[5 + i] = body[i]

LEMMA LimitFact == MAX_FRAME_SIZE \in Nat /\ U32 \in Nat /\ MAX_FRAME_SIZE < U32
BY WireAssumption

LEMMA TotalIs ==
    ASSUME NEW S, NEW body \in Seq(S)
    PROVE  /\ total_len(body) \in Nat
           /\ ~Wraps(body) => ~Overflows(body) /\ total_len(body) = 4 + Len(body)
<1>1. PICK l \in Nat : Len(body) = l
  OBVIOUS
<1>2. l % U32 \in Nat /\ (l < U32 => l % U32 = l)
  BY LimitFact
<1>3. total_len(body) = (4 + (l % U32)) % U32 /\ (Overflows(body) <=> 4 + (l % U32) >= U32)
      /\ (Wraps(body) <=> l >= U32 - 4)
  BY ONLY <1>1 DEF total_len, Overflows, Wraps
<1>4. total_len(body) \in Nat
  BY <1>2, <1>3, LimitFact
<1>5. ASSUME l < U32 - 4 PROVE 4 + (l % U32) = 4 + l /\ (4 + l) % U32 = 4 + l /\ 4 + l < U32
  BY <1>2, <1>5, LimitFact
<1> QED
  BY <1>1, <1>2, <1>3, <1>4, <1>5, LimitFact

LEMMA FrameShape ==
    ASSUME NEW seq \in U32s, NEW body \in Seq(Cell)
    PROVE  Framed(Frame(seq, body), seq, body)
<1> DEFINE h == <<total_len(body)>>
           q == u32_bytes(seq)
           f == (h \o q) \o body
<1>1. h \in Seq(Cell) /\ Len(h) = 1 /\ h[1] = total_len(body)
  BY TotalIs DEF Cell
<1>2. q \in Seq(Cell) /\ Len(q) = 4
  BY U32Kept, ByteCell DEF U32s
<1>3. Frame(seq, body) = f
  BY DEF Frame
<1> HIDE DEF h, q
<1>4. Joined(Cell, h \o q, h, q)
  BY <1>1, <1>2, ConcatJoins
<1>5. /\ h \o q \in Seq(Cell) /\ Len(h \o q) = 5 /\ (h \o q)[1] = h[1]
      /\ \A i \in 1 .. 4 : (h \o q)[1 + i] = q[i]
  BY ONLY <1>1, <1>2, <1>4 DEF Joined
<1>6. Joined(Cell, f, h \o q, body)
  BY <1>5, ConcatJoins
<1> HIDE DEF f
<1>7. /\ f \in Seq(Cell) /\ Len(f) = 5 + Len(body)
      /\ \A i \in 1 .. 5 : f[i] = (h \o q)[i]
      /\ \A i \in 1 .. Len(body) : f[5 + i] = body[i]
  BY ONLY <1>5, <1>6 DEF Joined
<1>8. f[1] = total_len(body) /\ \A i \in 1 .. 4 : f[1 + i] = q[i]
  BY ONLY <1>1, <1>5, <1>7
<1>9. Framed(f, seq, body)
  BY ONLY <1>7, <1>8 DEF Framed, q
<1> QED
  BY ONLY <1>3, <1>9

(* What is read of any part of a frame that has the frame's beginning: the   *)
(* sequence number, and as much of the body as the length says.              *)
LEMMA ReadPart ==
    ASSUME NEW seq \in U32s, NEW body \in Seq(Cell), NEW n \in Nat, NEW s,
           n <= Len(Frame(seq, body)), Part(Cell, s, Frame(seq, body), 0, n),
           NEW f \in read_response_frame(s)
    PROVE  /\ total_len(body) >= 4 /\ total_len(body) <= MAX_FRAME_SIZE
           /\ total_len(body) + 1 <= n
           /\ f = [seq |-> seq, data |-> f.data]
           /\ Part(Cell, f.data, body, 0, total_len(body) - 4)
<1> DEFINE F == Frame(seq, body)
           d == SubSeq(s, 2, Head(s) + 1)
<1>1. Framed(F, seq, body)
  BY FrameShape
<1>2. Part(Cell, s, F, 0, n) /\ n <= Len(F)
  OBVIOUS
<1> HIDE DEF F
<1>3. PICK t \in Nat : total_len(body) = t
  BY TotalIs
<1>4. PICK l \in Nat : Len(body) = l
  OBVIOUS
<1>5. /\ Len(F) = 5 + l /\ F[1] = t
      /\ \A i \in 1 .. 4 : F[1 + i] = u32_bytes(seq)[i]
      /\ \A i \in 1 .. l : F[5 + i] = body[i]
  BY ONLY <1>1, <1>3, <1>4 DEF Framed
<1>6. s \in Seq(Cell) /\ Len(s) = n /\ \A i \in 1 .. n : s[i] = F[i]
  BY <1>2 DEF Part
<1>7. /\ s # <<>> /\ ~(Head(s) > MAX_FRAME_SIZE) /\ ~(Head(s) > Len(s) - 1)
      /\ f \in parse_frame_data(d)
  BY DEF read_response_frame, None
<1>8. n >= 1 /\ Head(s) = t
  <2>1. n # 0
    BY <1>6, <1>7
  <2> QED
    BY <1>5, <1>6, <1>7, <2>1
<1>9. t <= MAX_FRAME_SIZE /\ t + 1 <= n
  BY <1>6, <1>7, <1>8, LimitFact
<1>10. Part(Cell, d, s, 1, t)
  <2>1. 1 + t <= Len(s) /\ 1 \in Nat
    BY <1>6, <1>9
  <2>2. Part(Cell, SubSeq(s, 1 + 1, 1 + t), s, 1, t)
    BY ONLY <1>6, <2>1, t \in Nat, SubSeqPart
  <2>3. d = SubSeq(s, 1 + 1, 1 + t)
    BY <1>8
  <2> QED
    BY ONLY <2>2, <2>3
<1> HIDE DEF d
<1>11. d \in Seq(Cell) /\ Len(d) = t /\ \A i \in 1 .. t : d[i] = s[1 + i]
  BY ONLY <1>10 DEF Part
<1>12. /\ t >= 4
       /\ f = [seq |-> u32_from(SubSeq(d, 1, 4)), data |-> SubSeq(d, 5, Len(d))]
  BY ONLY <1>7, <1>11, t \in Nat DEF parse_frame_data, None, Some
<1>13. SubSeq(d, 1, 4) = u32_bytes(seq)
  <2>1. u32_bytes(seq) \in Seq(Byte) /\ Len(u32_bytes(seq)) = 4
    BY U32Kept DEF U32s
  <2>2. u32_bytes(seq) \in Seq(Cell)
    BY <2>1, ByteCell
  <2>3. \A i \in 1 .. 4 : d[0 + i] = u32_bytes(seq)[i]
    BY ONLY <1>5, <1>6, <1>9, <1>11, <1>12, t \in Nat, n \in Nat
  <2>4. Part(Cell, u32_bytes(seq), d, 0, 4)
    BY ONLY <2>1, <2>2, <2>3 DEF Part
  <2>5. 0 + 4 <= Len(d) /\ 0 \in Nat /\ 4 \in Nat
    BY <1>11, <1>12
  <2>6. Part(Cell, SubSeq(d, 0 + 1, 0 + 4), d, 0, 4)
    BY ONLY <1>11, <2>5, SubSeqPart
  <2>7. SubSeq(d, 0 + 1, 0 + 4) = u32_bytes(seq)
    BY ONLY <2>4, <2>6, OnePart, Zenon
  <2> QED
    BY <2>7
<1>14. f = [seq |-> seq, data |-> SubSeq(d, 5, Len(d))]
  BY <1>12, <1>13, U32Kept DEF U32s
<1>15. Part(Cell, f.data, body, 0, t - 4)
  <2>1. PICK m \in Nat : t = 4 + m
    <3>1. t - 4 \in Nat /\ t = 4 + (t - 4)
      BY <1>12
    <3> QED
      BY <3>1
  <2>2. 4 + m <= Len(d) /\ 4 \in Nat
    BY <1>11, <2>1
  <2>3. Part(Cell, SubSeq(d, 4 + 1, 4 + m), d, 4, m)
    BY ONLY <1>11, <2>2, m \in Nat, SubSeqPart
  <2>4. f.data = SubSeq(d, 4 + 1, 4 + m)
    BY ONLY <1>11, <1>14, <2>1
  <2>5. f.data \in Seq(Cell) /\ Len(f.data) = m /\ \A i \in 1 .. m : f.data[i] = d[4 + i]
    BY ONLY <2>3, <2>4 DEF Part
  <2>6. ASSUME NEW i \in 1 .. m PROVE f.data[i] = body[0 + i]
    <3>1. 4 + i \in 1 .. t /\ 1 + (4 + i) \in 1 .. n /\ i \in 1 .. l /\ 1 + (4 + i) = 5 + i
      BY <1>2, <1>5, <1>9, <2>1
    <3>2. f.data[i] = d[4 + i]
      BY ONLY <2>5, i \in 1 .. m
    <3>3. d[4 + i] = s[1 + (4 + i)]
      BY ONLY <1>11, <3>1
    <3>4. s[1 + (4 + i)] = F[5 + i]
      BY ONLY <1>6, <3>1
    <3>5. F[5 + i] = body[i]
      BY ONLY <1>5, <3>1
    <3> QED
      BY <3>2, <3>3, <3>4, <3>5
  <2>7. t - 4 = m
    BY <2>1
  <2> QED
    BY ONLY <2>5, <2>6, <2>7 DEF Part
<1>16. f = [seq |-> seq, data |-> f.data]
  BY ONLY <1>14
<1>17. t >= 4 /\ t <= MAX_FRAME_SIZE /\ t + 1 <= n
  BY ONLY <1>9, <1>12
<1> QED
  BY ONLY <1>3, <1>15, <1>16, <1>17

(* A whole frame within the limit is read, by either reader. *)
LEMMA ReadWhole ==
    ASSUME NEW seq \in U32s, NEW body \in Seq(Cell), NEW s,
           Part(Cell, s, Frame(seq, body), 0, Len(Frame(seq, body))),
           total_len(body) <= MAX_FRAME_SIZE, ~Wraps(body)
    PROVE  read_frame(s) # None /\ read_response_frame(s) # None
<1> DEFINE F == Frame(seq, body)
           d == SubSeq(s, 2, Head(s) + 1)
<1>1. Framed(F, seq, body) /\ Part(Cell, s, F, 0, Len(F))
  BY FrameShape
<1> HIDE DEF F
<1>2. PICK l \in Nat : Len(body) = l
  OBVIOUS
<1>3. total_len(body) = 4 + l
  BY <1>2, TotalIs
<1>4. Len(F) = 5 + l /\ F[1] = 4 + l
  BY ONLY <1>1, <1>2, <1>3 DEF Framed
<1>5. s \in Seq(Cell) /\ Len(s) = 5 + l /\ s[1] = F[1]
  BY ONLY <1>1, <1>4, l \in Nat DEF Part
<1>6. s # <<>> /\ Head(s) = 4 + l
  BY <1>4, <1>5
<1>7. /\ ~(Head(s) > MAX_FRAME_SIZE) /\ ~(Head(s) < FRAME_MIN_DATA)
      /\ ~(Head(s) > Len(s) - 1)
  BY <1>3, <1>5, <1>6, LimitFact DEF FRAME_MIN_DATA
<1>8. ~(Len(d) < 4)
  <2>1. d = SubSeq(s, 2, 5 + l)
    BY <1>6
  <2>2. Len(SubSeq(s, 2, 5 + l)) = 4 + l
    BY <1>5
  <2>3. Len(d) = 4 + l
    BY ONLY <2>1, <2>2
  <2> HIDE DEF d
  <2> QED
    BY ONLY <2>3, l \in Nat
<1> HIDE DEF d
<1>9. parse_frame_data(d) # None
  BY <1>8 DEF parse_frame_data, None, Some
<1>10. read_frame(s) = parse_frame_data(d) /\ read_response_frame(s) = parse_frame_data(d)
  BY ONLY <1>6, <1>7 DEF read_frame, read_response_frame, d
<1> QED
  BY <1>9, <1>10

(* The server's reading is the client's with a lower limit. *)
LEMMA ReadFrameWithin ==
    ASSUME NEW s
    PROVE  read_frame(s) \subseteq read_response_frame(s)
BY DEF read_frame, read_response_frame, None

(* What opens is the whole body, or, without a key, the beginning of a body  *)
(* whose length wrapped; either way it is bytes.                             *)
LEMMA OpenRead ==
    ASSUME NEW k \in KeyChoices, NEW p \in Seq(Byte), NEW seq \in U32s, NEW n \in Nat, NEW s,
           n <= Len(Frame(seq, seal(k, p))), Part(Cell, s, Frame(seq, seal(k, p)), 0, n),
           NEW f \in read_response_frame(s), NEW q \in open(k, f.data)
    PROVE  /\ f.seq = seq /\ q \in Seq(Byte)
           /\ k # None \/ ~Wraps(seal(k, p)) => n = Len(Frame(seq, seal(k, p))) /\ q = p
<1> DEFINE body == seal(k, p)
           F == Frame(seq, body)
<1>1. body \in Seq(Cell)
  BY SealShape
<1>2. PICK l \in Nat : Len(body) = l
  BY <1>1
<1>3. Len(F) = 5 + l
  BY <1>1, <1>2, FrameShape DEF Framed
<1>4. n <= Len(F) /\ Part(Cell, s, F, 0, n)
  OBVIOUS
<1> HIDE DEF body
<1>5. /\ total_len(body) >= 4 /\ total_len(body) + 1 <= n
      /\ f = [seq |-> seq, data |-> f.data]
      /\ Part(Cell, f.data, body, 0, total_len(body) - 4)
  BY <1>1, <1>4, ReadPart
<1> HIDE DEF F
<1>6. PICK m \in Nat : total_len(body) - 4 = m /\ m <= l
  <2>1. total_len(body) \in Nat
    BY <1>1, TotalIs
  <2>2. total_len(body) - 4 \in Nat /\ total_len(body) - 4 <= l
    BY <1>3, <1>4, <1>5, <2>1
  <2> QED
    BY <2>2
<1>7. f.seq = seq
  BY ONLY <1>5
<1>8. Part(Cell, f.data, body, 0, m)
  BY ONLY <1>5, <1>6
<1>9. ASSUME m = l PROVE n = Len(F) /\ q = p
  <2>1. Part(Cell, body, body, 0, l)
    BY <1>1, <1>2 DEF Part
  <2>2. f.data = body
    BY ONLY <1>8, <1>9, <2>1, OnePart
  <2>3. open(k, f.data) = Some(p)
    BY <2>2, OpenWhole DEF body
  <2>4. total_len(body) \in Nat
    BY <1>1, TotalIs
  <2>5. n = Len(F)
    BY <1>3, <1>4, <1>5, <1>6, <1>9, <2>4
  <2> QED
    BY <2>3, <2>5 DEF Some
<1>10. CASE k # None
  <2>1. ASSUME m < l PROVE FALSE
    <3>1. m < Len(seal(k, p)) /\ Part(Cell, f.data, seal(k, p), 0, m)
      BY ONLY <1>2, <1>8, <2>1 DEF body
    <3>2. open(k, f.data) = None
      BY <1>10, <3>1, OpenPart
    <3> QED
      BY <3>2 DEF None
  <2>2. m = l
    BY <1>6, <2>1
  <2> QED
    BY <1>7, <1>9, <2>2 DEF body, F
<1>11. CASE k = None
  <2>1. body = p /\ q = f.data
    BY <1>11 DEF body, seal, open, Some
  <2>2. q \in Seq(Byte)
    <3>1. Len(q) = m /\ q \in Seq(Cell) /\ \A i \in 1 .. m : q[i] = p[i]
      BY ONLY <1>8, <2>1, m \in Nat DEF Part
    <3>2. \A i \in 1 .. m : p[i] \in Byte
      BY <1>2, <1>6, <2>1
    <3> QED
      BY <3>1, <3>2
  <2>3. ASSUME ~Wraps(body) PROVE m = l
    BY <1>1, <1>2, <1>6, <2>3, TotalIs
  <2> QED
    BY <1>7, <1>9, <1>11, <2>2, <2>3 DEF body, F
<1> QED
  BY <1>10, <1>11

-----------------------------------------------------------------------------
(* The inductive invariant behind the properties. *)

(* The plaintexts of a request and of a response. *)
RequestPlain(a) == u16_bytes(Opcode) \o PayloadBytes(Request(a).payload)
ResponsePlain(r) == <<r.status>> \o PayloadBytes(r.payload)

(* What the handler is called with. *)
Seen(req) ==
    [opcode |-> req.opcode, payload |-> IF req.payload = None THEN <<>> ELSE The(req.payload)]

(* A stream holds the frame of a body, all of it or less. *)
Carries(s, seq, body, whole) ==
    /\ total_len(body) <= MAX_FRAME_SIZE
    /\ \E n \in 0 .. Len(Frame(seq, body)) :
         /\ Part(Cell, s, Frame(seq, body), 0, n)
         /\ whole <=> n = Len(Frame(seq, body))

(* The answer is on its way: nothing of one that is too large. *)
Answered(s, seq, body, whole) ==
    IF total_len(body) > MAX_FRAME_SIZE THEN s = <<>> /\ whole
    ELSE Carries(s, seq, body, whole)

(* What a server may respond; Maps are the maps of the codec. *)
Responses(Maps) == [status : StatusCodes, payload : {None} \cup {Some(m) : m \in Maps}]

(* What the client reads of a stream. *)
Received(k, s) == UNION {decode_response(k, f) : f \in read_response_frame(s)}

(* Every variable has its type. *)
TypeOK(Maps) ==
    /\ phase \in {"start", "refused", "sent", "served", "done"}
    /\ key \in KeyChoices
    /\ cut \in {"none", "up", "down"}
    /\ asked = None \/ \E a \in Payloads : asked = Some(a)
    /\ resp = None \/ \E h \in Responses(Maps) : resp = Some(h)

(* What has not happened yet has left nothing behind. *)
InOrder ==
    /\ phase = "start" => asked = None
    /\ phase = "refused" => asked # None
    /\ phase \in {"start", "refused"} => cut = "none"
    /\ phase \in {"start", "refused", "sent"} => seen = None /\ resp = None /\ cut # "down"
    /\ phase # "done" => result = None
    /\ asked = None => cut = "none"

(* A caller is refused for the length of the frame only. *)
RefusedForLength ==
    phase = "refused" => \A a \in asked :
        LET body == seal(key, RequestPlain(a))
        IN total_len(body) > MAX_FRAME_SIZE \/ Overflows(body)

(* The stream to the server holds the request of the caller, or of the       *)
(* foreign client; the handler was called with what is read of it, and was   *)
(* not called only if nothing is, or if the session has expired.             *)
UpInv ==
    phase \in {"sent", "served", "done"} =>
        /\ \E p \in ForeignRequests \cup {RequestPlain(a) : a \in Payloads} :
             /\ Carries(up, Seq0, seal(key, p), cut # "up")
             /\ \A a \in asked : p = RequestPlain(a)
        /\ \A s \in seen : \E req \in read_request(key, up) : s = Seen(req)
        /\ resp = None \/ resp = Some(session_expired) \/ seen # None
             \/ read_request(key, up) = None

(* The stream to the client holds the response of the server, under the      *)
(* sequence number of the request, or of the foreign server; the call        *)
(* returned what is read of it.                                              *)
DownInv ==
    phase \in {"served", "done"} =>
        /\ \A h \in resp : Answered(down, IF seen = None THEN 0 ELSE Seq0,
                                    seal(key, ResponsePlain(h)), cut # "down")
        /\ resp = None => \E p \in ForeignAnswers :
                            Answered(down, Seq0, seal(key, p), cut # "down")
        /\ phase = "done" => result = Received(key, down)

WireInv(Maps) == TypeOK(Maps) /\ InOrder /\ RefusedForLength /\ UpInv /\ DownInv

-----------------------------------------------------------------------------
(* The types of the codec: encode_map gives bytes (Vec<u8>) for every map,   *)
(* decode_map a map for any bytes, what callers and the server build with    *)
(* set is a map, and handlers return a Response.  Nothing is said of what    *)
(* decoding gives back.                                                      *)
CodecTyped(Maps) ==
    /\ <<>> \in Maps /\ set(<<>>, <<5>>, Value("String", <<1>>)) \in Maps
    /\ \A o \in U16s : set(<<>>, <<6>>, Value("Uint16", o)) \in Maps
    /\ \A e \in UNION Payloads : SetAll(e) \in Maps
    /\ Answers \subseteq Responses(Maps)
    /\ \A m \in Maps : EncodeMap(m) \in Seq(Byte)
    /\ \A buf \in Seq(Byte) : DecodeMap(buf) \subseteq Maps

(* An option that is there has its value. *)
LEMMA TheIn == ASSUME NEW o, o # None PROVE The(o) \in o
BY DEF The, None

LEMMA PayloadTyped ==
    ASSUME NEW Maps, CodecTyped(Maps), NEW o \in SUBSET Maps
    PROVE  PayloadBytes(o) \in Seq(Byte)
BY TheIn DEF PayloadBytes, CodecTyped

LEMMA DecodeTyped ==
    ASSUME NEW Maps, CodecTyped(Maps), NEW buf \in Seq(Byte)
    PROVE  decode_map_opt(buf) \subseteq Maps
BY DEF decode_map_opt, CodecTyped, None

LEMMA RequestParts ==
    ASSUME NEW y \in Seq(Byte), NEW p, p = u16_bytes(Opcode) \o y
    PROVE  /\ p \in Seq(Byte) /\ Len(p) >= 2
           /\ u16_from(SubSeq(p, 1, 2)) = Opcode /\ SubSeq(p, 3, Len(p)) = y
<1> DEFINE o == u16_bytes(Opcode)
<1>1. o \in Seq(Byte) /\ Len(o) = 2 /\ u16_from(o) = Opcode
  BY WireAssumption, U16Kept
<1> HIDE DEF o
<1>2. Joined(Byte, p, o, y)
  BY <1>1, ConcatJoins DEF o
<1>3. PICK l \in Nat : Len(y) = l
  OBVIOUS
<1>4. /\ p \in Seq(Byte) /\ Len(p) = 2 + l
      /\ \A i \in 1 .. 2 : p[i] = o[i]
      /\ \A i \in 1 .. l : p[2 + i] = y[i]
  BY ONLY <1>1, <1>2, <1>3 DEF Joined
<1>5. SubSeq(p, 1, 2)[1] = o[1] /\ SubSeq(p, 1, 2)[2] = o[2]
  BY <1>4
<1>6. u16_from(SubSeq(p, 1, 2)) = u16_from(o)
  BY ONLY <1>5 DEF u16_from
<1>7. Part(Byte, SubSeq(p, 2 + 1, 2 + l), p, 2, l)
  <2>1. 2 + l <= Len(p) /\ 2 \in Nat
    BY <1>4
  <2> QED
    BY ONLY <1>4, <2>1, l \in Nat, SubSeqPart
<1>8. Part(Byte, y, p, 2, l)
  BY ONLY y \in Seq(Byte), <1>3, <1>4 DEF Part
<1>9. SubSeq(p, 2 + 1, 2 + l) = y
  BY ONLY <1>7, <1>8, OnePart, Zenon
<1> QED
  BY <1>1, <1>4, <1>6, <1>9

LEMMA ResponseParts ==
    ASSUME NEW y \in Seq(Byte), NEW c \in StatusCodes, NEW p, p = <<c>> \o y
    PROVE  p \in Seq(Byte) /\ p # <<>> /\ Head(p) = c /\ Tail(p) = y
<1> DEFINE h == <<c>>
<1>1. c \in Byte
  BY RadixAssumption DEF StatusCodes, Byte
<1>2. h \in Seq(Byte) /\ Len(h) = 1 /\ h[1] = c
  BY <1>1
<1>3. p = h \o y
  OBVIOUS
<1> HIDE DEF h
<1>4. Joined(Byte, p, h, y)
  BY <1>2, <1>3, ConcatJoins
<1>5. PICK l \in Nat : Len(y) = l
  OBVIOUS
<1>6. /\ p \in Seq(Byte) /\ Len(p) = 1 + l
      /\ p[1] = c /\ \A i \in 1 .. l : p[1 + i] = y[i]
  BY ONLY <1>2, <1>4, <1>5 DEF Joined
<1>7. p # <<>> /\ Head(p) = c
  BY <1>6
<1>8. Tail(p) \in Seq(Byte) /\ Len(Tail(p)) = l /\ \A i \in 1 .. l : Tail(p)[i] = y[i]
  BY ONLY <1>6, <1>7, l \in Nat
<1>9. Tail(p) = y
  BY ONLY y \in Seq(Byte), <1>5, <1>8, SeqEqual
<1> QED
  BY <1>6, <1>7, <1>9

(* The plaintext of every request is bytes and begins with the opcode. *)
LEMMA RequestPlainIs ==
    ASSUME NEW Maps, CodecTyped(Maps), NEW a \in Payloads
    PROVE  /\ RequestPlain(a) \in Seq(Byte) /\ Len(RequestPlain(a)) >= 2
           /\ u16_from(SubSeq(RequestPlain(a), 1, 2)) = Opcode
           /\ SubSeq(RequestPlain(a), 3, Len(RequestPlain(a))) = PayloadBytes(Request(a).payload)
<1>1. Request(a).payload \subseteq Maps
  BY DEF Request, CodecTyped
<1>2. PayloadBytes(Request(a).payload) \in Seq(Byte)
  BY <1>1, PayloadTyped
<1> QED
  BY <1>2, RequestParts DEF RequestPlain

(* The plaintext of every response is bytes and begins with the status. *)
LEMMA ResponsePlainIs ==
    ASSUME NEW Maps, CodecTyped(Maps),
           NEW h \in Responses(Maps)
    PROVE  /\ ResponsePlain(h) \in Seq(Byte)
           /\ ResponsePlain(h) # <<>> /\ Head(ResponsePlain(h)) = h.status
           /\ h.status \in StatusCodes
           /\ Tail(ResponsePlain(h)) = PayloadBytes(h.payload)
<1>1. h.status \in StatusCodes /\ h.payload \subseteq Maps
  BY DEF Responses, Some, None
<1>2. PayloadBytes(h.payload) \in Seq(Byte)
  BY <1>1, PayloadTyped
<1>3. ResponsePlain(h) = <<h.status>> \o PayloadBytes(h.payload)
  BY DEF ResponsePlain
<1> QED
  BY ONLY <1>1, <1>2, <1>3, ResponseParts

LEMMA BodiesAre ==
    ASSUME NEW k
    PROVE  /\ \A a : encode_request_body(k, Request(a)) = seal(k, RequestPlain(a))
           /\ \A r : encode_response_body(k, r) = seal(k, ResponsePlain(r))
BY DEF encode_request_body, encode_response_body, RequestPlain, ResponsePlain, Request

-----------------------------------------------------------------------------
(* Streams that carry a frame. *)

LEMMA FrameIs ==
    ASSUME NEW seq, NEW body
    PROVE  /\ encode_frame(seq, body) = None <=> total_len(body) > MAX_FRAME_SIZE
           /\ total_len(body) > MAX_FRAME_SIZE \/ The(encode_frame(seq, body)) = Frame(seq, body)
BY DEF encode_frame, None, Some, The, Frame

LEMMA WholeCarried ==
    ASSUME NEW seq \in U32s, NEW body \in Seq(Cell), ~(total_len(body) > MAX_FRAME_SIZE)
    PROVE  Carries(Frame(seq, body), seq, body, TRUE)
<1> DEFINE F == Frame(seq, body)
<1>1. F \in Seq(Cell)
  BY FrameShape DEF Framed
<1> HIDE DEF F
<1>2. Part(Cell, F, F, 0, Len(F)) /\ Len(F) \in 0 .. Len(F)
  BY <1>1 DEF Part
<1>3. total_len(body) <= MAX_FRAME_SIZE
  BY TotalIs, LimitFact
<1> QED
  BY <1>2, <1>3 DEF Carries, F

LEMMA CutCarried ==
    ASSUME NEW seq \in U32s, NEW body \in Seq(Cell), NEW s, Carries(s, seq, body, TRUE),
           NEW n \in 0 .. Len(s) - 1
    PROVE  Carries(SubSeq(s, 1, n), seq, body, FALSE)
<1> DEFINE F == Frame(seq, body)
<1>1. F \in Seq(Cell)
  BY FrameShape DEF Framed
<1>2. Part(Cell, s, F, 0, Len(F)) /\ total_len(body) <= MAX_FRAME_SIZE
  BY DEF Carries
<1> HIDE DEF F
<1>3. PICK l \in Nat : Len(F) = l
  BY <1>1
<1>4. s \in Seq(Cell) /\ Len(s) = l /\ \A i \in 1 .. l : s[i] = F[i]
  BY ONLY <1>2, <1>3, l \in Nat DEF Part
<1>5. n \in Nat /\ n < l /\ n \in 0 .. l /\ n # l
  BY <1>4
<1>6. /\ SubSeq(s, 1, n) \in Seq(Cell) /\ Len(SubSeq(s, 1, n)) = n
      /\ \A i \in 1 .. n : SubSeq(s, 1, n)[i] = s[i]
  BY ONLY <1>4, <1>5, l \in Nat
<1>7. Part(Cell, SubSeq(s, 1, n), F, 0, n)
  BY ONLY <1>4, <1>5, <1>6, l \in Nat DEF Part
<1> QED
  BY ONLY <1>2, <1>3, <1>5, <1>7 DEF Carries, F

(* What opens of the stream is bytes, and is what was sealed, all of it,     *)
(* except that without a key the length may have wrapped.                    *)
LEMMA CarriedOpen ==
    ASSUME NEW k \in KeyChoices, NEW p \in Seq(Byte), NEW seq \in U32s, NEW s,
           NEW whole \in BOOLEAN, Carries(s, seq, seal(k, p), whole),
           NEW f \in read_response_frame(s), NEW q \in open(k, f.data)
    PROVE  /\ f.seq = seq /\ q \in Seq(Byte)
           /\ k # None \/ ~Wraps(seal(k, p)) => whole /\ q = p
<1>1. PICK n \in 0 .. Len(Frame(seq, seal(k, p))) :
         /\ Part(Cell, s, Frame(seq, seal(k, p)), 0, n)
         /\ whole <=> n = Len(Frame(seq, seal(k, p)))
  BY DEF Carries
<1>2. seal(k, p) \in Seq(Cell)
  BY SealShape
<1>3. Len(Frame(seq, seal(k, p))) \in Nat
  BY <1>2, FrameShape DEF Framed
<1>4. n \in Nat /\ n <= Len(Frame(seq, seal(k, p)))
  BY <1>3
<1>5. /\ f.seq = seq /\ q \in Seq(Byte)
      /\ k # None \/ ~Wraps(seal(k, p)) => n = Len(Frame(seq, seal(k, p))) /\ q = p
  BY <1>1, <1>4, OpenRead
<1> QED
  BY <1>1, <1>5

(* A request that is read is the one that was sent; it has its sequence      *)
(* number, and a map of the codec, in any case.                              *)
LEMMA RequestRead ==
    ASSUME NEW Maps, CodecTyped(Maps), NEW k \in KeyChoices, NEW p \in Seq(Byte),
           NEW seq \in U32s, NEW s, NEW whole \in BOOLEAN, Carries(s, seq, seal(k, p), whole),
           NEW req \in read_request(k, s)
    PROVE  /\ req.seq = seq /\ req.payload \subseteq Maps /\ req.opcode \in U16s
           /\ k # None \/ ~Wraps(seal(k, p)) =>
                /\ whole
                /\ req.opcode = u16_from(SubSeq(p, 1, 2))
                /\ req.payload = decode_map_opt(SubSeq(p, 3, Len(p)))
<1>1. PICK f \in read_frame(s) : req \in decode_request(k, f)
  BY DEF read_request
<1>2. f \in read_response_frame(s)
  BY ReadFrameWithin
<1>3. PICK q \in open(k, f.data) :
         /\ req = [opcode |-> u16_from(SubSeq(q, 1, 2)),
                   payload |-> decode_map_opt(SubSeq(q, 3, Len(q))), seq |-> f.seq]
         /\ Len(q) >= 2
  BY <1>1 DEF decode_request
<1>4. /\ f.seq = seq /\ q \in Seq(Byte)
      /\ k # None \/ ~Wraps(seal(k, p)) => whole /\ q = p
  BY <1>2, CarriedOpen
<1>5. SubSeq(q, 3, Len(q)) \in Seq(Byte)
  BY <1>4
<1>6. req.payload \subseteq Maps
  BY <1>3, <1>5, DecodeTyped
<1>7. SubSeq(q, 1, 2) \in Seq(Byte) /\ Len(SubSeq(q, 1, 2)) = 2
  BY <1>3, <1>4
<1>8. req.opcode \in U16s
  BY <1>3, <1>7, U16Typed DEF U16s
<1> QED
  BY <1>3, <1>4, <1>6, <1>8

(* A whole frame is read as it was written, if its length did not wrap. *)
LEMMA WholeRead ==
    ASSUME NEW k \in KeyChoices, NEW p \in Seq(Byte), NEW seq \in U32s, NEW s,
           Carries(s, seq, seal(k, p), TRUE), ~Wraps(seal(k, p))
    PROVE  /\ read_frame(s) # None
           /\ \A f \in read_response_frame(s) : f.seq = seq /\ open(k, f.data) = {p}
<1> DEFINE body == seal(k, p)
           F == Frame(seq, body)
<1>1. body \in Seq(Cell)
  BY SealShape
<1>2. Part(Cell, s, F, 0, Len(F)) /\ total_len(body) <= MAX_FRAME_SIZE
  BY DEF Carries
<1>3. read_frame(s) # None
  BY <1>1, <1>2, ReadWhole
<1>4. Len(F) \in Nat /\ Len(F) <= Len(F)
  BY <1>1, FrameShape DEF Framed
<1>5. total_len(body) = 4 + Len(body)
  BY <1>1, TotalIs
<1>6. PICK l \in Nat : Len(body) = l
  BY <1>1
<1>7. total_len(body) - 4 = l
  BY ONLY <1>5, <1>6
<1>8. Part(Cell, body, body, 0, l)
  BY <1>1, <1>6 DEF Part
<1>9. ASSUME NEW f \in read_response_frame(s) PROVE f.seq = seq /\ open(k, f.data) = {p}
  <2>1. f = [seq |-> seq, data |-> f.data] /\ Part(Cell, f.data, body, 0, total_len(body) - 4)
    BY ONLY <1>1, <1>2, <1>4, <1>9, seq \in U32s, ReadPart
  <2>2. f.data = body
    BY ONLY <1>7, <1>8, <2>1, OnePart
  <2> QED
    BY <2>1, <2>2, OpenWhole DEF Some
<1> QED
  BY <1>3, <1>9

(* A whole request is read, if its length did not wrap. *)
LEMMA RequestIsRead ==
    ASSUME NEW k \in KeyChoices, NEW p \in Seq(Byte), Len(p) >= 2, NEW seq \in U32s, NEW s,
           Carries(s, seq, seal(k, p), TRUE), ~Wraps(seal(k, p))
    PROVE  read_request(k, s) # None
<1>0. read_frame(s) # None /\ \A f \in read_response_frame(s) : f.seq = seq /\ open(k, f.data) = {p}
  BY WholeRead, Zenon
<1>1. PICK f : f \in read_frame(s)
  BY <1>0 DEF None
<1>2. open(k, f.data) = {p}
  BY <1>0, <1>1, ReadFrameWithin
<1>3. decode_request(k, f) # {}
  BY <1>2 DEF decode_request
<1> QED
  BY <1>1, <1>3 DEF read_request, None

(* What the client makes of a whole answer, if its length did not wrap. *)
LEMMA ResponseIsRead ==
    ASSUME NEW k \in KeyChoices, NEW p \in Seq(Byte), NEW seq \in U32s, NEW s,
           Carries(s, seq, seal(k, p), TRUE), ~Wraps(seal(k, p))
    PROVE  Received(k, s) =
              IF p # <<>> /\ Head(p) \in StatusCodes
              THEN {[status |-> Head(p), payload |-> decode_map_opt(Tail(p)), seq |-> seq]}
              ELSE None
<1> DEFINE R == IF p # <<>> /\ Head(p) \in StatusCodes
                THEN {[status |-> Head(p), payload |-> decode_map_opt(Tail(p)), seq |-> seq]}
                ELSE None
<1>0. read_frame(s) # None /\ \A f \in read_response_frame(s) : f.seq = seq /\ open(k, f.data) = {p}
  BY WholeRead, Zenon
<1>1. PICK f : f \in read_response_frame(s)
  BY <1>0, ReadFrameWithin DEF None
<1>2. ASSUME NEW g \in read_response_frame(s) PROVE decode_response(k, g) = R
  <2>1. g.seq = seq /\ open(k, g.data) = {p}
    BY <1>0
  <2> QED
    BY <2>1 DEF decode_response, None
<1> HIDE DEF R
<1>3. Received(k, s) = R
  BY <1>1, <1>2 DEF Received
<1> QED
  BY <1>3 DEF R

(* A response that is read is the one that was sent. *)
LEMMA ResponseRead ==
    ASSUME NEW k \in KeyChoices, NEW p \in Seq(Byte),
           NEW seq \in U32s, NEW s, NEW whole \in BOOLEAN, Carries(s, seq, seal(k, p), whole),
           NEW f \in read_response_frame(s), NEW r \in decode_response(k, f),
           k # None \/ ~Wraps(seal(k, p))
    PROVE  whole /\ r = [status |-> Head(p), payload |-> decode_map_opt(Tail(p)), seq |-> seq]
<1>1. PICK q \in open(k, f.data) :
         r = [status |-> Head(q), payload |-> decode_map_opt(Tail(q)), seq |-> f.seq]
  BY DEF decode_response
<1>2. f.seq = seq /\ (k # None \/ ~Wraps(seal(k, p)) => whole /\ q = p)
  BY CarriedOpen
<1> QED
  BY <1>1, <1>2

-----------------------------------------------------------------------------
(* The invariant is inductive. *)

LEMMA SeqFact == 0 \in U32s /\ Seq0 \in U32s
<1>1. PICK d \in Nat \ {0} : d = Radix * Radix
  BY RadixFact
<1>2. d * d \in Nat \ {0}
  BY SMT
<1>3. 0 \in 0 .. d * d - 1
  BY <1>2
<1> QED
  BY ONLY <1>1, <1>3, WireAssumption DEF U32s

LEMMA ForeignFits ==
    ASSUME NEW k \in KeyChoices, NEW p \in ForeignRequests \cup ForeignAnswers
    PROVE  /\ p \in Seq(Byte) /\ seal(k, p) \in Seq(Cell)
           /\ ~Wraps(seal(k, p)) /\ ~(total_len(seal(k, p)) > MAX_FRAME_SIZE)
<1>1. p \in Seq(Byte) /\ Len(p) <= max_safe_payload
  BY WireAssumption
<1>2. PICK l \in Nat : Len(p) = l
  BY <1>1
<1>3. l <= MAX_FRAME_SIZE - 32
  BY ONLY <1>1, <1>2 DEF max_safe_payload, FRAME_OVERHEAD, NONCE_SIZE, TAG_SIZE
<1>4. seal(k, p) \in Seq(Cell) /\ Len(seal(k, p)) = IF k = None THEN l ELSE 12 + l + 16
  BY <1>1, <1>2, SealShape DEF NONCE_SIZE, TAG_SIZE
<1>5. PICK m \in Nat : Len(seal(k, p)) = m /\ m <= l + 28
  BY <1>4
<1>6. ~Wraps(seal(k, p))
  BY <1>3, <1>5, LimitFact DEF Wraps
<1>7. total_len(seal(k, p)) = 4 + m
  BY <1>4, <1>5, <1>6, TotalIs
<1> QED
  BY <1>1, <1>3, <1>4, <1>5, <1>6, <1>7, LimitFact

LEMMA PlainTyped ==
    ASSUME NEW Maps, CodecTyped(Maps),
           NEW p \in ForeignRequests \cup {RequestPlain(a) : a \in Payloads}
    PROVE  p \in Seq(Byte)
BY RequestPlainIs, WireAssumption

(* What the server has responded is on its way. *)
LEMMA Responded ==
    ASSUME NEW Maps, CodecTyped(Maps), key \in KeyChoices, NEW h \in Responses(Maps),
           NEW seq \in U32s, Respond(seq, h), key' = key, cut' # "down"
    PROVE  Answered(down', seq, seal(key', ResponsePlain(h)), cut' # "down")
<1> DEFINE body == seal(key, ResponsePlain(h))
<1>1. ResponsePlain(h) \in Seq(Byte)
  BY ResponsePlainIs
<1>2. body \in Seq(Cell)
  BY <1>1, SealShape
<1>3. down' = IF encode_frame(seq, body) = None THEN <<>> ELSE The(encode_frame(seq, body))
  BY BodiesAre DEF Respond
<1>4. seal(key', ResponsePlain(h)) = body
  OBVIOUS
<1> HIDE DEF body
<1>5. CASE total_len(body) > MAX_FRAME_SIZE
  <2>1. down' = <<>>
    BY <1>3, <1>5, FrameIs
  <2> QED
    BY <1>4, <1>5, <2>1 DEF Answered
<1>6. CASE ~(total_len(body) > MAX_FRAME_SIZE)
  <2>1. down' = Frame(seq, body)
    BY <1>3, <1>6, FrameIs
  <2>2. Carries(down', seq, body, TRUE)
    BY <1>2, <1>6, <2>1, WholeCarried
  <2> QED
    BY <1>4, <1>6, <2>2 DEF Answered, Carries
<1> QED
  BY <1>5, <1>6

LEMMA WireInit ==
    ASSUME NEW Maps, CodecTyped(Maps), Init
    PROVE  WireInv(Maps)
BY DEF Init, WireInv, TypeOK, InOrder, RefusedForLength, UpInv, DownInv, None

LEMMA CallInv ==
    ASSUME NEW Maps, CodecTyped(Maps), WireInv(Maps), NEW a \in Payloads, Call(a)
    PROVE  WireInv(Maps)'
<1> DEFINE body == seal(key, RequestPlain(a))
<1>1. key \in KeyChoices /\ phase = "start" /\ cut = "none" /\ seen = None /\ resp = None
      /\ result = None
  BY DEF WireInv, TypeOK, InOrder, Call
<1>2. /\ key' = key /\ cut' = cut /\ seen' = seen /\ resp' = resp /\ result' = result
      /\ asked' = Some(a)
  BY DEF Call
<1>3. body \in Seq(Cell)
  BY <1>1, RequestPlainIs, SealShape
<1>4. encode_request_body(key, Request(a)) = body
  BY BodiesAre
<1>5. \/ encode_frame(Seq0, body) # None /\ up' = The(encode_frame(Seq0, body)) /\ phase' = "sent"
      \/ (encode_frame(Seq0, body) = None \/ Overflows(body)) /\ phase' = "refused"
  BY <1>4 DEF Call
<1>6. TypeOK(Maps)'
  BY <1>1, <1>2, <1>5 DEF TypeOK, None
<1>7. InOrder'
  BY <1>1, <1>2, <1>5 DEF InOrder, None, Some
<1>8. RefusedForLength'
  <2>1. SUFFICES ASSUME phase' = "refused", NEW c \in asked'
                 PROVE  (LET b == seal(key, RequestPlain(c))
                         IN total_len(b) > MAX_FRAME_SIZE \/ Overflows(b))'
    BY DEF RefusedForLength
  <2>2. c = a
    BY <1>2 DEF Some
  <2>3. total_len(body) > MAX_FRAME_SIZE \/ Overflows(body)
    BY <1>5, <2>1, FrameIs
  <2> QED
    BY <1>2, <2>2, <2>3
<1>9. UpInv'
  <2>1. SUFFICES ASSUME phase' = "sent"
                 PROVE  Carries(up', Seq0, body, TRUE)
    <3>1. phase' \in {"sent", "served", "done"} => phase' = "sent"
      BY <1>5
    <3>2. Carries(up', Seq0, body, TRUE) => Carries(up', Seq0, seal(key', RequestPlain(a)), cut' # "up")
      BY <1>1, <1>2 DEF Carries
    <3>3. \A c \in asked' : RequestPlain(a) = RequestPlain(c)
      BY <1>2 DEF Some
    <3> QED
      BY <1>1, <1>2, <3>1, <3>2, <3>3 DEF UpInv, None
  <2>2. up' = Frame(Seq0, body) /\ ~(total_len(body) > MAX_FRAME_SIZE)
    BY <1>5, <2>1, FrameIs
  <2> QED
    BY <1>3, <2>2, SeqFact, WholeCarried
<1>10. DownInv'
  BY <1>5 DEF DownInv
<1> QED
  BY <1>6, <1>7, <1>8, <1>9, <1>10 DEF WireInv

LEMMA ForeignCallInv ==
    ASSUME NEW Maps, CodecTyped(Maps), WireInv(Maps), NEW p \in ForeignRequests, ForeignCall(p)
    PROVE  WireInv(Maps)'
<1> DEFINE body == seal(key, p)
<1>1. key \in KeyChoices /\ phase = "start" /\ cut = "none" /\ seen = None /\ resp = None
      /\ result = None /\ asked = None
  BY DEF WireInv, TypeOK, InOrder, ForeignCall
<1>2. /\ key' = key /\ cut' = cut /\ seen' = seen /\ resp' = resp /\ result' = result
      /\ asked' = asked /\ phase' = "sent" /\ up' = The(encode_frame(Seq0, body))
  BY DEF ForeignCall
<1>3. body \in Seq(Cell) /\ ~(total_len(body) > MAX_FRAME_SIZE)
  BY <1>1, ForeignFits
<1>4. Carries(up', Seq0, body, TRUE)
  BY <1>2, <1>3, FrameIs, SeqFact, WholeCarried
<1>5. TypeOK(Maps)' /\ InOrder' /\ RefusedForLength'
  BY <1>1, <1>2 DEF TypeOK, InOrder, RefusedForLength, None
<1>6. UpInv'
  <2>1. Carries(up', Seq0, seal(key', p), cut' # "up")
    BY <1>1, <1>2, <1>4 DEF Carries
  <2> QED
    BY <1>1, <1>2, <2>1 DEF UpInv, None
<1>7. DownInv'
  BY <1>2 DEF DownInv
<1> QED
  BY <1>5, <1>6, <1>7 DEF WireInv

LEMMA CutUpInv ==
    ASSUME NEW Maps, CodecTyped(Maps), WireInv(Maps), CutUp
    PROVE  WireInv(Maps)'
<1>1. /\ key \in KeyChoices /\ phase = "sent" /\ cut = "none" /\ seen = None /\ resp = None
      /\ asked # None
  BY DEF WireInv, TypeOK, InOrder, CutUp
<1>2. /\ key' = key /\ phase' = phase /\ seen' = seen /\ resp' = resp /\ result' = result
      /\ asked' = asked /\ cut' = "up"
  BY DEF CutUp
<1>3. PICK n \in 0 .. Len(up) - 1 : up' = SubSeq(up, 1, n)
  BY DEF CutUp
<1>4. PICK p \in ForeignRequests \cup {RequestPlain(a) : a \in Payloads} :
         Carries(up, Seq0, seal(key, p), cut # "up") /\ \A a \in asked : p = RequestPlain(a)
  BY <1>1 DEF WireInv, UpInv
<1>5. seal(key, p) \in Seq(Cell)
  BY <1>1, PlainTyped, SealShape
<1>6. Carries(up, Seq0, seal(key, p), TRUE)
  BY <1>1, <1>4 DEF Carries
<1>7. Carries(up', Seq0, seal(key, p), FALSE)
  BY <1>3, <1>5, <1>6, SeqFact, CutCarried
<1>8. Carries(up', Seq0, seal(key', p), cut' # "up")
  BY <1>2, <1>7 DEF Carries
<1>9. TypeOK(Maps)' /\ InOrder' /\ RefusedForLength' /\ DownInv'
  BY <1>1, <1>2 DEF WireInv, TypeOK, InOrder, RefusedForLength, DownInv
<1>10. UpInv'
  BY <1>1, <1>2, <1>4, <1>8 DEF UpInv, None
<1> QED
  BY <1>9, <1>10 DEF WireInv

LEMMA CutDownInv ==
    ASSUME NEW Maps, CodecTyped(Maps), WireInv(Maps), CutDown
    PROVE  WireInv(Maps)'
<1>1. /\ key \in KeyChoices /\ phase = "served" /\ cut = "none" /\ asked # None /\ down # <<>>
      /\ result = None
  BY DEF WireInv, TypeOK, InOrder, CutDown
<1>2. /\ key' = key /\ phase' = phase /\ seen' = seen /\ resp' = resp /\ result' = result
      /\ asked' = asked /\ cut' = "down" /\ up' = up
  BY DEF CutDown
<1>3. PICK n \in 0 .. Len(down) - 1 : down' = SubSeq(down, 1, n)
  BY DEF CutDown
<1>4. ASSUME NEW seq \in U32s, NEW p \in Seq(Byte), Answered(down, seq, seal(key, p), cut # "down")
      PROVE  Answered(down', seq, seal(key', p), cut' # "down")
  <2>1. seal(key, p) \in Seq(Cell)
    BY <1>1, SealShape
  <2>2. ~(total_len(seal(key, p)) > MAX_FRAME_SIZE) /\ Carries(down, seq, seal(key, p), cut # "down")
    BY <1>1, <1>4 DEF Answered
  <2>3. Carries(down, seq, seal(key, p), TRUE)
    BY <1>1, <2>2 DEF Carries
  <2>4. Carries(down', seq, seal(key, p), FALSE)
    BY <1>3, <2>1, <2>3, CutCarried
  <2>5. Carries(down', seq, seal(key', p), cut' # "down")
    BY <1>2, <2>4 DEF Carries
  <2> QED
    BY <1>2, <2>2, <2>5 DEF Answered
<1>5. TypeOK(Maps)' /\ InOrder' /\ RefusedForLength'
  BY <1>1, <1>2 DEF WireInv, TypeOK, InOrder, RefusedForLength
<1>6. UpInv'
  <2>1. PICK p \in ForeignRequests \cup {RequestPlain(a) : a \in Payloads} :
           Carries(up, Seq0, seal(key, p), cut # "up") /\ \A a \in asked : p = RequestPlain(a)
    BY <1>1 DEF WireInv, UpInv
  <2>2. Carries(up', Seq0, seal(key', p), cut' # "up")
    BY <1>1, <1>2, <2>1 DEF Carries
  <2>3. /\ \A s \in seen' : \E req \in read_request(key', up') : s = Seen(req)
        /\ resp' = None \/ resp' = Some(session_expired) \/ seen' # None
             \/ read_request(key', up') = None
    BY <1>1, <1>2 DEF WireInv, UpInv
  <2> QED
    BY <1>2, <2>1, <2>2, <2>3 DEF UpInv
<1>7. DownInv'
  <2>1. ASSUME NEW h \in resp
        PROVE  Answered(down', IF seen = None THEN 0 ELSE Seq0, seal(key', ResponsePlain(h)),
                        cut' # "down")
    <3>1. Answered(down, IF seen = None THEN 0 ELSE Seq0, seal(key, ResponsePlain(h)),
                   cut # "down")
      BY <1>1 DEF WireInv, DownInv
    <3>2. h \in Responses(Maps)
      BY DEF WireInv, TypeOK, None, Some
    <3>3. ResponsePlain(h) \in Seq(Byte)
      BY <3>2, ResponsePlainIs
    <3>4. (IF seen = None THEN 0 ELSE Seq0) \in U32s
      BY SeqFact
    <3> QED
      BY <1>4, <3>1, <3>3, <3>4
  <2>2. resp = None => \E p \in ForeignAnswers : Answered(down', Seq0, seal(key', p), cut' # "down")
    <3>1. SUFFICES ASSUME resp = None
                   PROVE  \E p \in ForeignAnswers : Answered(down', Seq0, seal(key', p), cut' # "down")
      OBVIOUS
    <3>2. PICK p \in ForeignAnswers : Answered(down, Seq0, seal(key, p), cut # "down")
      BY <1>1, <3>1 DEF WireInv, DownInv
    <3>3. p \in Seq(Byte)
      BY WireAssumption
    <3>4. Answered(down', Seq0, seal(key', p), cut' # "down")
      BY <1>4, <3>2, <3>3, SeqFact
    <3> QED
      BY <3>4
  <2> QED
    BY <1>1, <1>2, <2>1, <2>2 DEF DownInv, None
<1> QED
  BY <1>5, <1>6, <1>7 DEF WireInv

LEMMA ResponsesAre ==
    ASSUME NEW Maps, CodecTyped(Maps)
    PROVE  /\ error_response(BadRequest) \in Responses(Maps)
           /\ error_response(InternalError) \in Responses(Maps)
           /\ session_expired \in Responses(Maps)
           /\ \A o \in U16s : not_found(o) \in Responses(Maps)
           /\ \A m \in Maps : new_response(m) \in Responses(Maps)
<1>1. {BadRequest, InternalError, Success, SessionExpired, NotFound} \subseteq StatusCodes
  BY DEF BadRequest, InternalError, Success, SessionExpired, NotFound, StatusCodes
<1> QED
  BY <1>1 DEF error_response, session_expired, not_found, new_response, Responses, CodecTyped

(* Serving keeps the request where it is. *)
LEMMA SentKept ==
    ASSUME NEW Maps, WireInv(Maps), phase \in {"sent", "served", "done"},
           key' = key, up' = up, cut' = cut, asked' = asked
    PROVE  \E p \in ForeignRequests \cup {RequestPlain(a) : a \in Payloads} :
             /\ Carries(up', Seq0, seal(key', p), cut' # "up")
             /\ \A a \in asked' : p = RequestPlain(a)
BY DEF WireInv, UpInv

(* A response without a handler: its sequence number is 0. *)
LEMMA UnaskedInv ==
    ASSUME NEW Maps, CodecTyped(Maps), WireInv(Maps), NEW h \in Responses(Maps),
           phase = "sent", h = session_expired \/ read_request(key, up) = None,
           Respond(0, h), resp' = Some(h), phase' = "served",
           UNCHANGED <<key, asked, cut, up, seen, result>>
    PROVE  WireInv(Maps)'
<1>1. /\ key \in KeyChoices /\ cut # "down" /\ seen = None /\ result = None
      /\ (asked = None => cut = "none")
  BY DEF WireInv, TypeOK, InOrder
<1>2. /\ key' = key /\ asked' = asked /\ cut' = cut /\ up' = up /\ seen' = seen
      /\ result' = result
  OBVIOUS
<1>3. Answered(down', 0, seal(key', ResponsePlain(h)), cut' # "down")
  BY <1>1, <1>2, SeqFact, Responded
<1>4. TypeOK(Maps)'
  BY <1>1, <1>2 DEF WireInv, TypeOK
<1>5. InOrder' /\ RefusedForLength'
  BY <1>1, <1>2 DEF InOrder, RefusedForLength
<1>6. UpInv'
  <2>1. \E p \in ForeignRequests \cup {RequestPlain(a) : a \in Payloads} :
          /\ Carries(up', Seq0, seal(key', p), cut' # "up")
          /\ \A a \in asked' : p = RequestPlain(a)
    BY <1>1, <1>2, SentKept
  <2> QED
    BY <1>1, <1>2, <2>1 DEF UpInv, None
<1>7. DownInv'
  <2>1. resp' # None /\ \A g \in resp' : g = h
    BY DEF Some, None
  <2>2. (IF seen' = None THEN 0 ELSE Seq0) = 0
    BY <1>1, <1>2
  <2>3. \A g \in resp' : Answered(down', IF seen' = None THEN 0 ELSE Seq0,
                                  seal(key', ResponsePlain(g)), cut' # "down")
    BY <1>3, <2>1, <2>2
  <2> QED
    BY <2>1, <2>3 DEF DownInv
<1> QED
  BY <1>4, <1>5, <1>6, <1>7 DEF WireInv

LEMMA ExpireInv ==
    ASSUME NEW Maps, CodecTyped(Maps), WireInv(Maps), Expire
    PROVE  WireInv(Maps)'
BY ResponsesAre, UnaskedInv DEF Expire

LEMMA RefuseInv ==
    ASSUME NEW Maps, CodecTyped(Maps), WireInv(Maps), Refuse
    PROVE  WireInv(Maps)'
BY ResponsesAre, UnaskedInv DEF Refuse

LEMMA HandleInv ==
    ASSUME NEW Maps, CodecTyped(Maps), WireInv(Maps), Handle
    PROVE  WireInv(Maps)'
<1>1. /\ key \in KeyChoices /\ phase = "sent" /\ cut # "down" /\ result = None
      /\ (asked = None => cut = "none")
  BY DEF WireInv, TypeOK, InOrder, Handle
<1>2. /\ key' = key /\ asked' = asked /\ cut' = cut /\ up' = up
      /\ result' = result /\ phase' = "served"
  BY DEF Handle
<1>3. PICK req \in read_request(key, up) :
         LET m == IF req.payload = None THEN <<>> ELSE The(req.payload) IN
         /\ seen' = Some([opcode |-> req.opcode, payload |-> m])
         /\ \E r \in {new_response(m), error_response(InternalError),
                      error_response(BadRequest), not_found(req.opcode)} \cup Answers :
              /\ resp' = Some(r)
              /\ Respond(req.seq, r)
  BY DEF Handle
<1> DEFINE m == IF req.payload = None THEN <<>> ELSE The(req.payload)
<1>4. PICK p \in ForeignRequests \cup {RequestPlain(a) : a \in Payloads} :
         Carries(up, Seq0, seal(key, p), cut # "up")
  BY <1>1 DEF WireInv, UpInv
<1>5. p \in Seq(Byte)
  BY PlainTyped
<1>6. req.seq = Seq0 /\ req.payload \subseteq Maps /\ req.opcode \in U16s
  <2>1. PICK w \in BOOLEAN : Carries(up, Seq0, seal(key, p), w)
    BY <1>4 DEF Carries
  <2> QED
    BY <1>1, <1>5, <2>1, SeqFact, RequestRead
<1>7. m \in Maps
  BY <1>6, TheIn DEF CodecTyped
<1>8. PICK h \in {new_response(m), error_response(InternalError),
                  error_response(BadRequest), not_found(req.opcode)} \cup Answers :
         resp' = Some(h) /\ Respond(req.seq, h)
  BY <1>3
<1>9. h \in Responses(Maps)
  <2>1. Answers \subseteq Responses(Maps)
    BY DEF CodecTyped
  <2> QED
    BY <1>6, <1>7, <2>1, ResponsesAre
<1>10. seen' = Some(Seen(req)) /\ seen' # None
  BY <1>3 DEF Seen, Some, None
<1>11. Answered(down', Seq0, seal(key', ResponsePlain(h)), cut' # "down")
  BY <1>1, <1>2, <1>6, <1>8, <1>9, SeqFact, Responded
<1>12. TypeOK(Maps)'
  BY <1>1, <1>2, <1>8, <1>9 DEF WireInv, TypeOK
<1>13. InOrder' /\ RefusedForLength'
  BY <1>1, <1>2 DEF InOrder, RefusedForLength
<1>14. UpInv'
  <2>1. \E q \in ForeignRequests \cup {RequestPlain(a) : a \in Payloads} :
          /\ Carries(up', Seq0, seal(key', q), cut' # "up")
          /\ \A a \in asked' : q = RequestPlain(a)
    BY <1>1, <1>2, SentKept
  <2>2. \A s \in seen' : \E r \in read_request(key', up') : s = Seen(r)
    BY <1>2, <1>3, <1>10 DEF Some
  <2> QED
    BY <1>10, <2>1, <2>2 DEF UpInv
<1>15. DownInv'
  <2>1. resp' # None /\ \A g \in resp' : g = h
    BY <1>8 DEF Some, None
  <2>2. (IF seen' = None THEN 0 ELSE Seq0) = Seq0
    BY <1>10
  <2>3. \A g \in resp' : Answered(down', IF seen' = None THEN 0 ELSE Seq0,
                                  seal(key', ResponsePlain(g)), cut' # "down")
    BY <1>11, <2>1, <2>2
  <2> QED
    BY <1>2, <2>1, <2>3 DEF DownInv
<1> QED
  BY <1>12, <1>13, <1>14, <1>15 DEF WireInv

LEMMA ForeignAnswerInv ==
    ASSUME NEW Maps, CodecTyped(Maps), WireInv(Maps), NEW p \in ForeignAnswers, ForeignAnswer(p)
    PROVE  WireInv(Maps)'
<1> DEFINE body == seal(key, p)
<1>1. /\ key \in KeyChoices /\ phase = "sent" /\ cut # "down" /\ seen = None /\ resp = None
      /\ result = None /\ (asked = None => cut = "none")
  BY DEF WireInv, TypeOK, InOrder, ForeignAnswer
<1>2. /\ key' = key /\ asked' = asked /\ cut' = cut /\ up' = up /\ seen' = seen /\ resp' = resp
      /\ result' = result /\ phase' = "served" /\ down' = The(encode_frame(Seq0, body))
  BY DEF ForeignAnswer
<1>3. body \in Seq(Cell) /\ ~(total_len(body) > MAX_FRAME_SIZE)
  BY <1>1, ForeignFits
<1>4. Carries(down', Seq0, body, TRUE)
  BY <1>2, <1>3, FrameIs, SeqFact, WholeCarried
<1>5. Answered(down', Seq0, seal(key', p), cut' # "down")
  BY <1>1, <1>2, <1>3, <1>4 DEF Answered, Carries
<1>6. TypeOK(Maps)' /\ InOrder' /\ RefusedForLength'
  BY <1>1, <1>2 DEF WireInv, TypeOK, InOrder, RefusedForLength
<1>7. UpInv'
  <2>1. \E q \in ForeignRequests \cup {RequestPlain(a) : a \in Payloads} :
          /\ Carries(up', Seq0, seal(key', q), cut' # "up")
          /\ \A a \in asked' : q = RequestPlain(a)
    BY <1>1, <1>2, SentKept
  <2> QED
    BY <1>1, <1>2, <2>1 DEF UpInv, None
<1>8. DownInv'
  BY <1>1, <1>2, <1>5 DEF DownInv, None
<1> QED
  BY <1>6, <1>7, <1>8 DEF WireInv

LEMMA ReceiveInv ==
    ASSUME NEW Maps, CodecTyped(Maps), WireInv(Maps), Receive
    PROVE  WireInv(Maps)'
<1>1. phase = "served"
  BY DEF Receive
<1>2. /\ key' = key /\ asked' = asked /\ cut' = cut /\ up' = up /\ seen' = seen /\ resp' = resp
      /\ down' = down /\ phase' = "done"
      /\ result' = UNION {decode_response(key, f) : f \in read_response_frame(down)}
  BY DEF Receive
<1>3. TypeOK(Maps)' /\ InOrder' /\ RefusedForLength'
  BY <1>1, <1>2 DEF WireInv, TypeOK, InOrder, RefusedForLength
<1>4. UpInv'
  BY <1>1, <1>2 DEF WireInv, UpInv
<1>5. result' = Received(key', down')
  BY <1>2 DEF Received
<1>6. DownInv'
  BY <1>1, <1>2, <1>5 DEF WireInv, DownInv
<1> QED
  BY <1>3, <1>4, <1>6 DEF WireInv

LEMMA WireStep ==
    ASSUME NEW Maps, CodecTyped(Maps), WireInv(Maps), [Next]_vars
    PROVE  WireInv(Maps)'
<1>1. CASE Next
  BY <1>1, CallInv, ForeignCallInv, ForeignAnswerInv, CutUpInv, CutDownInv, RefuseInv,
     ExpireInv, HandleInv, ReceiveInv DEF Next
<1>2. CASE UNCHANGED vars
  BY <1>2 DEF vars, WireInv, TypeOK, InOrder, RefusedForLength, UpInv, DownInv
<1> QED
  BY <1>1, <1>2

(* Every reachable state of the call satisfies the invariant: what is on     *)
(* either stream, how much of it, and what was read of it.                   *)
THEOREM WireInductive ==
    ASSUME NEW Maps, CodecTyped(Maps)
    PROVE  Spec => []WireInv(Maps)
<1>1. Init => WireInv(Maps)
  BY WireInit
<1>2. WireInv(Maps) /\ [Next]_vars => WireInv(Maps)'
  BY WireStep
<1> QED
  BY <1>1, <1>2, PTL DEF Spec

-----------------------------------------------------------------------------
(* The properties. *)

(* What the caller sent and the handler saw. *)
LEMMA SeenIs ==
    ASSUME NEW Maps, CodecTyped(Maps), WireInv(Maps), NEW s \in seen, NEW a \in asked,
           key # None \/ ~Wraps(seal(key, RequestPlain(a)))
    PROVE  /\ cut # "up"
           /\ s = [opcode |-> Opcode,
                   payload |-> LET got == decode_map_opt(PayloadBytes(Request(a).payload))
                               IN IF got = None THEN <<>> ELSE The(got)]
<1>1. key \in KeyChoices /\ a \in Payloads /\ phase \in {"served", "done"}
  BY DEF WireInv, TypeOK, InOrder, None, Some
<1>2. Carries(up, Seq0, seal(key, RequestPlain(a)), cut # "up")
  BY <1>1 DEF WireInv, UpInv
<1>3. PICK req \in read_request(key, up) : s = Seen(req)
  BY <1>1 DEF WireInv, UpInv
<1>4. PICK w \in BOOLEAN : w = (cut # "up") /\ Carries(up, Seq0, seal(key, RequestPlain(a)), w)
  BY <1>2 DEF Carries
<1>5. RequestPlain(a) \in Seq(Byte)
  BY <1>1, RequestPlainIs
<1>6. /\ w /\ req.opcode = u16_from(SubSeq(RequestPlain(a), 1, 2))
      /\ req.payload = decode_map_opt(SubSeq(RequestPlain(a), 3, Len(RequestPlain(a))))
  BY <1>1, <1>3, <1>4, <1>5, SeqFact, RequestRead
<1>7. req.opcode = Opcode /\ req.payload = decode_map_opt(PayloadBytes(Request(a).payload))
  BY <1>1, <1>6, RequestPlainIs
<1> QED
  BY <1>3, <1>4, <1>6, <1>7 DEF Seen

(* What the handler returned and the call returned. *)
LEMMA ResultIs ==
    ASSUME NEW Maps, CodecTyped(Maps), WireInv(Maps), NEW r \in result, NEW h \in resp,
           key # None \/ ~Wraps(seal(key, ResponsePlain(h)))
    PROVE  /\ cut # "down"
           /\ r = [status |-> h.status, payload |-> decode_map_opt(PayloadBytes(h.payload)),
                   seq |-> IF seen = None THEN 0 ELSE Seq0]
<1> DEFINE seq == IF seen = None THEN 0 ELSE Seq0
           p == ResponsePlain(h)
<1>1. key \in KeyChoices /\ h \in Responses(Maps) /\ phase = "done"
  BY DEF WireInv, TypeOK, InOrder, None, Some
<1>2. Answered(down, seq, seal(key, p), cut # "down")
  BY <1>1 DEF WireInv, DownInv
<1>3. PICK f \in read_response_frame(down) : r \in decode_response(key, f)
  BY <1>1 DEF WireInv, DownInv, Received
<1>4. ~(total_len(seal(key, p)) > MAX_FRAME_SIZE)
  BY <1>2, <1>3 DEF Answered, read_response_frame, None
<1>5. PICK w \in BOOLEAN : w = (cut # "down") /\ Carries(down, seq, seal(key, p), w)
  BY <1>2, <1>4 DEF Answered, Carries
<1>6. /\ p \in Seq(Byte) /\ Head(p) = h.status /\ Tail(p) = PayloadBytes(h.payload)
  BY <1>1, ResponsePlainIs
<1>7. seq \in U32s
  BY SeqFact
<1>8. key # None \/ ~Wraps(seal(key, p))
  OBVIOUS
<1> HIDE DEF p, seq
<1>9. w /\ r = [status |-> Head(p), payload |-> decode_map_opt(Tail(p)), seq |-> seq]
  BY <1>1, <1>3, <1>5, <1>6, <1>7, <1>8, ResponseRead
<1> QED
  BY <1>5, <1>6, <1>9 DEF seq

(* A response that was written, and arrived whole, is returned. *)
LEMMA ResultThere ==
    ASSUME NEW Maps, CodecTyped(Maps), WireInv(Maps), NEW h \in resp,
           phase = "done", cut # "down", down # <<>>, ~Wraps(seal(key, ResponsePlain(h)))
    PROVE  result # None
<1> DEFINE seq == IF seen = None THEN 0 ELSE Seq0
           p == ResponsePlain(h)
<1>1. key \in KeyChoices /\ h \in Responses(Maps) /\ result = Received(key, down)
  BY DEF WireInv, TypeOK, DownInv, None, Some
<1>2. Answered(down, seq, seal(key, p), cut # "down")
  BY DEF WireInv, DownInv
<1>3. Carries(down, seq, seal(key, p), TRUE)
  BY <1>2 DEF Answered, Carries
<1>4. p \in Seq(Byte) /\ p # <<>> /\ Head(p) \in StatusCodes
  BY <1>1, ResponsePlainIs
<1>5. seq \in U32s
  BY SeqFact
<1>6. ~Wraps(seal(key, p))
  OBVIOUS
<1> HIDE DEF p, seq
<1>7. Received(key, down) # None
  BY <1>1, <1>3, <1>4, <1>5, <1>6, ResponseIsRead DEF None
<1> QED
  BY <1>1, <1>7

(* What the client makes of the answer of another implementation. *)
LEMMA ForeignIs ==
    ASSUME NEW Maps, CodecTyped(Maps), WireInv(Maps), NEW p \in ForeignAnswers,
           phase = "done", down = The(encode_frame(Seq0, seal(key, p)))
    PROVE  result = IF p # <<>> /\ Head(p) \in StatusCodes
                    THEN {[status |-> Head(p), payload |-> decode_map_opt(Tail(p)),
                           seq |-> Seq0]}
                    ELSE None
<1>1. key \in KeyChoices /\ result = Received(key, down)
  BY DEF WireInv, TypeOK, DownInv
<1>2. /\ p \in Seq(Byte) /\ seal(key, p) \in Seq(Cell)
      /\ ~Wraps(seal(key, p)) /\ ~(total_len(seal(key, p)) > MAX_FRAME_SIZE)
  BY <1>1, ForeignFits
<1>3. Carries(down, Seq0, seal(key, p), TRUE)
  BY <1>2, FrameIs, SeqFact, WholeCarried
<1> QED
  BY <1>1, <1>2, <1>3, SeqFact, ResponseIsRead

(* A foreign answer that was cut is not taken for one. *)
LEMMA ForeignTorn ==
    ASSUME NEW Maps, CodecTyped(Maps), WireInv(Maps), resp = None, result # None
    PROVE  cut # "down"
<1>1. PICK r : r \in result
  BY DEF None
<1>2. key \in KeyChoices /\ phase = "done"
  BY DEF WireInv, TypeOK, InOrder
<1>3. PICK p \in ForeignAnswers : Answered(down, Seq0, seal(key, p), cut # "down")
  BY <1>2 DEF WireInv, DownInv
<1>4. PICK f \in read_response_frame(down) : r \in decode_response(key, f)
  BY <1>1, <1>2 DEF WireInv, DownInv, Received
<1>5. p \in Seq(Byte) /\ ~Wraps(seal(key, p)) /\ ~(total_len(seal(key, p)) > MAX_FRAME_SIZE)
  BY <1>2, ForeignFits
<1>6. PICK w \in BOOLEAN : w = (cut # "down") /\ Carries(down, Seq0, seal(key, p), w)
  BY <1>3, <1>5 DEF Answered, Carries
<1>7. w
  BY <1>2, <1>4, <1>5, <1>6, SeqFact, ResponseRead
<1> QED
  BY <1>6, <1>7

(* No part of a frame calls a handler or answers a call, whatever the codec, *)
(* the payloads and the place of the cut (read_exact, decrypt); only without *)
(* a key, and with a length that wraps, can it.                              *)
THEOREM TornAlways ==
    ASSUME NEW Maps, CodecTyped(Maps)
    PROVE  Spec => []TornRefused
<1>1. ASSUME WireInv(Maps) PROVE TornRefused
  <2>1. ASSUME cut = "up", seen # None
        PROVE  key = None /\ \E a \in asked : Wraps(encode_request_body(key, Request(a)))
    <3>1. PICK s : s \in seen
      BY <2>1 DEF None
    <3>2. PICK a : a \in asked
      BY <1>1, <2>1 DEF WireInv, InOrder, None
    <3>3. key = None /\ Wraps(seal(key, RequestPlain(a)))
      BY <1>1, <2>1, <3>1, <3>2, SeenIs
    <3> QED
      BY <3>2, <3>3, BodiesAre
  <2>2. ASSUME cut = "down", result # None
        PROVE  key = None /\ \E h \in resp : Wraps(encode_response_body(key, h))
    <3>1. PICK r : r \in result
      BY <2>2 DEF None
    <3>2. resp # None
      BY <1>1, <2>2, ForeignTorn
    <3>3. PICK h : h \in resp
      BY <3>2 DEF None
    <3>4. key = None /\ Wraps(seal(key, ResponsePlain(h)))
      BY <1>1, <2>2, <3>1, <3>3, ResultIs
    <3> QED
      BY <3>3, <3>4, BodiesAre
  <2> QED
    BY <2>1, <2>2 DEF TornRefused
<1>2. Spec => []WireInv(Maps)
  BY WireInductive
<1> QED
  BY <1>1, <1>2, PTL

(* The frames give the handler what the codec makes of the caller's bytes,   *)
(* and the call what it makes of the handler's, with the status and the      *)
(* sequence number, for any codec (decode_request, decode_response).         *)
THEOREM TransparentAlways ==
    ASSUME NEW Maps, CodecTyped(Maps)
    PROVE  Spec => []Transparent
<1>1. ASSUME WireInv(Maps) PROVE Transparent
  <2>1. ASSUME NEW h \in resp
        PROVE  LET body == encode_response_body(key, h)
                   sent == [status |-> h.status,
                            payload |-> decode_map_opt(PayloadBytes(h.payload)),
                            seq |-> IF seen = None THEN 0 ELSE Seq0]
               IN /\ key # None \/ ~Wraps(body) => result \subseteq {sent}
                  /\ phase = "done" /\ cut # "down" /\ down # <<>> /\ ~Wraps(body) =>
                        result = {sent}
    <3> DEFINE body == encode_response_body(key, h)
               sent == [status |-> h.status,
                        payload |-> decode_map_opt(PayloadBytes(h.payload)),
                        seq |-> IF seen = None THEN 0 ELSE Seq0]
    <3>1. body = seal(key, ResponsePlain(h))
      BY BodiesAre
    <3>2. ASSUME key # None \/ ~Wraps(body) PROVE \A r \in result : r = sent
      BY <1>1, <3>1, <3>2, ResultIs
    <3>3. ASSUME phase = "done", cut # "down", down # <<>>, ~Wraps(body) PROVE result # None
      BY <1>1, <3>1, <3>3, ResultThere
    <3> HIDE DEF body, sent
    <3>4. /\ key # None \/ ~Wraps(body) => result \subseteq {sent}
          /\ phase = "done" /\ cut # "down" /\ down # <<>> /\ ~Wraps(body) => result = {sent}
      BY <3>2, <3>3 DEF None
    <3> QED
      BY <3>4 DEF body, sent
  <2>2. \A s \in seen, a \in asked :
          LET req == Request(a)
              got == decode_map_opt(PayloadBytes(req.payload))
          IN key # None \/ ~Wraps(encode_request_body(key, req)) =>
                s = [opcode |-> Opcode, payload |-> IF got = None THEN <<>> ELSE The(got)]
    BY <1>1, SeenIs, BodiesAre
  <2> QED
    BY <1>1, <2>1, <2>2, ForeignIs DEF Transparent
<1>2. Spec => []WireInv(Maps)
  BY WireInductive
<1> QED
  BY <1>1, <1>2, PTL

(* Both ends agree on the longest payload for any limits, payloads and       *)
(* codec: a caller is refused exactly beyond max_safe_payload, and what is   *)
(* sent whole is read (encode_frame, read_frame).                            *)
THEOREM LimitsAlways ==
    ASSUME NEW Maps, CodecTyped(Maps)
    PROVE  Spec => []LimitsAgree
<1>1. ASSUME WireInv(Maps), NEW a \in asked, ~Wraps(seal(key, RequestPlain(a)))
      PROVE  LET plain == RequestPlain(a)
                 limit == IF key = None THEN MAX_FRAME_SIZE - 4 ELSE max_safe_payload
             IN /\ phase = "refused" <=> Len(plain) > limit
                /\ phase \in {"served", "done"} /\ cut # "up" =>
                      seen # None \/ resp \subseteq {session_expired}
                /\ phase = "sent" /\ cut # "up" /\ key # None =>
                      Len(up) + 3 = Len(plain) + wire_overhead
  <2> DEFINE plain == RequestPlain(a)
             body == seal(key, plain)
             limit == IF key = None THEN MAX_FRAME_SIZE - 4 ELSE max_safe_payload
  <2>1. /\ key \in KeyChoices /\ a \in Payloads
        /\ phase \in {"refused", "sent", "served", "done"}
    BY <1>1 DEF WireInv, TypeOK, InOrder, None, Some
  <2>2. plain \in Seq(Byte) /\ Len(plain) >= 2
    BY <1>1, <2>1, RequestPlainIs
  <2>3. PICK l \in Nat : Len(plain) = l
    BY <2>2
  <2>4. body \in Seq(Cell) /\ Len(body) = IF key = None THEN l ELSE 12 + l + 16
    BY <2>1, <2>2, <2>3, SealShape DEF NONCE_SIZE, TAG_SIZE
  <2>5. ~Overflows(body) /\ total_len(body) = 4 + Len(body)
    BY <1>1, <2>4, TotalIs
  <2>6. total_len(body) > MAX_FRAME_SIZE <=> Len(plain) > limit
    <3>1. limit = IF key = None THEN MAX_FRAME_SIZE - 4 ELSE MAX_FRAME_SIZE - 32
      BY DEF max_safe_payload, FRAME_OVERHEAD, NONCE_SIZE, TAG_SIZE
    <3> HIDE DEF limit, body, plain
    <3> QED
      BY <2>3, <2>4, <2>5, <3>1, LimitFact
  <2>7. ASSUME phase # "refused" PROVE Carries(up, Seq0, body, cut # "up")
    BY <1>1, <2>1, <2>7 DEF WireInv, UpInv
  <2>8. phase = "refused" <=> total_len(body) > MAX_FRAME_SIZE
    <3>1. ASSUME phase = "refused" PROVE total_len(body) > MAX_FRAME_SIZE
      BY <1>1, <2>5, <3>1 DEF WireInv, RefusedForLength
    <3>2. ASSUME phase # "refused" PROVE total_len(body) <= MAX_FRAME_SIZE
      BY <2>7, <3>2 DEF Carries
    <3>3. total_len(body) \in Nat
      BY <2>4, TotalIs
    <3> QED
      BY <3>1, <3>2, <3>3, LimitFact
  <2>9. ASSUME phase # "refused", cut # "up" PROVE Carries(up, Seq0, body, TRUE)
    BY <2>7, <2>9 DEF Carries
  <2>10. ASSUME phase \in {"served", "done"}, cut # "up", ~(resp \subseteq {session_expired}),
                seen = None
         PROVE  FALSE
    <3>1. read_request(key, up) = None
      <4>1. resp # None /\ resp # Some(session_expired)
        BY <2>10 DEF None, Some
      <4> QED
        BY <1>1, <2>10, <4>1 DEF WireInv, UpInv
    <3>2. read_request(key, up) # None
      BY <1>1, <2>1, <2>2, <2>9, <2>10, SeqFact, RequestIsRead
    <3> QED
      BY <3>1, <3>2
  <2>11. ASSUME phase = "sent", cut # "up", key # None
         PROVE  Len(up) + 3 = Len(plain) + wire_overhead
    <3>1. Part(Cell, up, Frame(Seq0, body), 0, Len(Frame(Seq0, body)))
      BY <2>9, <2>11 DEF Carries
    <3>2. Len(Frame(Seq0, body)) = 5 + Len(body)
      BY <2>4, SeqFact, FrameShape DEF Framed
    <3>3. Len(up) = 5 + Len(body)
      BY <3>1, <3>2 DEF Part
    <3> HIDE DEF body, plain
    <3> QED
      BY <2>3, <2>4, <2>11, <3>3 DEF wire_overhead
  <2> QED
    BY <2>6, <2>8, <2>10, <2>11
<1>2. \A a : encode_request_body(None, Request(a)) = RequestPlain(a)
  BY BodiesAre DEF seal
<1>3. ASSUME WireInv(Maps) PROVE LimitsAgree
  BY <1>1, <1>2, <1>3 DEF LimitsAgree
<1>4. Spec => []WireInv(Maps)
  BY WireInductive
<1> QED
  BY <1>3, <1>4, PTL

=============================================================================
