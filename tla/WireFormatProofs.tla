-------------------------- MODULE WireFormatProofs --------------------------
(***************************************************************************)
(* Facts about the wire format that the proofs about both ends share: the  *)
(* checksum of a sequence, a byte at a time, and the bytes of a frame.     *)
(***************************************************************************)
EXTENDS WireFormat, SequenceTheorems, TLAPS

Fold == INSTANCE FoldFacts WITH op <- checksum_update

SameTo(s, t, n) == \A i \in 1 .. n : s[i] = t[i]

Follows(m, n) == m = n + 1

\* The checksum is a fold of the module FoldFacts.
LEMMA ChecksumIsFold == \A s : Checksum(s) = Fold!FoldLeft(checksum_update, 0, s)
  BY DEF Checksum, FoldLeft, MapThenFoldSet, Max,
         Fold!FoldLeft, Fold!MapThenFoldSet, Fold!Max

\* calculate_checksum returns a byte.
LEMMA ChecksumIsByte ==
  ASSUME NEW s \in Seq(Byte)
  PROVE  Checksum(s) \in Byte
<1>1. 0 \in Byte
  BY ByteAssumption DEF Byte
<1>2. \A c \in Byte, b \in Byte : checksum_update(c, b) \in Byte
  BY ChecksumAssumption
<1>3. Fold!FoldLeft(checksum_update, 0, s) \in Byte
  BY <1>1, <1>2, Fold!FoldTyped
<1> QED
  BY <1>3, ChecksumIsFold

\* The checksum of no bytes.
LEMMA ChecksumOfNone == Checksum(<<>>) = 0
  BY ChecksumIsFold, Fold!FoldEmpty

\* One more byte is one more checksum_update.
LEMMA ChecksumAppend ==
  ASSUME NEW s \in Seq(Byte), NEW b \in Byte
  PROVE  Checksum(Append(s, b)) = checksum_update(Checksum(s), b)
<1>1. Fold!FoldLeft(checksum_update, 0, Append(s, b))
        = checksum_update(Fold!FoldLeft(checksum_update, 0, s), b)
  BY Fold!FoldAppend
<1> QED
  BY <1>1, ChecksumIsFold

-----------------------------------------------------------------------------
(* FlattenSeq is a recursive function on the indices of a sequence: that   *)
(* there is one, and only one, comes from the least index at which it      *)
(* would fail.                                                             *)

FlatTo(f, s, n) ==
  \A i \in 1 .. n : f[i] = IF i = 1 THEN s[i] ELSE f[i - 1] \o s[i]

IsFlat(f, s) ==
  f = [i \in 1 .. Len(s) |-> IF i = 1 THEN s[i] ELSE f[i - 1] \o s[i]]

\* The partial concatenations exist.
LEMMA FlatExists ==
  ASSUME NEW S, NEW s \in Seq(Seq(S))
  PROVE  \E f \in [1 .. Len(s) -> Seq(S)] : IsFlat(f, s)
<1> DEFINE n == Len(s)
           Has(k) == \E f \in [1 .. k -> Seq(S)] : FlatTo(f, s, k)
           Bad == {k \in 0 .. n : ~ Has(k)}
<1>1. n \in Nat /\ \A i \in 1 .. n : s[i] \in Seq(S)
  BY LenProperties, ElementOfSeq
<1>2. SUFFICES Has(n)
  <2>1. PICK f \in [1 .. n -> Seq(S)] : FlatTo(f, s, n)
    BY <1>2
  <2>2. f = [i \in 1 .. n |-> IF i = 1 THEN s[i] ELSE f[i - 1] \o s[i]]
    BY <2>1 DEF FlatTo
  <2> QED
    BY <2>2 DEF IsFlat
<1>3. Has(0)
  <2>1. [i \in 1 .. 0 |-> <<>>] \in [1 .. 0 -> Seq(S)]
    BY EmptySeq
  <2>2. FlatTo([i \in 1 .. 0 |-> <<>>], s, 0)
    BY DEF FlatTo
  <2> QED
    BY <2>1, <2>2
<1>4. ASSUME NEW k \in 0 .. n - 1, Has(k) PROVE Has(k + 1)
  <2>1. PICK f \in [1 .. k -> Seq(S)] : FlatTo(f, s, k)
    BY <1>4
  <2> DEFINE last == IF k = 0 THEN s[k + 1] ELSE f[k] \o s[k + 1]
             g == [i \in 1 .. k + 1 |-> IF i = k + 1 THEN last ELSE f[i]]
  <2>2. k + 1 \in 1 .. n /\ k \in Nat
    BY <1>1
  <2>3. last \in Seq(S)
    <3>1. CASE k = 0
      BY <3>1, <1>1, <2>2
    <3>2. CASE k # 0
      <4>1. f[k] \in Seq(S) /\ s[k + 1] \in Seq(S)
        BY <1>1, <2>2, <3>2
      <4> QED
        BY <4>1, <3>2, ConcatProperties
    <3> QED
      BY <3>1, <3>2
  <2> HIDE DEF last
  <2>4. g \in [1 .. k + 1 -> Seq(S)]
    <3>1. \A i \in 1 .. k + 1 : i # k + 1 => i \in 1 .. k
      BY <2>2
    <3> QED
      BY <2>3, <3>1
  <2>5. ASSUME NEW i \in 1 .. k + 1
        PROVE  g[i] = IF i = 1 THEN s[i] ELSE g[i - 1] \o s[i]
    <3>1. CASE i = k + 1
      <4>1. g[i] = last
        BY <3>1
      <4>2. i # 1 => k # 0 /\ i - 1 = k /\ i - 1 \in 1 .. k + 1 /\ i - 1 # k + 1
        BY <3>1, <2>2
      <4>3. i # 1 => g[i - 1] = f[k]
        BY <4>2
      <4>4. i = 1 => k = 0
        BY <3>1, <2>2
      <4> QED
        BY <3>1, <4>1, <4>2, <4>3, <4>4 DEF last
    <3>2. CASE i # k + 1
      <4>1. i \in 1 .. k
        BY <3>2, <2>2
      <4>2. g[i] = f[i] /\ f[i] = IF i = 1 THEN s[i] ELSE f[i - 1] \o s[i]
        BY <4>1, <3>2, <2>1 DEF FlatTo
      <4>3. i # 1 => i - 1 \in 1 .. k + 1 /\ i - 1 # k + 1
        BY <4>1, <2>2
      <4>4. i # 1 => g[i - 1] = f[i - 1]
        BY <4>3
      <4> QED
        BY <4>2, <4>4
    <3> QED
      BY <3>1, <3>2
  <2> HIDE DEF g
  <2>6. FlatTo(g, s, k + 1)
    BY <2>5 DEF FlatTo
  <2> QED
    BY <2>4, <2>6
<1> HIDE DEF Has
<1>5. SUFFICES ASSUME Bad # {} PROVE FALSE
  <2>1. n \in 0 .. n
    BY <1>1
  <2> QED
    BY <2>1
<1>6. Bad \subseteq Nat
  BY <1>1
<1>7. PICK x \in Bad : \A y \in Bad : x <= y
  BY <1>5, <1>6, Fold!Least
<1>8. x \in 0 .. n /\ ~ Has(x) /\ x # 0
  BY <1>3, <1>7
<1>9. x - 1 \in 0 .. n - 1 /\ x - 1 \in 0 .. n /\ x - 1 + 1 = x /\ ~ (x <= x - 1)
  BY <1>1, <1>8
<1>10. Has(x - 1)
  BY <1>7, <1>9
<1>11. Has(x - 1 + 1)
  BY <1>4, <1>9, <1>10
<1> QED
  BY <1>8, <1>9, <1>11

\* They are determined by the sequence.
LEMMA FlatUnique ==
  ASSUME NEW n \in Nat, NEW s, NEW t, NEW f, NEW g,
         FlatTo(f, s, n), FlatTo(g, t, n), SameTo(s, t, n)
  PROVE  SameTo(f, g, n)
<1> DEFINE Bad == {k \in 1 .. n : f[k] # g[k]}
<1>1. SUFFICES ASSUME Bad # {} PROVE FALSE
  BY DEF SameTo
<1>2. Bad \subseteq Nat
  OBVIOUS
<1>3. PICK x \in Bad : \A y \in Bad : x <= y
  BY <1>1, <1>2, Fold!Least
<1>4. x \in 1 .. n /\ f[x] # g[x]
  BY <1>3
<1>5. /\ f[x] = IF x = 1 THEN s[x] ELSE f[x - 1] \o s[x]
      /\ g[x] = IF x = 1 THEN t[x] ELSE g[x - 1] \o t[x]
      /\ s[x] = t[x]
  BY <1>4 DEF FlatTo, SameTo
<1>6. x # 1
  BY <1>4, <1>5
<1>7. x - 1 \in 1 .. n /\ ~ (x <= x - 1)
  BY <1>4, <1>6
<1>8. f[x - 1] = g[x - 1]
  BY <1>3, <1>7
<1> QED
  BY <1>4, <1>5, <1>8

\* FlattenSeq picks them.
LEMMA FlattenPicks ==
  ASSUME NEW S, NEW s \in Seq(Seq(S))
  PROVE  \E f \in [1 .. Len(s) -> Seq(S)] :
           /\ FlatTo(f, s, Len(s))
           /\ FlattenSeq(s) = IF s = <<>> THEN <<>> ELSE f[Len(s)]
<1> DEFINE f == CHOOSE f : IsFlat(f, s)
<1>1. PICK g \in [1 .. Len(s) -> Seq(S)] : IsFlat(g, s)
  BY FlatExists
<1>2. IsFlat(f, s)
  BY <1>1
<1>3. FlattenSeq(s) = IF Len(s) = 0 THEN s ELSE f[Len(s)]
  BY DEF FlattenSeq, IsFlat
<1> HIDE DEF f
<1>4. FlatTo(f, s, Len(s)) /\ FlatTo(g, s, Len(s)) /\ Len(s) \in Nat
  BY <1>1, <1>2, LenProperties DEF IsFlat, FlatTo
<1>5. \A i \in 1 .. Len(s) : f[i] = g[i]
  <2>1. SameTo(s, s, Len(s))
    BY DEF SameTo
  <2>2. SameTo(f, g, Len(s))
    BY <1>4, <2>1, FlatUnique
  <2> QED
    BY <2>2 DEF SameTo
<1>6. f = [i \in 1 .. Len(s) |-> f[i]]
  BY <1>2 DEF IsFlat
<1>7. f \in [1 .. Len(s) -> Seq(S)]
  BY <1>5, <1>6
<1>8. Len(s) = 0 <=> s = <<>>
  BY EmptySeq, LenProperties
<1> QED
  BY <1>3, <1>4, <1>7, <1>8

\* The last step of a concatenation.
LEMMA FlatLast ==
  ASSUME NEW n \in Nat, NEW m \in Nat, Follows(m, n), NEW g, NEW t, FlatTo(g, t, m)
  PROVE  /\ FlatTo(g, t, n)
         /\ g[m] = IF n = 0 THEN t[m] ELSE g[n] \o t[m]
<1>1. ASSUME NEW i \in 1 .. m
      PROVE  g[i] = IF i = 1 THEN t[i] ELSE g[i - 1] \o t[i]
  BY DEF FlatTo
<1>2. \A i \in 1 .. n : i \in 1 .. m
  BY DEF Follows
<1>3. FlatTo(g, t, n)
  BY <1>1, <1>2 DEF FlatTo
<1>4. m \in 1 .. m /\ m - 1 = n /\ (m = 1 <=> n = 0)
  BY DEF Follows
<1>5. g[m] = IF m = 1 THEN t[m] ELSE g[m - 1] \o t[m]
  BY <1>1, <1>4
<1> QED
  BY <1>3, <1>4, <1>5

\* One more sequence adds its length.
LEMMA LenFlattenAppend ==
  ASSUME NEW S, NEW s \in Seq(Seq(S)), NEW e \in Seq(S)
  PROVE  /\ Len(FlattenSeq(s)) \in Nat
         /\ Len(FlattenSeq(Append(s, e))) = Len(FlattenSeq(s)) + Len(e)
<1>0. PICK n \in Nat : n = Len(s)
  BY LenProperties
<1>m. PICK m \in Nat : m = n + 1
  BY <1>0
<1>t. PICK t : t = Append(s, e)
  OBVIOUS
<1>1. /\ t \in Seq(Seq(S)) /\ t # <<>> /\ Len(t) = m
      /\ \A i \in 1 .. n : t[i] = s[i]
      /\ t[m] = e
  BY <1>0, <1>m, <1>t, AppendProperties
<1>2. PICK f \in [1 .. n -> Seq(S)] :
        FlatTo(f, s, n) /\ FlattenSeq(s) = IF s = <<>> THEN <<>> ELSE f[n]
  BY <1>0, FlattenPicks
<1>3. PICK g \in [1 .. m -> Seq(S)] :
        FlatTo(g, t, m) /\ FlattenSeq(t) = g[m]
  BY <1>1, FlattenPicks
<1>4. FlatTo(g, t, n) /\ g[m] = IF n = 0 THEN e ELSE g[n] \o e
  <2>1. Follows(m, n)
    BY <1>m DEF Follows
  <2>2. t[m] = e
    BY <1>1
  <2>3. FlatTo(g, t, n) /\ g[m] = IF n = 0 THEN t[m] ELSE g[n] \o t[m]
    <3>1. n \in Nat /\ m \in Nat /\ FlatTo(g, t, m)
      BY <1>0, <1>m, <1>3
    <3> QED
      BY <2>1, <3>1, FlatLast
  <2> QED
    BY <2>2, <2>3
<1>5. CASE s = <<>>
  <2>1. FlattenSeq(s) = <<>> /\ n = 0 /\ Len(e) \in Nat
    BY <1>0, <1>2, <1>5, EmptySeq, LenProperties
  <2>2. FlattenSeq(t) = e
    BY <1>3, <1>4, <2>1
  <2>3. Len(FlattenSeq(s)) = 0
    BY <2>1, EmptySeq
  <2> QED
    BY <2>1, <2>2, <2>3, <1>t
<1>6. CASE s # <<>>
  <2>1. n \in 1 .. n
    BY <1>0, <1>1, <1>6, EmptySeq
  <2>2. SameTo(s, t, n)
    BY <1>1 DEF SameTo
  <2>3. f[n] = g[n]
    <3>1. n \in Nat /\ FlatTo(f, s, n) /\ FlatTo(g, t, n)
      BY <1>0, <1>2, <1>4
    <3>2. SameTo(f, g, n)
      BY <2>2, <3>1, FlatUnique
    <3> QED
      BY <2>1, <3>2 DEF SameTo
  <2>4. FlattenSeq(s) = f[n] /\ FlattenSeq(t) = f[n] \o e /\ f[n] \in Seq(S)
    BY <1>2, <1>3, <1>4, <1>6, <2>1, <2>3
  <2>5. Len(f[n]) \in Nat /\ Len(f[n] \o e) = Len(f[n]) + Len(e)
    BY <2>4, ConcatProperties, LenProperties
  <2> QED
    BY <2>4, <2>5, <1>t
<1> QED
  BY <1>5, <1>6

-----------------------------------------------------------------------------
(* The bytes of a frame.                                                   *)

FrameOf(id, p, t) == <<Header1, Header2>> \o Covered(id, p) \o <<t>>

\* f is the frame of id with payload p and trailing byte t.
Spells(f, id, p, t) ==
  LET n == expected_payload_size[id] IN
    /\ f \in Seq(Byte)
    /\ Len(f) = 5 + n
    /\ f[1] = Header1 /\ f[2] = Header2 /\ f[3] = id /\ f[4] = n
    /\ \A i \in 1 .. n : f[4 + i] = p[i]
    /\ f[5 + n] = t

\* The bytes that the checksum covers.
LEMMA CoveredBytes ==
  ASSUME NEW id \in PacketIds, NEW p \in PayloadsOf(id)
  PROVE  LET n == expected_payload_size[id] IN
           /\ Covered(id, p) \in Seq(Byte)
           /\ Len(Covered(id, p)) = 2 + n
           /\ Covered(id, p)[1] = id /\ Covered(id, p)[2] = n
           /\ \A i \in 1 .. n : Covered(id, p)[2 + i] = p[i]
<1> DEFINE n == expected_payload_size[id]
<1>1. /\ n \in Nat /\ n \in Byte /\ id \in Byte /\ p \in [1 .. n -> Byte]
  BY PayloadAssumption, ByteAssumption DEF PacketIds, PayloadsOf, Byte
<1> HIDE DEF n
<1>2. p \in Seq(Byte) /\ Len(p) = n
  BY <1>1
<1>3. <<id, n>> \in Seq(Byte) /\ Len(<<id, n>>) = 2 /\ <<id, n>>[1] = id /\ <<id, n>>[2] = n
  BY <1>1
<1>4. Covered(id, p) = <<id, n>> \o p
  BY <1>2 DEF Covered
<1>5. /\ Covered(id, p) \in Seq(Byte)
      /\ Len(Covered(id, p)) = 2 + n
      /\ \A i \in 1 .. 2 + n :
           Covered(id, p)[i] = IF i <= 2 THEN <<id, n>>[i] ELSE p[i - 2]
  BY <1>2, <1>3, <1>4, ConcatProperties
<1>6. Covered(id, p)[1] = id /\ Covered(id, p)[2] = n
  <2>1. 1 \in 1 .. 2 + n /\ 2 \in 1 .. 2 + n
    BY <1>1
  <2> QED
    BY <1>3, <1>5, <2>1
<1>7. ASSUME NEW i \in 1 .. n PROVE Covered(id, p)[2 + i] = p[i]
  <2>1. 2 + i \in 1 .. 2 + n /\ ~ (2 + i <= 2) /\ 2 + i - 2 = i
    BY <1>1
  <2> QED
    BY <1>5, <2>1
<1> QED
  BY <1>5, <1>6, <1>7 DEF n

\* The bytes of a frame.
LEMMA FrameSpelled ==
  ASSUME NEW id \in PacketIds, NEW p \in PayloadsOf(id), NEW t \in Byte
  PROVE  Spells(FrameOf(id, p, t), id, p, t)
<1> DEFINE n == expected_payload_size[id]
           c == Covered(id, p)
           hc == <<Header1, Header2>> \o c
           f == hc \o <<t>>
<1>1. /\ n \in Nat /\ id \in Byte /\ Header1 \in Byte /\ Header2 \in Byte
  BY PayloadAssumption, ByteAssumption DEF PacketIds, PayloadsOf, Byte
<1>2. /\ c \in Seq(Byte) /\ Len(c) = 2 + n /\ c[1] = id /\ c[2] = n
      /\ \A i \in 1 .. n : c[2 + i] = p[i]
  BY CoveredBytes
<1>f. FrameOf(id, p, t) = f
  BY DEF FrameOf
<1> HIDE DEF n, c
<1>3. /\ <<Header1, Header2>> \in Seq(Byte) /\ Len(<<Header1, Header2>>) = 2
      /\ <<t>> \in Seq(Byte) /\ Len(<<t>>) = 1 /\ <<t>>[1] = t
      /\ <<Header1, Header2>>[1] = Header1 /\ <<Header1, Header2>>[2] = Header2
  BY <1>1
<1>4. /\ hc \in Seq(Byte) /\ Len(hc) = 4 + n
      /\ \A i \in 1 .. 4 + n : hc[i] = IF i <= 2 THEN <<Header1, Header2>>[i] ELSE c[i - 2]
  <2>1. 2 + (2 + n) = 4 + n
    BY <1>1
  <2> QED
    BY <1>2, <1>3, <2>1, ConcatProperties
<1> HIDE DEF hc
<1>5. /\ f \in Seq(Byte) /\ Len(f) = 5 + n
      /\ \A i \in 1 .. 5 + n : f[i] = IF i <= 4 + n THEN hc[i] ELSE <<t>>[i - (4 + n)]
  <2>1. (4 + n) + 1 = 5 + n
    BY <1>1
  <2> QED
    BY <1>3, <1>4, <2>1, ConcatProperties
<1> HIDE DEF f
<1>6. /\ f[1] = Header1 /\ f[2] = Header2 /\ f[3] = id /\ f[4] = n
  <2>1. \A i \in 1 .. 4 : i \in 1 .. 5 + n /\ i \in 1 .. 4 + n /\ i <= 4 + n
    BY <1>1
  <2>2. \A i \in 1 .. 4 : f[i] = IF i <= 2 THEN <<Header1, Header2>>[i] ELSE c[i - 2]
    BY <1>4, <1>5, <2>1
  <2> QED
    BY <1>2, <1>3, <2>2
<1>7. ASSUME NEW i \in 1 .. n PROVE f[4 + i] = p[i]
  <2>1. PICK k \in Nat : k = 4 + i
    OBVIOUS
  <2>2. k \in 1 .. 5 + n /\ k \in 1 .. 4 + n /\ k <= 4 + n /\ ~ (k <= 2) /\ k - 2 = 2 + i
    BY <1>1, <2>1
  <2>3. f[k] = c[k - 2]
    BY <1>4, <1>5, <2>2
  <2> QED
    BY <1>2, <2>1, <2>2, <2>3
<1>8. f[5 + n] = t
  <2>1. PICK k \in Nat : k = 5 + n
    BY <1>1
  <2>2. k \in 1 .. 5 + n /\ ~ (k <= 4 + n) /\ k - (4 + n) = 1
    BY <1>1, <2>1
  <2>3. f[k] = t
    BY <1>3, <1>5, <2>2
  <2> QED
    BY <2>1, <2>3
<1> QED
  BY <1>f, <1>5, <1>6, <1>7, <1>8 DEF Spells, n

\* A sequence that has the bytes of a frame is the frame.
LEMMA SpelledIsFrame ==
  ASSUME NEW id \in PacketIds, NEW p \in PayloadsOf(id), NEW t \in Byte,
         NEW f, Spells(f, id, p, t)
  PROVE  f = FrameOf(id, p, t)
<1> DEFINE n == expected_payload_size[id]
<1>1. n \in Nat
  BY PayloadAssumption, ByteAssumption DEF PacketIds, Byte
<1>2. PICK g : g = FrameOf(id, p, t) /\ Spells(g, id, p, t)
  BY FrameSpelled
<1>3. /\ f \in Seq(Byte) /\ Len(f) = 5 + n /\ g \in Seq(Byte) /\ Len(g) = 5 + n
      /\ f[1] = g[1] /\ f[2] = g[2] /\ f[3] = g[3] /\ f[4] = g[4]
      /\ \A i \in 1 .. n : f[4 + i] = p[i] /\ g[4 + i] = p[i]
      /\ f[5 + n] = t /\ g[5 + n] = t
  BY <1>2 DEF Spells
<1> HIDE DEF n
<1>4. ASSUME NEW i \in 1 .. 5 + n PROVE f[i] = g[i]
  <2>1. CASE i \in 1 .. 4
    BY <1>3, <2>1
  <2>2. CASE i = 5 + n
    BY <1>3, <2>2
  <2>3. CASE i \notin 1 .. 4 /\ i # 5 + n
    <3>1. PICK j \in 1 .. n : i = 4 + j
      <4>1. i - 4 \in 1 .. n /\ i = 4 + (i - 4)
        BY <1>1, <2>3
      <4> QED
        BY <4>1
    <3> QED
      BY <1>3, <3>1
  <2> QED
    BY <2>1, <2>2, <2>3
<1>5. f = g
  BY <1>3, <1>4, SeqEqual
<1> QED
  BY <1>2, <1>5

\* A frame is spelled by its id, a payload and a trailing byte that a
\* receiver accepts.
LEMMA FrameParts ==
  ASSUME NEW f \in Frames
  PROVE  \E id \in PacketIds : \E p \in PayloadsOf(id), t \in Byte :
           /\ Spells(f, id, p, t)
           /\ HasChecksum => t = Checksum(Covered(id, p))
<1>1. PICK id \in PacketIds : f \in FramesOf(id)
  BY DEF Frames
<1>2. PICK p \in PayloadsOf(id) : \E u \in Trailers(id, p) : f = FrameOf(id, p, u)
  BY <1>1 DEF FramesOf, FrameOf
<1>t. PICK t \in Trailers(id, p) : f = FrameOf(id, p, t)
  BY <1>2
<1>3. Checksum(Covered(id, p)) \in Byte
  BY CoveredBytes, ChecksumIsByte
<1>4. t \in Byte /\ (HasChecksum => t = Checksum(Covered(id, p)))
  BY <1>t, <1>3 DEF Trailers
<1> QED
  BY <1>t, <1>4, FrameSpelled

\* Conversely.
LEMMA PartsFrame ==
  ASSUME NEW id \in PacketIds, NEW p \in PayloadsOf(id), NEW t \in Byte, NEW f,
         Spells(f, id, p, t), HasChecksum => t = Checksum(Covered(id, p))
  PROVE  f \in Frames
<1>1. f = FrameOf(id, p, t)
  BY SpelledIsFrame
<1>2. t \in Trailers(id, p)
  BY DEF Trailers
<1> QED
  BY <1>1, <1>2 DEF Frames, FramesOf, FrameOf

\* c holds the bytes that the checksum covers.
SpellsCovered(c, id, p) ==
  LET n == expected_payload_size[id] IN
    /\ c \in Seq(Byte)
    /\ Len(c) = 2 + n
    /\ c[1] = id /\ c[2] = n
    /\ \A i \in 1 .. n : c[2 + i] = p[i]

\* A sequence that has the covered bytes is what the checksum covers.
LEMMA SpelledIsCovered ==
  ASSUME NEW id \in PacketIds, NEW p \in PayloadsOf(id), NEW c, SpellsCovered(c, id, p)
  PROVE  c = Covered(id, p)
<1> DEFINE n == expected_payload_size[id]
<1>1. n \in Nat
  BY PayloadAssumption, ByteAssumption DEF PacketIds, Byte
<1>2. PICK d : d = Covered(id, p)
  OBVIOUS
<1>3. /\ d \in Seq(Byte) /\ Len(d) = 2 + n /\ d[1] = id /\ d[2] = n
      /\ \A i \in 1 .. n : d[2 + i] = p[i]
  BY <1>2, CoveredBytes
<1>4. /\ c \in Seq(Byte) /\ Len(c) = 2 + n /\ c[1] = id /\ c[2] = n
      /\ \A i \in 1 .. n : c[2 + i] = p[i]
  BY DEF SpellsCovered
<1> HIDE DEF n
<1>5. ASSUME NEW i \in 1 .. 2 + n PROVE c[i] = d[i]
  <2>1. CASE i = 1 \/ i = 2
    BY <1>3, <1>4, <2>1
  <2>2. CASE ~ (i = 1 \/ i = 2)
    <3>1. PICK j \in 1 .. n : i = 2 + j
      <4>1. i - 2 \in 1 .. n /\ i = 2 + (i - 2)
        BY <1>1, <2>2
      <4> QED
        BY <4>1
    <3> QED
      BY <1>3, <1>4, <3>1
  <2> QED
    BY <2>1, <2>2
<1>6. c = d
  BY <1>3, <1>4, <1>5, SeqEqual
<1> QED
  BY <1>2, <1>6

=============================================================================
