------------------------ MODULE PacketHandlerProofs ------------------------
(***************************************************************************)
(* The parser of the computer, for every ring size, every stream and every *)
(* cutting of it into reads: the ring never overflows, no byte is lost     *)
(* uncounted, and the handler implements FrameStream.                      *)
(***************************************************************************)
EXTENDS PacketHandler, WireFormatProofs

-----------------------------------------------------------------------------
(* The ring as a sequence.                                                 *)

\* The distance from t to h, going round.
Gap(h, t, c) == IF t <= h THEN h - t ELSE h + c - t

\* Position i after t.
Place(t, i, c) == IF t + i < c THEN t + i ELSE t + i - c

\* A step of n from position x, at most once round.
LEMMA ModStep ==
  ASSUME NEW c \in Nat \ {0, 1}, NEW x \in 0 .. c - 1, NEW n \in 0 .. c
  PROVE  /\ (x + n) % c = IF x + n < c THEN x + n ELSE x + n - c
         /\ (x + n) % c \in 0 .. c - 1
OBVIOUS

\* What available computes.
LEMMA ModGap ==
  ASSUME NEW c \in Nat \ {0, 1}, NEW h \in 0 .. c - 1, NEW t \in 0 .. c - 1
  PROVE  /\ (h + c - t) % c = Gap(h, t, c)
         /\ Gap(h, t, c) \in 0 .. c - 1
BY DEF Gap

\* What the ring holds, read as a sequence.
RingOK ==
  /\ capacity \in Nat \ {0, 1}
  /\ Available = Gap(head, tail, capacity)
  /\ Available \in 0 .. capacity - 1
  /\ Full <=> Available = capacity - 1
  /\ \A i \in 0 .. capacity - 1 :
       At(i) = ring[Place(tail, i, capacity)] /\ At(i) \in Byte
  /\ Contents \in Seq(Byte)
  /\ Len(Contents) = Available
  /\ \A i \in 1 .. Available : Contents[i] = At(i - 1)

\* The bytes between the tail and the head, in a ring of any size.
LEMMA RingShape == TypeOK => RingOK
<1> SUFFICES ASSUME TypeOK PROVE RingOK
  OBVIOUS
<1>1. /\ capacity \in Nat \ {0, 1}
      /\ head \in 0 .. capacity - 1
      /\ tail \in 0 .. capacity - 1
      /\ ring \in [0 .. capacity - 1 -> Byte]
  BY CapacityAssumption DEF TypeOK
<1>2. Available = Gap(head, tail, capacity) /\ Available \in 0 .. capacity - 1
  BY <1>1, ModGap DEF Available
<1>3. Full <=> Available = capacity - 1
  <2>1. (head + 1) % capacity = IF head + 1 < capacity THEN head + 1 ELSE 0
    <3>1. 1 \in 0 .. capacity
      BY <1>1
    <3>2. (head + 1) % capacity = IF head + 1 < capacity THEN head + 1 ELSE head + 1 - capacity
      BY <1>1, <3>1, ModStep
    <3> QED
      BY <1>1, <3>2
  <2> QED
    BY <1>1, <1>2, <2>1 DEF Full, Gap
<1>4. ASSUME NEW i \in 0 .. capacity - 1
      PROVE  At(i) = ring[Place(tail, i, capacity)] /\ At(i) \in Byte
  <2>1. (tail + i) % capacity = Place(tail, i, capacity)
    <3>1. i \in 0 .. capacity
      BY <1>1
    <3> QED
      BY <1>1, <3>1, ModStep DEF Place
  <2>2. Place(tail, i, capacity) \in 0 .. capacity - 1
    BY <1>1 DEF Place
  <2> QED
    BY <1>1, <2>1, <2>2 DEF At
<1>5. /\ Contents \in Seq(Byte)
      /\ Len(Contents) = Available
      /\ \A i \in 1 .. Available : Contents[i] = At(i - 1)
  <2>1. ASSUME NEW i \in 1 .. Available PROVE At(i - 1) \in Byte
    <3>1. i - 1 \in 0 .. capacity - 1
      BY <1>1, <1>2
    <3> QED
      BY <1>4, <3>1
  <2> HIDE DEF At, Available
  <2>2. Contents \in [1 .. Available -> Byte]
    BY <2>1 DEF Contents
  <2>3. Available \in Nat
    BY <1>1, <1>2
  <2> QED
    BY <2>2, <2>3 DEF Contents
<1> QED
  BY <1>1, <1>2, <1>3, <1>4, <1>5 DEF RingOK

\* try_push_byte appends to the contents.
LEMMA PushAppends ==
  ASSUME TypeOK, TypeOK', Push, UNCHANGED <<capacity, tail>>
  PROVE  /\ Contents' = Append(Contents, Head(chunk))
         /\ Available' = Available + 1
         /\ chunk' = Tail(chunk) /\ chunk # <<>> /\ ~ Full
<1>1. RingOK /\ RingOK'
  BY RingShape, PTL
<1> DEFINE A == Available
           A2 == Available'
           C == Contents
           C2 == Contents'
           b == Head(chunk)
<1>2. /\ head \in 0 .. capacity - 1 /\ tail \in 0 .. capacity - 1
      /\ ring \in [0 .. capacity - 1 -> Byte]
      /\ chunk \in Seq(Byte) /\ chunk # <<>> /\ ~ Full
      /\ capacity' = capacity /\ tail' = tail
      /\ ring' = [ring EXCEPT ![head] = b] /\ chunk' = Tail(chunk)
      /\ capacity \in Nat \ {0, 1}
  BY <1>1 DEF TypeOK, Push, RingOK
<1>3. head' = IF head + 1 < capacity THEN head + 1 ELSE 0
  <2>1. head' = (head + 1) % capacity
    BY DEF Push
  <2> QED
    <3>1. 1 \in 0 .. capacity /\ head + 1 - capacity = head + 1 - capacity
      BY <1>2
    <3>2. (head + 1) % capacity = IF head + 1 < capacity THEN head + 1 ELSE head + 1 - capacity
      BY <1>2, <3>1, ModStep
    <3> QED
      BY <1>2, <2>1, <3>2
<1>4. /\ A = Gap(head, tail, capacity) /\ A \in 0 .. capacity - 1 /\ A # capacity - 1
      /\ A2 = Gap(head', tail, capacity)
  BY <1>1, <1>2 DEF RingOK
<1>5. A2 = A + 1
  BY <1>2, <1>3, <1>4 DEF Gap
<1>6. ASSUME NEW i \in 0 .. A
      PROVE  Place(tail, i, capacity) \in 0 .. capacity - 1 /\ (Place(tail, i, capacity) = head <=> i = A)
  BY <1>2, <1>4 DEF Place, Gap
<1>7. /\ C \in Seq(Byte) /\ Len(C) = A /\ C2 \in Seq(Byte) /\ Len(C2) = A + 1
      /\ \A i \in 1 .. A : C[i] = ring[Place(tail, i - 1, capacity)]
      /\ \A i \in 1 .. A + 1 : C2[i] = ring'[Place(tail, i - 1, capacity)]
  <2>1. \A i \in 1 .. A : C[i] = ring[Place(tail, i - 1, capacity)]
    <3>1. \A i \in 1 .. A : i - 1 \in 0 .. capacity - 1
      BY <1>2, <1>4
    <3>2. \A i \in 1 .. A : C[i] = At(i - 1)
      BY <1>1 DEF RingOK
    <3>3. \A i \in 0 .. capacity - 1 : At(i) = ring[Place(tail, i, capacity)]
      BY <1>1 DEF RingOK
    <3> QED
      BY <3>1, <3>2, <3>3
  <2>2. \A i \in 1 .. A + 1 : C2[i] = ring'[Place(tail, i - 1, capacity)]
    <3>1. \A i \in 1 .. A + 1 : i - 1 \in 0 .. capacity - 1
      BY <1>2, <1>4
    <3>2. \A i \in 1 .. A + 1 : C2[i] = At(i - 1)'
      BY <1>1, <1>5 DEF RingOK
    <3>3. \A i \in 0 .. capacity - 1 : At(i)' = ring'[Place(tail, i, capacity)]
      BY <1>1, <1>2 DEF RingOK
    <3> QED
      BY <3>1, <3>2, <3>3
  <2>3. /\ C \in Seq(Byte) /\ Len(C) = A /\ C2 \in Seq(Byte) /\ Len(C2) = A + 1
    BY <1>1, <1>5 DEF RingOK
  <2> QED
    BY <2>1, <2>2, <2>3
<1>8. b \in Byte
  BY <1>2, HeadTailProperties
<1>9. C2 = Append(C, b)
  <2> HIDE DEF A, A2, C, C2, b
  <2>1. ASSUME NEW i \in 1 .. A + 1 PROVE C2[i] = Append(C, b)[i]
    <3>1. i - 1 \in 0 .. A
      BY <1>4, <2>1
    <3>2. C2[i] = ring'[Place(tail, i - 1, capacity)]
      BY <1>7
    <3>3. CASE i = A + 1
      <4>1. Place(tail, i - 1, capacity) = head
        BY <1>6, <3>1, <3>3, <1>4
      <4>2. C2[i] = b
        BY <1>2, <3>2, <4>1
      <4>3. Append(C, b)[i] = b
        BY <1>7, <1>8, <3>3, <1>4
      <4> QED
        BY <4>2, <4>3
    <3>4. CASE i # A + 1
      <4>1. i \in 1 .. A
        BY <3>4, <1>4
      <4>2. Place(tail, i - 1, capacity) # head /\ Place(tail, i - 1, capacity) \in 0 .. capacity - 1
        BY <1>6, <3>1, <3>4, <1>4
      <4>3. C2[i] = C[i]
        BY <1>2, <1>7, <3>2, <4>1, <4>2
      <4>4. Append(C, b)[i] = C[i]
        BY <1>7, <1>8, <4>1, <1>4, AppendProperties
      <4> QED
        BY <4>3, <4>4
    <3> QED
      BY <3>3, <3>4
  <2>2. Append(C, b) \in Seq(Byte) /\ Len(Append(C, b)) = A + 1
    BY <1>7, <1>8, AppendProperties
  <2> QED
    BY <1>7, <2>1, <2>2, SeqEqual
<1> QED
  BY <1>2, <1>5, <1>9

\* Advancing the tail drops the first n bytes of the contents.
LEMMA AdvanceDrops ==
  ASSUME TypeOK, TypeOK', UNCHANGED <<capacity, ring, head>>,
         NEW n \in Nat, n <= Available, tail' = (tail + n) % capacity
  PROVE  /\ Contents' = SubSeq(Contents, n + 1, Available)
         /\ Available' = Available - n
<1>1. RingOK /\ RingOK'
  BY RingShape, PTL
<1> DEFINE A == Available
           A2 == Available'
           C == Contents
           C2 == Contents'
<1>2. /\ head \in 0 .. capacity - 1 /\ tail \in 0 .. capacity - 1
      /\ capacity' = capacity /\ head' = head /\ ring' = ring
      /\ capacity \in Nat \ {0, 1}
  BY <1>1 DEF TypeOK, RingOK
<1>3. A = Gap(head, tail, capacity) /\ A \in 0 .. capacity - 1
  BY <1>1 DEF RingOK
<1>4. tail' = Place(tail, n, capacity) /\ n \in 0 .. A
  <2>1. n \in 0 .. capacity
    BY <1>2, <1>3
  <2>2. tail' = (tail + n) % capacity
    OBVIOUS
  <2> HIDE DEF A
  <2>3. tail' = Place(tail, n, capacity)
    BY <1>2, <2>1, <2>2, ModStep DEF Place
  <2>4. n <= A
    BY DEF A
  <2> QED
    BY <2>3, <1>3, <2>4
<1>5. A2 = A - n
  <2>1. A2 = Gap(head, tail', capacity)
    BY <1>1, <1>2 DEF RingOK
  <2> HIDE DEF A, A2
  <2> QED
    BY <1>2, <1>3, <1>4, <2>1 DEF Gap, Place
<1>6. ASSUME NEW i \in Nat, i + n < A
      PROVE  Place(tail', i, capacity) = Place(tail, i + n, capacity)
  <2> HIDE DEF A
  <2> QED
    BY <1>2, <1>3, <1>4, <1>6 DEF Place, Gap
<1>7. ASSUME NEW i \in 1 .. A - n PROVE C2[i] = C[i + n]
  <2>1. i - 1 \in 0 .. capacity - 1 /\ i + n - 1 \in 0 .. capacity - 1
        /\ i \in 1 .. A2 /\ i + n \in 1 .. A /\ i - 1 \in Nat /\ i - 1 + n < A
        /\ i + n - 1 = i - 1 + n
    BY <1>2, <1>3, <1>4, <1>5
  <2>2. C2[i] = At(i - 1)' /\ C[i + n] = At(i + n - 1)
    BY <1>1, <2>1 DEF RingOK
  <2>3. At(i - 1)' = ring[Place(tail', i - 1, capacity)]
    BY <1>1, <1>2, <2>1 DEF RingOK
  <2>4. At(i + n - 1) = ring[Place(tail, i + n - 1, capacity)]
    BY <1>1, <2>1 DEF RingOK
  <2>5. Place(tail', i - 1, capacity) = Place(tail, i - 1 + n, capacity)
    BY <1>6, <2>1
  <2> QED
    BY <2>1, <2>2, <2>3, <2>4, <2>5
<1>8. /\ C \in Seq(Byte) /\ Len(C) = A /\ C2 \in Seq(Byte) /\ Len(C2) = A2
  BY <1>1 DEF RingOK
<1>9. C2 = SubSeq(C, n + 1, A)
  <2> HIDE DEF A, A2, C, C2
  <2>1. /\ SubSeq(C, n + 1, A) \in Seq(Byte)
        /\ Len(SubSeq(C, n + 1, A)) = A - n
        /\ \A i \in 1 .. A - n : SubSeq(C, n + 1, A)[i] = C[i + n]
    <3>1. \A i \in n + 1 .. A : C[i] \in Byte
      BY <1>8, <1>3, <1>4, ElementOfSeq
    <3>2. n + 1 \in Int /\ A \in Int /\ A - (n + 1) + 1 = A - n
      BY <1>3, <1>4
    <3>3. /\ SubSeq(C, n + 1, A) \in Seq(Byte)
          /\ Len(SubSeq(C, n + 1, A)) = IF n + 1 <= A THEN A - (n + 1) + 1 ELSE 0
          /\ \A i \in 1 .. A - (n + 1) + 1 : SubSeq(C, n + 1, A)[i] = C[n + 1 + i - 1]
      BY <3>1, <3>2, SubSeqProperties
    <3>4. ASSUME NEW i \in 1 .. A - n PROVE n + 1 + i - 1 = i + n
      BY <1>3
    <3>5. (IF n + 1 <= A THEN A - (n + 1) + 1 ELSE 0) = A - n
      BY <1>3, <1>4
    <3> QED
      BY <3>2, <3>3, <3>4, <3>5
  <2> QED
    BY <1>5, <1>7, <1>8, <2>1, SeqEqual
<1> QED
  BY <1>5, <1>9

\* An emptied ring.
LEMMA EmptyRing ==
  ASSUME TypeOK', head' = 0, tail' = 0
  PROVE  Available' = 0 /\ Contents' = <<>>
<1>1. RingOK'
  BY RingShape, PTL
<1>2. Available' = 0
  BY <1>1 DEF RingOK, Gap
<1> QED
  BY <1>1, <1>2, EmptySeq DEF RingOK
-----------------------------------------------------------------------------
(* Types, and what is in hand in each mode.                                *)

\* A full ring is drained for the byte in hand; between two reads and in the
\* last parse nothing is in hand.
InHand ==
  /\ mode = "drain" => chunk # <<>>
  /\ mode \in {"idle", "final"} => chunk = <<>>

Sound == TypeOK /\ InHand

\* The size of a candidate, once its first bytes are in the ring.
LEMMA SizeInRing ==
  ASSUME TypeOK, CanLook
  PROVE  /\ TotalLen \in Nat /\ TotalLen >= MinPacketSize
         /\ \A i \in 0 .. 4 : At(i) \in Byte
<1>1. RingOK
  BY RingShape
<1>2. 0 .. 4 \subseteq 0 .. capacity - 1
  BY <1>1 DEF RingOK, CanLook, MinPacketSize
<1>3. \A i \in 0 .. 4 : At(i) \in Byte
  BY <1>1, <1>2 DEF RingOK
<1>4. At(3) \in Byte
  BY <1>3
<1>5. At(3) \in Nat
  BY <1>4, ByteAssumption DEF Byte
<1> HIDE DEF At
<1> QED
  BY <1>3, <1>5 DEF TotalLen, MinPacketSize

\* The front of the contents.
LEMMA FrontOfContents ==
  ASSUME TypeOK, NEW n \in Nat, n <= Available
  PROVE  /\ SubSeq(Contents, 1, n) \in Seq(Byte)
         /\ Len(SubSeq(Contents, 1, n)) = n
         /\ \A i \in 1 .. n : SubSeq(Contents, 1, n)[i] = At(i - 1)
<1>1. RingOK
  BY RingShape
<1> DEFINE C == Contents
           A == Available
<1>2. /\ C \in Seq(Byte) /\ Len(C) = A /\ A \in Nat /\ n <= A
      /\ \A i \in 1 .. A : C[i] = At(i - 1)
  BY <1>1 DEF RingOK
<1> HIDE DEF C, A
<1>3. \A i \in 1 .. n : C[i] \in Byte /\ C[i] = At(i - 1)
  BY <1>2, ElementOfSeq
<1>4. /\ SubSeq(C, 1, n) \in Seq(Byte)
      /\ Len(SubSeq(C, 1, n)) = IF 1 <= n THEN n - 1 + 1 ELSE 0
      /\ \A i \in 1 .. n - 1 + 1 : SubSeq(C, 1, n)[i] = C[1 + i - 1]
  BY <1>3, SubSeqProperties
<1>5. (IF 1 <= n THEN n - 1 + 1 ELSE 0) = n /\ n - 1 + 1 = n
  OBVIOUS
<1>6. \A i \in 1 .. n : 1 + i - 1 = i
  OBVIOUS
<1>7. \A i \in 1 .. n : SubSeq(C, 1, n)[i] = At(i - 1)
  BY <1>3, <1>4, <1>5, <1>6
<1> QED
  BY <1>4, <1>5, <1>7 DEF C

\* The first state.
LEMMA SoundInit == Init => Sound
<1> SUFFICES ASSUME Init PROVE Sound
  OBVIOUS
<1>1. capacity \in Nat \ {0, 1} /\ 0 \in Byte
  BY CapacityAssumption, ByteAssumption DEF Init, Byte
<1>2. 0 \in 0 .. capacity - 1
  BY <1>1
<1>3. todo \in Seq(Byte)
  BY StreamAssumption DEF Init
<1>4. <<>> \in Seq(Byte) /\ <<>> \in Seq(Seq(Byte))
  BY EmptySeq
<1> QED
  BY <1>1, <1>2, <1>3, <1>4 DEF Init, Sound, TypeOK, InHand

\* A read.
LEMMA SoundRead ==
  ASSUME Sound, NEW n \in ReadSizes, Read(n)
  PROVE  Sound'
<1>1. n \in Nat \ {0} /\ n <= Len(todo) /\ todo \in Seq(Byte) /\ Len(todo) \in Nat
  BY StreamAssumption, LenProperties DEF Read, Sound, TypeOK
<1>2. SubSeq(todo, 1, n) \in Seq(Byte)
  <2>1. \A i \in 1 .. n : todo[i] \in Byte
    BY <1>1, ElementOfSeq
  <2> QED
    BY <1>1, <2>1, SubSeqProperties
<1>3. SubSeq(todo, n + 1, Len(todo)) \in Seq(Byte)
  <2>1. \A i \in n + 1 .. Len(todo) : todo[i] \in Byte
    BY <1>1, ElementOfSeq
  <2>2. n + 1 \in Int /\ Len(todo) \in Int
    BY <1>1
  <2> QED
    BY <2>1, <2>2, SubSeqProperties
<1>4. taken' \in Nat
  BY <1>1 DEF Read, Sound, TypeOK
<1> QED
  BY <1>2, <1>3, <1>4 DEF Read, Sound, TypeOK, InHand, countVars

\* A byte goes into the ring.
LEMMA SoundPush ==
  ASSUME Sound, Push, UNCHANGED capacity
  PROVE  /\ ring' \in [0 .. capacity - 1 -> Byte]
         /\ head' \in 0 .. capacity - 1
         /\ chunk' \in Seq(Byte)
<1>1. /\ capacity \in Nat \ {0, 1} /\ head \in 0 .. capacity - 1
      /\ ring \in [0 .. capacity - 1 -> Byte] /\ chunk \in Seq(Byte) /\ chunk # <<>>
  BY CapacityAssumption DEF Sound, TypeOK, Push
<1>2. Head(chunk) \in Byte /\ Tail(chunk) \in Seq(Byte)
  BY <1>1, HeadTailProperties
<1>3. (head + 1) % capacity \in 0 .. capacity - 1
  <2>1. 1 \in 0 .. capacity
    BY <1>1
  <2> QED
    BY <1>1, <2>1, ModStep
<1> QED
  BY <1>1, <1>2, <1>3 DEF Push

\* The tail moves.
LEMMA SoundTail ==
  ASSUME TypeOK, NEW n \in Nat, n <= Available
  PROVE  (tail + n) % capacity \in 0 .. capacity - 1
<1>1. RingOK /\ tail \in 0 .. capacity - 1
  BY RingShape DEF TypeOK
<1>2. n \in 0 .. capacity /\ capacity \in Nat \ {0, 1}
  <2> DEFINE A == Available
  <2>1. A \in 0 .. capacity - 1 /\ n <= A /\ capacity \in Nat \ {0, 1}
    BY <1>1 DEF RingOK
  <2> HIDE DEF A
  <2> QED
    BY <2>1
<1> QED
  BY <1>1, <1>2, ModStep

\* A byte is passed over.
LEMMA SoundSkip ==
  ASSUME Sound, SkipByte
  PROVE  Sound'
<1>1. (tail + 1) % capacity \in 0 .. capacity - 1
  <2>1. 1 <= Available
    <3>1. Available \in Nat /\ Available >= 5
      BY RingShape DEF SkipByte, CanLook, MinPacketSize, Sound, RingOK
    <3> HIDE DEF Available
    <3> QED
      BY <3>1
  <2> QED
    BY <2>1, SoundTail DEF Sound
<1>2. passed' \in Nat
  BY DEF SkipByte, Sound, TypeOK
<1> QED
  BY <1>1, <1>2 DEF SkipByte, Sound, TypeOK, InHand, ctlVars

\* A packet is handed over.
LEMMA SoundParse ==
  ASSUME Sound, NEW reset \in BOOLEAN, ParsePacket(reset)
  PROVE  Sound'
<1>1. /\ TypeOK /\ CanLook /\ TotalLen <= Available
  BY DEF Sound, ParsePacket, Candidate, Arrived
<1>2. TotalLen \in Nat /\ Available \in Nat /\ capacity \in Nat \ {0, 1}
  BY <1>1, SizeInRing, RingShape DEF RingOK
<1>3. SubSeq(Contents, 1, TotalLen) \in Seq(Byte)
  BY <1>1, <1>2, FrontOfContents
<1>4. (tail + TotalLen) % capacity \in 0 .. capacity - 1
  BY <1>1, <1>2, SoundTail
<1>5. delivered' \in Seq(Seq(Byte))
  BY <1>3, AppendProperties DEF ParsePacket, Sound, TypeOK
<1>6. /\ head' \in 0 .. capacity - 1 /\ tail' \in 0 .. capacity - 1
      /\ voided' \in Nat /\ resets' \in Nat
  <2>1. Available - TotalLen \in Nat
    <3> HIDE DEF Available, TotalLen
    <3> QED
      BY <1>1, <1>2
  <2>2. head \in 0 .. capacity - 1 /\ voided \in Nat /\ resets \in Nat
    BY <1>1 DEF TypeOK
  <2>3. capacity' = capacity
    BY DEF ParsePacket
  <2>4. CASE reset
    <3> DEFINE n == Available - TotalLen
    <3>1. n \in Nat
      BY <2>1
    <3>2. Empty(n)
      BY <2>4 DEF ParsePacket
    <3> HIDE DEF n
    <3>3. head' = 0 /\ tail' = 0 /\ voided' = voided + n /\ resets' = resets + 1
      BY <3>2 DEF Empty
    <3>4. 0 \in 0 .. capacity - 1
      BY <1>2
    <3> QED
      BY <2>2, <3>1, <3>3, <3>4
  <2>5. CASE ~ reset
    <3>1. /\ tail' = (tail + TotalLen) % capacity
          /\ head' = head /\ voided' = voided /\ resets' = resets
      BY <2>5 DEF ParsePacket
    <3> QED
      BY <2>2, <3>1, <1>4
  <2> QED
    BY <2>4, <2>5
<1> QED
  BY <1>5, <1>6 DEF ParsePacket, Sound, TypeOK, InHand

\* The ring is thrown away, or a byte.
LEMMA SoundOverflow ==
  ASSUME Sound, Overflow
  PROVE  Sound'
<1>1. /\ chunk \in Seq(Byte) /\ chunk # <<>> /\ capacity \in Nat \ {0, 1}
      /\ ring \in [0 .. capacity - 1 -> Byte]
  BY CapacityAssumption DEF Sound, TypeOK, InHand, Overflow
<1>2. Head(chunk) \in Byte /\ Tail(chunk) \in Seq(Byte)
  BY <1>1, HeadTailProperties
<1>3. 1 % capacity \in 0 .. capacity - 1 /\ 0 \in 0 .. capacity - 1
  BY <1>1
<1>4. Available \in Nat
  BY RingShape DEF Sound, RingOK
<1>5. dropped' \in Nat
  BY <1>4 DEF Overflow, Sound, TypeOK
<1>6. [ring EXCEPT ![0] = Head(chunk)] \in [0 .. capacity - 1 -> Byte]
  BY <1>1, <1>2
<1>7. /\ ring' \in [0 .. capacity - 1 -> Byte]
      /\ head' \in 0 .. capacity - 1 /\ tail' \in 0 .. capacity - 1
  BY <1>3, <1>6 DEF Overflow, Sound, TypeOK
<1> QED
  BY <1>2, <1>5, <1>7 DEF Overflow, Sound, TypeOK, InHand

\* The handler is reset between two reads.
LEMMA SoundReset ==
  ASSUME Sound, Reset
  PROVE  Sound'
<1>1. Available \in Nat /\ capacity \in Nat \ {0, 1}
  BY RingShape DEF Sound, RingOK
<1>2. voided' \in Nat /\ resets' \in Nat
  BY <1>1 DEF Reset, Empty, Sound, TypeOK
<1>3. 0 \in 0 .. capacity - 1
  BY <1>1
<1> QED
  BY <1>2, <1>3 DEF Reset, Empty, Sound, TypeOK, InHand, ctlVars

\* Every step.
LEMMA SoundStep == Sound /\ [Next]_vars => Sound'
<1> SUFFICES ASSUME Sound, [Next]_vars PROVE Sound'
  OBVIOUS
<1>1. CASE \E n \in ReadSizes : Read(n)
  BY <1>1, SoundRead
<1>2. CASE PushByte
  BY <1>2, SoundPush DEF PushByte, Sound, TypeOK, InHand, countVars
<1>3. CASE StartDrain
  BY <1>3 DEF StartDrain, Sound, TypeOK, InHand, countVars
<1>4. CASE StartFinal
  BY <1>4 DEF StartFinal, Sound, TypeOK, InHand, countVars
<1>5. CASE SkipByte
  BY <1>5, SoundSkip
<1>6. CASE \E reset \in BOOLEAN : ParsePacket(reset)
  BY <1>6, SoundParse
<1>7. CASE EndRead
  BY <1>7 DEF EndRead, Sound, TypeOK, InHand, countVars
<1>8. CASE PushDrained
  BY <1>8, SoundPush DEF PushDrained, Sound, TypeOK, InHand, countVars
<1>9. CASE Overflow
  BY <1>9, SoundOverflow
<1>10. CASE Reset
  BY <1>10, SoundReset
<1>11. CASE UNCHANGED vars
  BY <1>11 DEF vars, ctlVars, countVars, Sound, TypeOK, InHand
<1> QED
  BY <1>1, <1>2, <1>3, <1>4, <1>5, <1>6, <1>7, <1>8, <1>9, <1>10, <1>11 DEF Next

\* The indices stay in the ring, and bytes stay bytes.
THEOREM Typed == Spec => []TypeOK
<1>1. Sound => TypeOK
  BY DEF Sound
<1> QED
  BY <1>1, SoundInit, SoundStep, PTL DEF Spec
-----------------------------------------------------------------------------
(* The ring never overflows, and little waits between two reads.           *)

\* A candidate fits in a full ring.
LEMMA FullIsParsed ==
  ASSUME TypeOK, Full, capacity > MinPacketSize
  PROVE  CanLook /\ (Candidate => Arrived)
<1>1. RingOK
  BY RingShape
<1> DEFINE A == Available
<1>2. A = capacity - 1 /\ capacity \in Nat
  BY <1>1 DEF RingOK
<1>3. CanLook
  <2> HIDE DEF A
  <2>1. A >= MinPacketSize
    BY <1>2 DEF MinPacketSize
  <2> QED
    BY <2>1 DEF CanLook, A
<1>4. ASSUME Candidate PROVE Arrived
  BY <1>2, <1>4 DEF Candidate, SizeMatches, Arrived
<1> QED
  BY <1>3, <1>4

\* What parse_packet leaves is shorter than a largest frame.
LEMMA NoPacketIsShort ==
  ASSUME TypeOK, NoPacket
  PROVE  Available < MaxFrame
<1>1. Available \in Nat /\ MaxPayload \in Nat
  BY RingShape, PayloadAssumption, ByteAssumption DEF RingOK, Byte
<1>2. CASE ~ CanLook
  <2> HIDE DEF Available
  <2>1. Available < MinPacketSize
    BY <1>1, <1>2 DEF CanLook, MinPacketSize
  <2> QED
    BY <1>1, <2>1 DEF MaxFrame, MinPacketSize
<1>3. CASE CanLook
  <2>1. Candidate /\ ~ Arrived
    BY <1>3 DEF NoPacket
  <2>2. At(3) \in Nat /\ At(3) <= MaxPayload
    <3>1. At(3) \in Byte
      BY <1>3, SizeInRing
    <3> QED
      BY <3>1, <2>1, ByteAssumption DEF Byte, Candidate, SizeMatches
  <2> HIDE DEF Available, At
  <2> QED
    BY <1>1, <2>1, <2>2 DEF Arrived, TotalLen, MaxFrame, MinPacketSize
<1> QED
  BY <1>2, <1>3

Calm == NeverOverflows /\ WaitIsShort

\* A step that may change the contents does not end in the idle mode, except
\* the end of a read and a reset.
LEMMA CalmStep == Sound /\ Sound' /\ Calm /\ [Next]_vars => Calm'
<1> SUFFICES ASSUME Sound, Sound', Calm, [Next]_vars PROVE Calm'
  OBVIOUS
<1>1. CASE \E n \in ReadSizes : Read(n)
  BY <1>1 DEF Read, Calm, NeverOverflows, WaitIsShort, countVars
<1>2. CASE PushByte
  BY <1>2 DEF PushByte, Calm, NeverOverflows, WaitIsShort, countVars
<1>3. CASE StartDrain
  BY <1>3 DEF StartDrain, Calm, NeverOverflows, WaitIsShort, countVars
<1>4. CASE StartFinal
  BY <1>4 DEF StartFinal, Calm, NeverOverflows, WaitIsShort, countVars
<1>5. CASE SkipByte
  BY <1>5 DEF SkipByte, Parsing, Calm, NeverOverflows, WaitIsShort, ctlVars
<1>6. CASE \E reset \in BOOLEAN : ParsePacket(reset)
  BY <1>6 DEF ParsePacket, Parsing, Calm, NeverOverflows, WaitIsShort
<1>7. CASE EndRead
  <2>1. Available < MaxFrame
    BY <1>7, NoPacketIsShort DEF EndRead, Sound
  <2>2. Available' = Available
    BY <1>7 DEF EndRead, Available
  <2>3. dropped' = dropped /\ capacity' = capacity
    BY <1>7 DEF EndRead, countVars
  <2> QED
    BY <2>1, <2>2, <2>3 DEF Calm, NeverOverflows, WaitIsShort
<1>8. CASE PushDrained
  BY <1>8 DEF PushDrained, Calm, NeverOverflows, WaitIsShort, countVars
<1>9. CASE Overflow
  <2>1. ~ (capacity > MinPacketSize)
    BY <1>9, FullIsParsed DEF Overflow, NoPacket, Sound
  <2> QED
    BY <1>9, <2>1 DEF Overflow, Calm, NeverOverflows, WaitIsShort
<1>10. CASE Reset
  <2>1. Available' = 0
    BY <1>10, EmptyRing DEF Reset, Empty, Sound
  <2>2. 0 < MaxFrame
    BY PayloadAssumption, ByteAssumption DEF MaxFrame, MinPacketSize, Byte
  <2> QED
    BY <1>10, <2>1, <2>2 DEF Reset, Calm, NeverOverflows, WaitIsShort
<1>11. CASE UNCHANGED vars
  <2>1. Available' = Available
    BY <1>11 DEF vars, Available
  <2> QED
    BY <1>11, <2>1 DEF vars, ctlVars, countVars, Calm, NeverOverflows, WaitIsShort
<1> QED
  BY <1>1, <1>2, <1>3, <1>4, <1>5, <1>6, <1>7, <1>8, <1>9, <1>10, <1>11 DEF Next

\* An empty ring waits for nothing.
LEMMA CalmInit == Init => Calm
<1> SUFFICES ASSUME Init PROVE Calm
  OBVIOUS
<1>1. RingOK
  BY SoundInit, RingShape DEF Sound
<1>2. Available = 0
  BY <1>1 DEF RingOK, Gap, Init
<1>3. 0 < MaxFrame
  BY PayloadAssumption, ByteAssumption DEF MaxFrame, MinPacketSize, Byte
<1> QED
  BY <1>2, <1>3 DEF Init, Calm, NeverOverflows, WaitIsShort

\* In a ring larger than the smallest frame, feed_data_with_recovery never
\* finds the ring full after it has drained it: no received byte is dropped.
THEOREM RingNeverOverflows == Spec => []NeverOverflows
<1>1. Calm => NeverOverflows
  BY DEF Calm
<1> QED
  BY <1>1, SoundInit, SoundStep, CalmInit, CalmStep, PTL DEF Spec

\* When feed_data_with_recovery returns, less than one largest frame is left
\* in the ring.
THEOREM WaitsAreShort == Spec => []WaitIsShort
<1>1. Calm => WaitIsShort
  BY DEF Calm
<1> QED
  BY <1>1, SoundInit, SoundStep, CalmInit, CalmStep, PTL DEF Spec
-----------------------------------------------------------------------------
(* Every byte is accounted for.                                            *)

\* The first bytes of a sequence are as many as asked for.
LEMMA FrontLength ==
  ASSUME NEW S, NEW s \in Seq(S), NEW n \in Nat, n <= Len(s)
  PROVE  Len(SubSeq(s, 1, n)) = n
<1>1. \A i \in 1 .. n : s[i] \in S
  <2>1. Len(s) \in Nat
    BY LenProperties
  <2> QED
    BY <2>1, ElementOfSeq
<1>2. Len(SubSeq(s, 1, n)) = IF 1 <= n THEN n - 1 + 1 ELSE 0
  BY <1>1, SubSeqProperties
<1> QED
  BY <1>2

\* The numbers that DropsCounted adds up.
Counts ==
  /\ Len(chunk) \in Nat /\ Available \in Nat
  /\ Len(FlattenSeq(delivered)) \in Nat
  /\ passed \in Nat /\ voided \in Nat /\ dropped \in Nat /\ taken \in Nat

\* They are numbers.
LEMMA CountsAreNat == Sound => Counts
<1> SUFFICES ASSUME Sound PROVE Counts
  OBVIOUS
<1>1. Available \in Nat
  BY RingShape DEF Sound, RingOK
<1>2. Len(FlattenSeq(delivered)) \in Nat
  <2>1. delivered \in Seq(Seq(Byte)) /\ <<>> \in Seq(Byte)
    BY EmptySeq DEF Sound, TypeOK
  <2> QED
    BY <2>1, LenFlattenAppend
<1>3. Len(chunk) \in Nat
  BY LenProperties DEF Sound, TypeOK
<1> QED
  BY <1>1, <1>2, <1>3 DEF Sound, TypeOK, Counts

\* A byte pushed moves from the hand to the ring.
LEMMA PushCounts ==
  ASSUME Sound, Sound', Push, UNCHANGED <<capacity, tail>>
  PROVE  Len(chunk') = Len(chunk) - 1 /\ Available' = Available + 1
<1>1. /\ chunk' = Tail(chunk) /\ chunk # <<>> /\ Available' = Available + 1
  BY PushAppends DEF Sound
<1>2. chunk \in Seq(Byte)
  BY DEF Sound, TypeOK
<1> QED
  BY <1>1, <1>2, HeadTailProperties

\* A step moves bytes from one count to another, and only a read adds any.
LEMMA CountsStep == Sound /\ Sound' /\ DropsCounted /\ [Next]_vars => DropsCounted'
<1> SUFFICES ASSUME Sound, Sound', DropsCounted, [Next]_vars PROVE DropsCounted'
  OBVIOUS
<1> DEFINE L == Len(chunk)
           A == Available
           F == Len(FlattenSeq(delivered))
<1>0. /\ L \in Nat /\ A \in Nat /\ F \in Nat /\ L' \in Nat /\ A' \in Nat /\ F' \in Nat
      /\ passed \in Nat /\ voided \in Nat /\ dropped \in Nat /\ taken \in Nat
  <2>1. Counts /\ Counts'
    BY CountsAreNat, PTL
  <2> QED
    BY <2>1 DEF Counts
<1>a. taken = L + A + F + passed + voided + dropped
  BY DEF DropsCounted
<1>b. DropsCounted' <=> taken' = L' + A' + F' + passed' + voided' + dropped'
  BY DEF DropsCounted
<1>c. /\ UNCHANGED chunk => L' = L
      /\ UNCHANGED <<capacity, head, tail>> => A' = A
      /\ UNCHANGED delivered => F' = F
  BY DEF Available
<1>1. CASE \E n \in ReadSizes : Read(n)
  <2>1. PICK n \in ReadSizes : Read(n)
    BY <1>1
  <2>2. /\ n \in Nat /\ n <= Len(todo) /\ todo \in Seq(Byte) /\ chunk = <<>>
    BY <2>1, StreamAssumption DEF Read, Sound, TypeOK, InHand
  <2>3. L = 0 /\ L' = n
    BY <2>1, <2>2, FrontLength, EmptySeq DEF Read
  <2>4. A' = A /\ F' = F
    BY <1>c, <2>1 DEF Read, countVars
  <2>5. passed' = passed /\ voided' = voided /\ dropped' = dropped /\ taken' = taken + n
    BY <2>1 DEF Read, countVars
  <2> HIDE DEF L, A, F
  <2> QED
    BY <1>0, <1>a, <1>b, <2>2, <2>3, <2>4, <2>5
<1>2. CASE PushByte \/ PushDrained
  <2>1. Push /\ UNCHANGED <<capacity, tail, taken, countVars>>
    BY <1>2 DEF PushByte, PushDrained
  <2>2. L' = L - 1 /\ A' = A + 1
    BY <2>1, PushCounts
  <2>3. F' = F /\ passed' = passed /\ voided' = voided /\ dropped' = dropped /\ taken' = taken
    BY <1>c, <2>1 DEF countVars
  <2> HIDE DEF L, A, F
  <2> QED
    BY <1>0, <1>a, <1>b, <2>2, <2>3
<1>3. CASE StartDrain \/ StartFinal \/ EndRead \/ UNCHANGED vars
  <2>1. UNCHANGED <<capacity, head, tail, chunk, taken, countVars>>
    BY <1>3 DEF StartDrain, StartFinal, EndRead, vars, ctlVars
  <2>2. L' = L /\ A' = A /\ F' = F
    BY <1>c, <2>1 DEF countVars
  <2>3. passed' = passed /\ voided' = voided /\ dropped' = dropped /\ taken' = taken
    BY <2>1 DEF countVars
  <2> HIDE DEF L, A, F
  <2> QED
    BY <1>a, <1>b, <2>2, <2>3
<1>4. CASE SkipByte
  <2>1. A >= MinPacketSize
    BY <1>4 DEF SkipByte, CanLook
  <2>2. A' = A - 1
    <3>1. 1 <= A
      <4> HIDE DEF A
      <4> QED
        BY <1>0, <2>1 DEF MinPacketSize
    <3> QED
      BY <1>4, <3>1, AdvanceDrops DEF SkipByte, Sound
  <2>3. L' = L /\ F' = F
    BY <1>c, <1>4 DEF SkipByte, ctlVars
  <2>4. passed' = passed + 1 /\ voided' = voided /\ dropped' = dropped /\ taken' = taken
    BY <1>4 DEF SkipByte
  <2> HIDE DEF L, A, F
  <2> QED
    BY <1>0, <1>a, <1>b, <2>2, <2>3, <2>4
<1>5. CASE \E reset \in BOOLEAN : ParsePacket(reset)
  <2>1. PICK reset \in BOOLEAN : ParsePacket(reset)
    BY <1>5
  <2>2. TotalLen <= A /\ TotalLen \in Nat
    BY <2>1, SizeInRing DEF ParsePacket, Candidate, Arrived, Sound
  <2>3. F' = F + TotalLen
    <3>1. /\ SubSeq(Contents, 1, TotalLen) \in Seq(Byte)
          /\ Len(SubSeq(Contents, 1, TotalLen)) = TotalLen
      BY <2>2, FrontOfContents DEF Sound
    <3>2. delivered \in Seq(Seq(Byte))
      BY DEF Sound, TypeOK
    <3>3. delivered' = Append(delivered, SubSeq(Contents, 1, TotalLen))
      BY <2>1 DEF ParsePacket
    <3> HIDE DEF TotalLen, Contents
    <3> QED
      BY <3>1, <3>2, <3>3, LenFlattenAppend
  <2>4. L' = L /\ passed' = passed /\ dropped' = dropped /\ taken' = taken
    BY <1>c, <2>1 DEF ParsePacket
  <2>5. CASE reset
    <3>1. A' = 0
      BY <2>1, <2>5, EmptyRing DEF ParsePacket, Empty, Sound
    <3>2. voided' = voided + (A - TotalLen)
      BY <2>1, <2>5 DEF ParsePacket, Empty
    <3> HIDE DEF L, A, F, TotalLen
    <3> QED
      BY <1>0, <1>a, <1>b, <2>2, <2>3, <2>4, <3>1, <3>2
  <2>6. CASE ~ reset
    <3>1. A' = A - TotalLen
      BY <2>1, <2>2, <2>6, AdvanceDrops DEF ParsePacket, Sound
    <3>2. voided' = voided
      BY <2>1, <2>6 DEF ParsePacket
    <3> HIDE DEF L, A, F, TotalLen
    <3> QED
      BY <1>0, <1>a, <1>b, <2>2, <2>3, <2>4, <3>1, <3>2
  <2> QED
    BY <2>5, <2>6
<1>6. CASE Overflow
  <2>1. chunk \in Seq(Byte) /\ chunk # <<>> /\ chunk' = Tail(chunk)
    BY <1>6 DEF Overflow, Sound, TypeOK, InHand
  <2>2. L' = L - 1
    BY <2>1, HeadTailProperties
  <2>3. F' = F /\ passed' = passed /\ voided' = voided /\ taken' = taken
    BY <1>c, <1>6 DEF Overflow
  <2>4. CASE drained_any
    <3>1. A' = A /\ dropped' = dropped + 1
      BY <1>6, <2>4, <1>c DEF Overflow
    <3> HIDE DEF L, A, F
    <3> QED
      BY <1>0, <1>a, <1>b, <2>2, <2>3, <3>1
  <2>5. CASE ~ drained_any
    <3>1. dropped' = dropped + A /\ head' = 1 % capacity /\ tail' = 0 /\ capacity' = capacity
      BY <1>6, <2>5 DEF Overflow
    <3>2. RingOK'
      BY RingShape, PTL DEF Sound
    <3>3. capacity \in Nat \ {0, 1}
      BY CapacityAssumption DEF Sound, TypeOK
    <3>4. head' = 1
      BY <3>1, <3>3
    <3>5. A' = 1
      BY <3>1, <3>2, <3>4 DEF RingOK, Gap
    <3> HIDE DEF L, A, F
    <3> QED
      BY <1>0, <1>a, <1>b, <2>2, <2>3, <3>1, <3>5
  <2> QED
    BY <2>4, <2>5
<1>7. CASE Reset
  <2>1. A' = 0
    BY <1>7, EmptyRing DEF Reset, Empty, Sound
  <2>2. L' = L /\ F' = F
    BY <1>7, <1>c DEF Reset, ctlVars
  <2>3. voided' = voided + A /\ passed' = passed /\ dropped' = dropped /\ taken' = taken
    BY <1>7 DEF Reset, Empty
  <2> HIDE DEF L, A, F
  <2> QED
    BY <1>0, <1>a, <1>b, <2>1, <2>2, <2>3
<1> QED
  BY <1>1, <1>2, <1>3, <1>4, <1>5, <1>6, <1>7 DEF Next

\* Nothing has been read at first.
LEMMA CountsInit == Init => DropsCounted
<1> SUFFICES ASSUME Init PROVE DropsCounted
  OBVIOUS
<1>1. Available = 0
  BY SoundInit, RingShape DEF Sound, RingOK, Gap, Init
<1>2. Len(chunk) = 0
  BY EmptySeq DEF Init
<1>3. FlattenSeq(delivered) = <<>>
  <2>1. delivered = <<>> /\ Len(delivered) = 0
    BY EmptySeq DEF Init
  <2> QED
    BY <2>1 DEF FlattenSeq
<1>4. Len(FlattenSeq(delivered)) = 0
  BY <1>3, EmptySeq
<1> HIDE DEF Available
<1> QED
  BY <1>1, <1>2, <1>4 DEF Init, DropsCounted

\* The number in the overflow warning is true: what is neither delivered,
\* passed over, voided by a reset nor in hand has been counted as dropped.
THEOREM DropsAreCounted == Spec => []DropsCounted
  BY SoundInit, SoundStep, CountsInit, CountsStep, PTL DEF Spec
-----------------------------------------------------------------------------
(* What parse_packet takes is a frame, and what it passes over cannot begin *)
(* one.                                                                    *)

\* The packet handed over is a frame.
LEMMA ParsedIsFrame ==
  ASSUME TypeOK, Candidate, Arrived, ChecksumMatches
  PROVE  SubSeq(Contents, 1, TotalLen) \in Frames
<1> DEFINE id == At(2)
           n == At(3)
           p == [i \in 1 .. n |-> At(3 + i)]
           t == At(TotalLen - 1)
           f == SubSeq(Contents, 1, TotalLen)
           c == [i \in 1 .. 2 + n |-> At(1 + i)]
<1>1. RingOK
  BY RingShape
<1>2. CanLook /\ TotalLen <= Available
  BY DEF Candidate, Arrived
<1>3. /\ TotalLen \in Nat /\ id \in Byte /\ n \in Byte /\ TotalLen = 5 + n /\ n \in Nat
  <2>1. 2 \in 0 .. 4 /\ 3 \in 0 .. 4
    OBVIOUS
  <2>2. id \in Byte /\ n \in Byte
    BY <1>2, <2>1, SizeInRing
  <2>3. n \in Nat
    BY <2>2, ByteAssumption DEF Byte
  <2>4. TotalLen = 5 + n
    BY DEF TotalLen, MinPacketSize
  <2> HIDE DEF n
  <2> QED
    BY <2>2, <2>3, <2>4
<1>4. id \in PacketIds /\ n = expected_payload_size[id]
  <2>1. expected_payload_size[id] # 0 /\ n = expected_payload_size[id]
    BY DEF Candidate, SizeMatches
  <2> HIDE DEF id, n
  <2> QED
    BY <1>3, <2>1 DEF PacketIds
<1>5. /\ f \in Seq(Byte) /\ Len(f) = 5 + n
      /\ \A i \in 1 .. 5 + n : f[i] = At(i - 1)
  <2>1. /\ f \in Seq(Byte) /\ Len(f) = TotalLen
        /\ \A i \in 1 .. TotalLen : f[i] = At(i - 1)
    BY <1>2, <1>3, FrontOfContents
  <2> HIDE DEF f, n, At, TotalLen
  <2> QED
    BY <1>3, <2>1
<1>6. \A i \in 0 .. 4 + n : At(i) \in Byte
  <2> DEFINE A == Available
  <2>1. /\ A \in 0 .. capacity - 1 /\ capacity \in Nat
        /\ \A i \in 0 .. capacity - 1 : At(i) \in Byte
        /\ 5 + n <= A
    BY <1>1, <1>2, <1>3 DEF RingOK
  <2> HIDE DEF A, n, At
  <2>2. \A i \in 0 .. 4 + n : i \in 0 .. capacity - 1
    BY <1>3, <2>1
  <2> QED
    BY <2>1, <2>2
<1>7. TotalLen - 1 = 4 + n
  <2> HIDE DEF n, TotalLen
  <2> QED
    BY <1>3
<1>t. t = At(4 + n)
  BY <1>7
<1> HIDE DEF f, n, id, t, At
<1>8. \A i \in 1 .. n : 3 + i \in 0 .. 4 + n /\ 4 + i \in 1 .. 5 + n /\ (4 + i) - 1 = 3 + i
                        /\ 2 + i \in 1 .. 2 + n /\ 1 + (2 + i) = 3 + i
  BY <1>3
<1>9. t \in Byte
  <2>1. 4 + n \in 0 .. 4 + n
    BY <1>3
  <2> QED
    BY <1>6, <1>t, <2>1
<1>10. p \in PayloadsOf(id)
  <2>1. p \in [1 .. n -> Byte]
    BY <1>6, <1>8
  <2> HIDE DEF p
  <2> QED
    BY <1>4, <2>1 DEF PayloadsOf
<1>11. f[1] = Header1 /\ f[2] = Header2 /\ f[3] = id /\ f[4] = n
  <2>1. f[1] = At(0) /\ f[2] = At(1) /\ f[3] = At(2) /\ f[4] = At(3)
    <3>1. 1 \in 1 .. 5 + n /\ 2 \in 1 .. 5 + n /\ 3 \in 1 .. 5 + n /\ 4 \in 1 .. 5 + n
      BY <1>3
    <3> QED
      BY <1>5, <3>1
  <2>2. At(0) = Header1 /\ At(1) = Header2
    BY DEF Candidate, HeaderMatches
  <2> QED
    BY <2>1, <2>2 DEF id, n
<1>12. \A i \in 1 .. n : f[4 + i] = p[i]
  <2>1. ASSUME NEW i \in 1 .. n PROVE f[4 + i] = p[i]
    <3>1. PICK k \in 1 .. 5 + n : k = 4 + i /\ k - 1 = 3 + i
      BY <1>8
    <3>2. f[k] = At(3 + i)
      BY <1>5, <3>1
    <3> QED
      BY <3>1, <3>2
  <2> QED
    BY <2>1
<1>13. f[5 + n] = t
  <2>1. PICK k \in 1 .. 5 + n : k = 5 + n /\ k - 1 = 4 + n
    <3>1. 5 + n \in 1 .. 5 + n /\ (5 + n) - 1 = 4 + n
      BY <1>3
    <3> QED
      BY <3>1
  <2> QED
    BY <1>5, <1>t, <2>1
<1>14. Spells(f, id, p, t)
  <2> HIDE DEF p
  <2> QED
    BY <1>4, <1>5, <1>11, <1>12, <1>13 DEF Spells
<1>15. c = Covered(id, p)
  <2>1. c \in Seq(Byte) /\ Len(c) = 2 + n
    <3>1. \A i \in 1 .. 2 + n : 1 + i \in 0 .. 4 + n
      BY <1>3
    <3>2. c \in [1 .. 2 + n -> Byte] /\ 2 + n \in Nat
      BY <1>3, <1>6, <3>1
    <3> QED
      BY <3>2
  <2>2. c[1] = id /\ c[2] = n
    <3>1. 1 \in 1 .. 2 + n /\ 2 \in 1 .. 2 + n
      BY <1>3
    <3>2. c[1] = At(2) /\ c[2] = At(3)
      BY <3>1
    <3> QED
      BY <3>2 DEF id, n
  <2>3. ASSUME NEW i \in 1 .. n PROVE c[2 + i] = p[i]
    <3>1. PICK k \in 1 .. 2 + n : k = 2 + i /\ 1 + k = 3 + i
      BY <1>8
    <3>2. c[k] = At(3 + i)
      BY <3>1
    <3> QED
      BY <3>1, <3>2
  <2>4. SpellsCovered(c, id, p)
    <3> HIDE DEF c, p
    <3> QED
      BY <1>4, <2>1, <2>2, <2>3 DEF SpellsCovered
  <2> HIDE DEF c, p
  <2> QED
    BY <1>4, <1>10, <2>4, SpelledIsCovered
<1>16. HasChecksum => t = Checksum(Covered(id, p))
  <2>1. HasChecksum => Checksum(c) = t
    BY DEF ChecksumMatches, t, n
  <2> HIDE DEF c, p
  <2> QED
    BY <1>15, <2>1
<1> HIDE DEF p
<1>17. f \in Frames
  BY <1>4, <1>9, <1>10, <1>14, <1>16, PartsFrame
<1> QED
  BY <1>17 DEF f
Unread == Contents \o chunk

\* What has been received and not yet dealt with.
UnreadOK ==
  /\ Unread \in Seq(Byte)
  /\ Len(Unread) = Available + Len(chunk)
  /\ \A i \in 1 .. Available : Unread[i] = At(i - 1)
  /\ \A i \in 1 .. Len(chunk) : Unread[Available + i] = chunk[i]

\* The ring first, then what is in hand.
LEMMA UnreadShape == Sound => UnreadOK
<1> SUFFICES ASSUME Sound PROVE UnreadOK
  OBVIOUS
<1> DEFINE A == Available
           C == Contents
<1>1. /\ A \in Nat /\ C \in Seq(Byte) /\ Len(C) = A
      /\ \A i \in 1 .. A : C[i] = At(i - 1)
  BY RingShape DEF Sound, RingOK
<1>2. chunk \in Seq(Byte) /\ Len(chunk) \in Nat
  BY LenProperties DEF Sound, TypeOK
<1>u. Unread = C \o chunk
  BY DEF Unread
<1> HIDE DEF A, C, At
<1>3. /\ Unread \in Seq(Byte) /\ Len(Unread) = A + Len(chunk)
      /\ \A i \in 1 .. A + Len(chunk) : Unread[i] = IF i <= A THEN C[i] ELSE chunk[i - A]
  BY <1>1, <1>2, <1>u, ConcatProperties
<1>4. ASSUME NEW i \in 1 .. A PROVE Unread[i] = At(i - 1)
  <2>1. i \in 1 .. A + Len(chunk) /\ i <= A
    BY <1>1, <1>2
  <2> QED
    BY <1>1, <1>3, <2>1
<1>5. ASSUME NEW i \in 1 .. Len(chunk) PROVE Unread[A + i] = chunk[i]
  <2>1. PICK k \in Nat : k = A + i
    BY <1>1
  <2>2. k \in 1 .. A + Len(chunk) /\ ~ (k <= A) /\ k - A = i
    BY <1>1, <1>2, <2>1
  <2> QED
    BY <1>3, <2>1, <2>2
<1> QED
  BY <1>3, <1>4, <1>5 DEF UnreadOK, A

\* A prefix agrees with the whole.
LEMMA PrefixAgrees ==
  ASSUME NEW S, NEW s \in Seq(S), NEW t \in Seq(S), IsPrefix(s, t)
  PROVE  Len(s) <= Len(t) /\ SameTo(s, t, Len(s))
<1>1. /\ Len(s) \in Nat /\ Len(t) \in Nat /\ Len(s) <= Len(t)
      /\ SubSeq(s, 1, Len(s)) = SubSeq(t, 1, Len(s))
  BY LenProperties DEF IsPrefix
<1>2. PICK n \in Nat : n = Len(s)
  BY <1>1
<1>3. \A i \in 1 .. n : s[i] \in S /\ t[i] \in S
  BY <1>1, <1>2, ElementOfSeq
<1>4. \A i \in 1 .. n - 1 + 1 : SubSeq(s, 1, n)[i] = s[1 + i - 1]
  BY <1>3, SubSeqProperties
<1>5. \A i \in 1 .. n - 1 + 1 : SubSeq(t, 1, n)[i] = t[1 + i - 1]
  BY <1>3, SubSeqProperties
<1>6. ASSUME NEW i \in 1 .. n PROVE s[i] = t[i]
  <2>1. i \in 1 .. n - 1 + 1 /\ 1 + i - 1 = i
    OBVIOUS
  <2>2. SubSeq(s, 1, n)[i] = s[i] /\ SubSeq(t, 1, n)[i] = t[i]
    BY <1>4, <1>5, <2>1
  <2> QED
    BY <1>1, <1>2, <2>2
<1> QED
  BY <1>1, <1>2, <1>6 DEF SameTo

\* Two sequences that agree are prefixes, the shorter of the longer.
LEMMA AgreeingIsPrefix ==
  ASSUME NEW S, NEW s \in Seq(S), NEW t \in Seq(S),
         Len(s) <= Len(t), SameTo(s, t, Len(s))
  PROVE  IsPrefix(s, t)
<1>1. Len(s) \in Nat /\ Len(t) \in Nat
  BY LenProperties
<1>2. PICK n \in Nat : n = Len(s)
  BY <1>1
<1>3. \A i \in 1 .. n : s[i] \in S /\ t[i] \in S /\ s[i] = t[i]
  BY <1>1, <1>2, ElementOfSeq DEF SameTo
<1>4. /\ SubSeq(s, 1, n) \in Seq(S)
      /\ Len(SubSeq(s, 1, n)) = IF 1 <= n THEN n - 1 + 1 ELSE 0
      /\ \A i \in 1 .. n - 1 + 1 : SubSeq(s, 1, n)[i] = s[1 + i - 1]
  BY <1>3, SubSeqProperties
<1>5. /\ SubSeq(t, 1, n) \in Seq(S)
      /\ Len(SubSeq(t, 1, n)) = IF 1 <= n THEN n - 1 + 1 ELSE 0
      /\ \A i \in 1 .. n - 1 + 1 : SubSeq(t, 1, n)[i] = t[1 + i - 1]
  BY <1>3, SubSeqProperties
<1>6. ASSUME NEW i \in 1 .. Len(SubSeq(s, 1, n)) PROVE SubSeq(s, 1, n)[i] = SubSeq(t, 1, n)[i]
  <2>1. i \in 1 .. n - 1 + 1 /\ i \in 1 .. n /\ 1 + i - 1 = i
    BY <1>4
  <2> QED
    BY <1>3, <1>4, <1>5, <2>1
<1>7. SubSeq(s, 1, n) = SubSeq(t, 1, n)
  BY <1>4, <1>5, <1>6, SeqEqual
<1> QED
  BY <1>2, <1>7 DEF IsPrefix

\* A frame that begins at the tail is recognised.
LEMMA FrameIsCandidate ==
  ASSUME Sound, capacity > MaxFrame, CanLook,
         NEW id \in PacketIds, NEW p \in PayloadsOf(id), NEW t \in Byte,
         NEW g, Spells(g, id, p, t), NEW k \in Nat, SameTo(g, Unread, k), k >= 5,
         k <= Len(g)
  PROVE  Candidate /\ Len(g) = TotalLen /\ id = At(2)
<1> DEFINE n == expected_payload_size[id]
           A == Available
<1>1. /\ n \in Nat /\ n <= MaxPayload /\ n # 0 /\ MaxPayload \in Nat
      /\ expected_payload_size[id] # 0
  BY PayloadAssumption, ByteAssumption DEF PacketIds, Byte
<1>2. /\ Len(g) = 5 + n
      /\ g[1] = Header1 /\ g[2] = Header2 /\ g[3] = id /\ g[4] = n
  BY DEF Spells
<1> HIDE DEF n
<1>3. /\ A \in Nat /\ A >= 5 /\ \A i \in 1 .. A : Unread[i] = At(i - 1)
      /\ capacity \in Nat
  BY UnreadShape, RingShape DEF CanLook, MinPacketSize, UnreadOK, Sound, RingOK
<1>4. At(0) = Header1 /\ At(1) = Header2 /\ At(2) = id /\ At(3) = n
  <2>1. \A i \in 1 .. 4 : i \in 1 .. k /\ i \in 1 .. A
    BY <1>3
  <2>2. \A i \in 1 .. 4 : g[i] = At(i - 1)
    BY <1>3, <2>1 DEF SameTo
  <2>3. g[1] = At(0) /\ g[2] = At(1) /\ g[3] = At(2) /\ g[4] = At(3)
    BY <2>2
  <2> QED
    BY <1>2, <2>3
<1>5. HeaderMatches
  BY <1>4 DEF HeaderMatches
<1>6. TotalLen = 5 + n
  BY <1>4 DEF TotalLen, MinPacketSize
<1>7. SizeMatches
  <2>1. 5 + n <= capacity - 1
    BY <1>1, <1>3 DEF MaxFrame, MinPacketSize
  <2>2. expected_payload_size[At(2)] # 0 /\ At(3) = expected_payload_size[At(2)]
    BY <1>1, <1>4 DEF n
  <2> QED
    BY <1>1, <1>4, <1>6, <2>1, <2>2 DEF SizeMatches
<1> QED
  BY <1>2, <1>4, <1>5, <1>6, <1>7 DEF Candidate

\* Once the whole frame is there, its checksum matches.
LEMMA FrameMatches ==
  ASSUME Sound, NEW id \in PacketIds, NEW p \in PayloadsOf(id), NEW t \in Byte,
         NEW g, Spells(g, id, p, t), HasChecksum => t = Checksum(Covered(id, p)),
         SameTo(g, Unread, Len(g)), Len(g) = TotalLen, TotalLen <= Available
  PROVE  ChecksumMatches
<1> SUFFICES ASSUME HasChecksum PROVE ChecksumMatches
  BY DEF ChecksumMatches
<1> DEFINE n == expected_payload_size[id]
           A == Available
           c == [i \in 1 .. 2 + n |-> At(1 + i)]
<1>1. /\ n \in Nat /\ id \in Byte /\ n \in Byte
  BY PayloadAssumption, ByteAssumption DEF PacketIds, Byte
<1>2. /\ Len(g) = 5 + n
      /\ g[3] = id /\ g[4] = n /\ g[5 + n] = t
      /\ \A i \in 1 .. n : g[4 + i] = p[i]
      /\ g \in Seq(Byte)
  BY DEF Spells
<1>p. t = Checksum(Covered(id, p))
  OBVIOUS
<1> HIDE DEF n
<1>3. /\ A \in Nat /\ 5 + n <= A /\ \A i \in 1 .. A : Unread[i] = At(i - 1)
  BY <1>2, UnreadShape, RingShape DEF UnreadOK, Sound, RingOK
<1>4. \A i \in 1 .. 5 + n : At(i - 1) = g[i]
  <2>1. \A i \in 1 .. 5 + n : i \in 1 .. A /\ g[i] = Unread[i]
    BY <1>1, <1>2, <1>3 DEF SameTo
  <2> QED
    BY <1>3, <2>1
<1> HIDE DEF A
<1>5. \A i \in 1 .. 2 + n : At(1 + i) = g[2 + i]
  <2>1. ASSUME NEW i \in 1 .. 2 + n PROVE At(1 + i) = g[2 + i]
    <3>1. PICK k \in 1 .. 5 + n : k = 2 + i /\ k - 1 = 1 + i
      <4>1. 2 + i \in 1 .. 5 + n /\ 2 + i - 1 = 1 + i
        BY <1>1
      <4> QED
        BY <4>1
    <3>2. At(k - 1) = g[k]
      BY <1>4
    <3> HIDE DEF At
    <3> QED
      BY <3>1, <3>2
  <2> QED
    BY <2>1
<1>6. c \in Seq(Byte) /\ Len(c) = 2 + n
  <2>1. \A i \in 1 .. 2 + n : At(1 + i) \in Byte
    <3>1. ASSUME NEW i \in 1 .. 2 + n PROVE At(1 + i) \in Byte
      <4>1. 2 + i \in 1 .. Len(g)
        BY <1>1, <1>2
      <4>2. g[2 + i] \in Byte
        BY <1>2, <4>1, ElementOfSeq
      <4> QED
        BY <1>5, <4>2
    <3> QED
      BY <3>1
  <2> HIDE DEF At
  <2>2. c \in [1 .. 2 + n -> Byte] /\ 2 + n \in Nat
    BY <1>1, <2>1
  <2> QED
    BY <2>2
<1>7. \A i \in 1 .. 2 + n : c[i] = g[2 + i]
  <2> HIDE DEF At
  <2> QED
    BY <1>5
<1>8. n = At(3) /\ TotalLen - 1 = 4 + n /\ t = At(4 + n)
  <2>1. PICK k \in 1 .. 5 + n : k = 5 + n /\ k - 1 = 4 + n
    <3>1. PICK k \in Nat : k = 5 + n
      BY <1>1
    <3>2. k \in 1 .. 5 + n /\ k - 1 = 4 + n
      BY <1>1, <3>1
    <3> QED
      BY <3>1, <3>2
  <2>2. At(4 + n) = t
    <3>1. At(k - 1) = g[k]
      BY <1>4
    <3> HIDE DEF At
    <3> QED
      BY <1>2, <2>1, <3>1
  <2>3. At(3) = n
    <3>1. PICK j \in 1 .. 5 + n : j = 4 /\ j - 1 = 3
      <4>1. 4 \in 1 .. 5 + n
        BY <1>1
      <4> QED
        BY <4>1
    <3>2. At(j - 1) = g[j]
      BY <1>4
    <3> HIDE DEF At
    <3> QED
      BY <1>2, <3>1, <3>2
  <2>4. TotalLen = 5 + n
    BY <1>2
  <2> HIDE DEF At, TotalLen
  <2> QED
    BY <1>1, <2>2, <2>3, <2>4
<1> DEFINE m == At(3)
<1>9. c = [i \in 1 .. 2 + m |-> At(1 + i)]
  BY <1>8
<1> HIDE DEF c, m
<1>10. SpellsCovered(c, id, p)
  <2>1. c[1] = id /\ c[2] = n
    <3>1. 1 \in 1 .. 2 + n /\ 2 \in 1 .. 2 + n
      BY <1>1
    <3>2. c[1] = g[3] /\ c[2] = g[4]
      BY <1>7, <3>1
    <3> QED
      BY <1>2, <3>2
  <2>2. ASSUME NEW i \in 1 .. n PROVE c[2 + i] = p[i]
    <3>1. PICK k \in 1 .. 2 + n : k = 2 + i /\ 2 + k = 4 + i
      <4>1. 2 + i \in 1 .. 2 + n /\ 2 + (2 + i) = 4 + i
        BY <1>1
      <4> QED
        BY <4>1
    <3> QED
      BY <1>2, <1>7, <3>1
  <2> QED
    BY <1>6, <2>1, <2>2 DEF SpellsCovered, n
<1>11. c = Covered(id, p)
  BY <1>10, SpelledIsCovered
<1>12. Checksum(c) = At(TotalLen - 1)
  <2> HIDE DEF At, TotalLen
  <2> QED
    BY <1>8, <1>11, <1>p
<1> QED
  BY <1>9, <1>12 DEF ChecksumMatches, m
\* What is passed over cannot begin a frame, whatever follows.
LEMMA NoFrameBegins ==
  ASSUME Sound, capacity > MaxFrame, SkipByte, NEW g \in Frames,
         IsPrefix(g, Unread) \/ IsPrefix(Unread, g)
  PROVE  FALSE
<1>1. PICK id \in PacketIds : \E p \in PayloadsOf(id), t \in Byte :
        Spells(g, id, p, t) /\ (HasChecksum => t = Checksum(Covered(id, p)))
  BY FrameParts
<1>2. PICK p \in PayloadsOf(id), t \in Byte :
        Spells(g, id, p, t) /\ (HasChecksum => t = Checksum(Covered(id, p)))
  BY <1>1
<1> DEFINE A == Available
           L == Len(g)
           M == Len(Unread)
<1>3. /\ Unread \in Seq(Byte) /\ g \in Seq(Byte) /\ L \in Nat /\ M \in Nat
      /\ A \in Nat /\ A <= M /\ A >= 5 /\ L >= 5
  <2>1. Unread \in Seq(Byte) /\ M = A + Len(chunk) /\ Len(chunk) \in Nat
    BY UnreadShape, LenProperties DEF UnreadOK, Sound, TypeOK
  <2>2. A \in Nat /\ A >= 5
    BY RingShape DEF SkipByte, CanLook, MinPacketSize, Sound, RingOK
  <2>3. g \in Seq(Byte) /\ L = 5 + expected_payload_size[id]
    BY <1>2 DEF Spells
  <2>4. expected_payload_size[id] \in Nat
    BY PayloadAssumption, ByteAssumption DEF PacketIds, Byte
  <2> HIDE DEF A, L, M
  <2> QED
    BY <2>1, <2>2, <2>3, <2>4
<1>4. PICK k \in Nat : SameTo(g, Unread, k) /\ k >= 5 /\ k <= L /\ (L <= A => k = L)
  <2>1. CASE IsPrefix(g, Unread)
    <3>1. SameTo(g, Unread, L)
      BY <1>3, <2>1, PrefixAgrees
    <3> HIDE DEF L
    <3> QED
      BY <1>3, <3>1
  <2>2. CASE IsPrefix(Unread, g)
    <3>1. M <= L /\ SameTo(Unread, g, M)
      BY <1>3, <2>2, PrefixAgrees
    <3>2. SameTo(g, Unread, M)
      BY <3>1 DEF SameTo
    <3> HIDE DEF L, M, A
    <3>3. M >= 5 /\ M <= L /\ (L <= A => M = L)
      BY <1>3, <3>1
    <3> QED
      BY <1>3, <3>2, <3>3
  <2> QED
    BY <2>1, <2>2
<1>5. Candidate /\ L = TotalLen
  <2>1. CanLook
    BY DEF SkipByte
  <2>2. Spells(g, id, p, t) /\ k <= Len(g)
    BY <1>2, <1>4
  <2> QED
    BY <1>4, <2>1, <2>2, FrameIsCandidate
<1>6. Arrived /\ ~ ChecksumMatches
  BY <1>5 DEF SkipByte
<1>7. L <= A /\ TotalLen <= Available
  BY <1>5, <1>6 DEF Arrived
<1>8. SameTo(g, Unread, Len(g)) /\ Len(g) = TotalLen
  BY <1>4, <1>5, <1>7
<1>9. ChecksumMatches
  BY <1>2, <1>7, <1>8, FrameMatches
<1> QED
  BY <1>6, <1>9

-----------------------------------------------------------------------------
(* The refinement: with what is in the ring and in hand as the bytes not   *)
(* yet dealt with, every step is a step of FrameStream or changes nothing  *)
(* there.                                                                  *)

\* The frames of FrameStream are those of the handler.
LEMMA SameFrames == Stream!Frames = Frames
<1>1. ASSUME NEW s PROVE Stream!Checksum(s) = Checksum(s)
  BY DEF Stream!Checksum, Checksum, Stream!FoldLeft, FoldLeft,
         Stream!MapThenFoldSet, MapThenFoldSet, Stream!Max, Max
<1>2. ASSUME NEW id, NEW p PROVE Stream!Covered(id, p) = Covered(id, p)
  BY DEF Stream!Covered, Covered
<1>3. Stream!Byte = Byte /\ Stream!PacketIds = PacketIds
  BY DEF Stream!Byte, Byte, Stream!PacketIds, PacketIds
<1>4. ASSUME NEW id, NEW p PROVE Stream!Trailers(id, p) = Trailers(id, p)
  BY <1>1, <1>2, <1>3 DEF Stream!Trailers, Trailers
<1>5. ASSUME NEW id PROVE Stream!PayloadsOf(id) = PayloadsOf(id)
  BY <1>3 DEF Stream!PayloadsOf, PayloadsOf
<1>6. ASSUME NEW id PROVE Stream!FramesOf(id) = FramesOf(id)
  <2>1. ASSUME NEW f, f \in FramesOf(id) PROVE f \in Stream!FramesOf(id)
    <3>1. PICK p \in PayloadsOf(id) : \E u \in Trailers(id, p) : f = FrameOf(id, p, u)
      BY <2>1 DEF FramesOf, FrameOf
    <3>2. PICK t \in Trailers(id, p) : f = FrameOf(id, p, t)
      BY <3>1
    <3>3. /\ p \in Stream!PayloadsOf(id) /\ t \in Stream!Trailers(id, p)
          /\ f = <<Header1, Header2>> \o Stream!Covered(id, p) \o <<t>>
      BY <1>2, <1>4, <1>5, <3>2 DEF FrameOf
    <3> QED
      BY <3>3 DEF Stream!FramesOf
  <2>2. ASSUME NEW f, f \in Stream!FramesOf(id) PROVE f \in FramesOf(id)
    <3> DEFINE F(p, t) == <<Header1, Header2>> \o Stream!Covered(id, p) \o <<t>>
    <3>1. PICK p \in Stream!PayloadsOf(id) : \E u \in Stream!Trailers(id, p) : f = F(p, u)
      BY <2>2 DEF Stream!FramesOf
    <3>2. PICK t \in Stream!Trailers(id, p) : f = F(p, t)
      BY <3>1
    <3>3. p \in PayloadsOf(id) /\ t \in Trailers(id, p) /\ f = FrameOf(id, p, t)
      BY <1>2, <1>4, <1>5, <3>2 DEF FrameOf
    <3> QED
      BY <3>3 DEF FramesOf, FrameOf
  <2>3. ASSUME NEW f PROVE f \in Stream!FramesOf(id) <=> f \in FramesOf(id)
    BY <2>1, <2>2
  <2>4. (\A f : f \in Stream!FramesOf(id) <=> f \in FramesOf(id)) => Stream!FramesOf(id) = FramesOf(id)
    OBVIOUS
  <2> QED
    BY <2>3, <2>4
<1> QED
  BY <1>3, <1>6 DEF Stream!Frames, Frames

\* The tail of a sequence, as its last bytes.
LEMMA TailBytes ==
  ASSUME NEW S, NEW s \in Seq(S), NEW m \in Nat, NEW t \in Seq(S),
         m <= Len(s), Len(t) = Len(s) - m, \A i \in 1 .. Len(t) : t[i] = s[m + i]
  PROVE  t = SubSeq(s, m + 1, Len(s))
<1>1. PICK n \in Nat : n = Len(s)
  BY LenProperties
<1>2. \A i \in m + 1 .. n : s[i] \in S
  <2>1. \A i \in m + 1 .. n : i \in 1 .. n
    OBVIOUS
  <2> QED
    BY <1>1, <2>1, ElementOfSeq
<1>3. PICK l \in Nat : l = m + 1
  OBVIOUS
<1>4. /\ SubSeq(s, l, n) \in Seq(S)
      /\ Len(SubSeq(s, l, n)) = IF l <= n THEN n - l + 1 ELSE 0
      /\ \A i \in 1 .. n - l + 1 : SubSeq(s, l, n)[i] = s[l + i - 1]
  BY <1>2, <1>3, SubSeqProperties
<1>5. Len(SubSeq(s, l, n)) = n - m
  BY <1>1, <1>3, <1>4
<1>6. ASSUME NEW i \in 1 .. Len(t) PROVE t[i] = SubSeq(s, l, n)[i]
  <2>1. i \in 1 .. n - l + 1 /\ l + i - 1 = m + i
    BY <1>1, <1>3
  <2>2. SubSeq(s, l, n)[i] = s[m + i]
    BY <1>4, <2>1
  <2> QED
    BY <2>2
<1>7. t = SubSeq(s, l, n)
  BY <1>1, <1>4, <1>5, <1>6, SeqEqual
<1> QED
  BY <1>1, <1>3, <1>7
\* What the operators of FrameStream say of sequences.
LEMMA StreamOps ==
  /\ \A s, t : Stream!IsPrefix(s, t) <=> IsPrefix(s, t)
  /\ \A s, t : Stream!IsStrictPrefix(s, t) <=> IsPrefix(s, t) /\ s # t
  /\ \A s : Stream!Suffixes(s) = {SubSeq(s, l, Len(s)) : l \in 1 .. Len(s)} \cup {<<>>}
BY DEF Stream!IsPrefix, IsPrefix, Stream!IsStrictPrefix, Stream!Suffixes

\* A read appends to the bytes received.
LEMMA ReadReceives ==
  ASSUME Sound, Sound', NEW n \in ReadSizes, Read(n)
  PROVE  Stream!Receive
<1> DEFINE A == Available
           U == Unread
           U2 == Unread'
<1>1. UnreadOK /\ UnreadOK'
  BY UnreadShape, PTL
<1>2. /\ A' = A /\ \A i \in Nat : At(i)' = At(i)
      /\ delivered' = delivered /\ chunk = <<>>
  BY DEF Read, Available, At, countVars, Sound, InHand
<1>3. Len(chunk) = 0 /\ Len(chunk') \in Nat \ {0}
  <2>1. n \in Nat \ {0} /\ n <= Len(todo) /\ todo \in Seq(Byte)
    BY StreamAssumption DEF Read, Sound, TypeOK
  <2>2. chunk' = SubSeq(todo, 1, n)
    BY DEF Read
  <2> QED
    BY <1>2, <2>1, <2>2, FrontLength, EmptySeq
<1>4. /\ U \in Seq(Byte) /\ U2 \in Seq(Byte) /\ A \in Nat
      /\ Len(U) = A /\ Len(U2) = A + Len(chunk')
      /\ \A i \in 1 .. A : U[i] = At(i - 1)
      /\ \A i \in 1 .. A : U2[i] = At(i - 1)'
  <2>1. A \in Nat
    BY RingShape DEF Sound, RingOK
  <2> HIDE DEF A
  <2> QED
    BY <1>1, <1>2, <1>3, <2>1 DEF UnreadOK, A
<1>5. SameTo(U, U2, A)
  <2>1. \A i \in 1 .. A : i - 1 \in Nat
    BY <1>4
  <2> HIDE DEF U, U2, A, At
  <2> QED
    BY <1>2, <1>4, <2>1 DEF SameTo
<1> HIDE DEF U, U2, A
<1>6. IsPrefix(U, U2) /\ U # U2
  BY <1>3, <1>4, <1>5, AgreeingIsPrefix
<1> QED
  BY <1>2, <1>6, StreamOps DEF Stream!Receive, U, U2, Unread

\* A byte pushed is neither lost nor duplicated.
LEMMA PushKeeps ==
  ASSUME Sound, Sound', Push, UNCHANGED <<capacity, tail>>
  PROVE  Unread' = Unread
<1>1. /\ Contents' = Append(Contents, Head(chunk)) /\ chunk' = Tail(chunk) /\ chunk # <<>>
  BY PushAppends DEF Sound
<1>2. chunk \in Seq(Byte) /\ Contents \in Seq(Byte)
  BY RingShape DEF Sound, TypeOK, RingOK
<1>3. Head(chunk) \in Byte /\ Tail(chunk) \in Seq(Byte) /\ <<Head(chunk)>> \in Seq(Byte)
  BY <1>1, <1>2, HeadTailProperties
<1> DEFINE C == Contents
<1> HIDE DEF C
<1>4. Append(C, Head(chunk)) = C \o <<Head(chunk)>>
  BY <1>2, <1>3, AppendIsConcat DEF C
<1>5. (C \o <<Head(chunk)>>) \o Tail(chunk) = C \o (<<Head(chunk)>> \o Tail(chunk))
  BY <1>2, <1>3, ConcatAssociative DEF C
<1>6. <<Head(chunk)>> \o Tail(chunk) = chunk
  <2>1. <<Head(chunk)>> \o Tail(chunk) \in Seq(Byte)
    BY <1>3, ConcatProperties
  <2>2. /\ Len(<<Head(chunk)>> \o Tail(chunk)) = Len(chunk)
        /\ \A i \in 1 .. Len(chunk) : (<<Head(chunk)>> \o Tail(chunk))[i] = chunk[i]
    BY <1>1, <1>2, <1>3, HeadTailProperties
  <2> QED
    BY <1>2, <2>1, <2>2, SeqEqual
<1>7. Unread' = Append(C, Head(chunk)) \o Tail(chunk)
  BY <1>1 DEF Unread, C
<1> QED
  BY <1>4, <1>5, <1>6, <1>7 DEF Unread, C

\* Advancing the tail drops bytes from the front.
LEMMA AdvanceUnread ==
  ASSUME Sound, Sound', UNCHANGED <<capacity, ring, head, chunk>>,
         NEW n \in Nat, n <= Available, tail' = (tail + n) % capacity
  PROVE  Unread' = SubSeq(Unread, n + 1, Len(Unread))
<1> DEFINE A == Available
           A2 == Available'
           U == Unread
           U2 == Unread'
           L == Len(chunk)
<1>1. UnreadOK /\ UnreadOK' /\ RingOK /\ RingOK'
  BY UnreadShape, RingShape, PTL DEF Sound
<1>2. A2 = A - n /\ Contents' = SubSeq(Contents, n + 1, A)
  BY AdvanceDrops DEF Sound
<1>3. A \in Nat /\ n <= A /\ L \in Nat /\ chunk' = chunk
  BY <1>1, LenProperties DEF RingOK, Sound, TypeOK
<1>4. /\ U \in Seq(Byte) /\ Len(U) = A + L
      /\ \A i \in 1 .. A : U[i] = Contents[i]
      /\ \A i \in 1 .. L : U[A + i] = chunk[i]
  <2>1. \A i \in 1 .. A : Contents[i] = At(i - 1)
    BY <1>1 DEF RingOK
  <2> HIDE DEF At, Contents
  <2> QED
    BY <1>1, <2>1 DEF UnreadOK
<1>5. /\ U2 \in Seq(Byte) /\ Len(U2) = A2 + L
      /\ \A i \in 1 .. A2 : U2[i] = Contents'[i]
      /\ \A i \in 1 .. L : U2[A2 + i] = chunk[i]
  <2>1. \A i \in 1 .. A2 : Contents'[i] = At(i - 1)'
    BY <1>1 DEF RingOK
  <2>2. /\ U2 \in Seq(Byte) /\ Len(U2) = A2 + Len(chunk')
        /\ \A i \in 1 .. A2 : U2[i] = At(i - 1)'
        /\ \A i \in 1 .. Len(chunk') : U2[A2 + i] = chunk'[i]
    BY <1>1 DEF UnreadOK
  <2> HIDE DEF At, Contents, A2, U2
  <2> QED
    BY <1>3, <2>1, <2>2
<1>6. \A i \in 1 .. A - n : Contents'[i] = Contents[n + i]
  <2> DEFINE C == Contents
             C2 == Contents'
  <2>1. C \in Seq(Byte) /\ Len(C) = A
    BY <1>1 DEF RingOK
  <2>2. C2 = SubSeq(C, n + 1, A)
    BY <1>2
  <2> HIDE DEF C, C2, A
  <2>3. \A i \in n + 1 .. A : C[i] \in Byte
    <3>1. \A i \in n + 1 .. A : i \in 1 .. A
      BY <1>3
    <3> QED
      BY <2>1, <3>1, ElementOfSeq
  <2>4. PICK l \in Nat : l = n + 1
    OBVIOUS
  <2>5. \A i \in 1 .. A - l + 1 : SubSeq(C, l, A)[i] = C[l + i - 1]
    BY <1>3, <2>3, <2>4, SubSeqProperties
  <2>6. ASSUME NEW i \in 1 .. A - n PROVE C2[i] = C[n + i]
    <3>1. i \in 1 .. A - l + 1 /\ l + i - 1 = n + i
      BY <1>3, <2>4
    <3> QED
      BY <2>2, <2>4, <2>5, <3>1
  <2> QED
    BY <2>6 DEF C, C2
<1> HIDE DEF A, A2, U, U2, L
<1>7. Len(U2) = Len(U) - n /\ n <= Len(U)
  BY <1>2, <1>3, <1>4, <1>5
<1>8. ASSUME NEW i \in 1 .. Len(U2) PROVE U2[i] = U[n + i]
  <2>1. CASE i \in 1 .. A2
    <3>1. i \in 1 .. A - n /\ n + i \in 1 .. A
      BY <1>2, <1>3, <2>1
    <3>2. Contents'[i] = Contents[n + i]
      BY <1>6, <3>1
    <3> HIDE DEF Contents
    <3> QED
      BY <1>4, <1>5, <2>1, <3>1, <3>2
  <2>2. CASE i \notin 1 .. A2
    <3>1. PICK j \in 1 .. L : i = A2 + j /\ n + i = A + j
      <4>1. PICK j \in Int : j = i - A2
        BY <1>2, <1>3
      <4>2. j \in 1 .. L /\ i = A2 + j /\ n + i = A + j
        BY <1>2, <1>3, <1>5, <2>2, <4>1
      <4> QED
        BY <4>2
    <3>2. U2[A2 + j] = chunk[j] /\ U[A + j] = chunk[j]
      BY <1>4, <1>5
    <3> QED
      BY <3>1, <3>2
  <2> QED
    BY <2>1, <2>2
<1>9. U2 = SubSeq(U, n + 1, Len(U))
  BY <1>4, <1>5, <1>7, <1>8, TailBytes
<1> QED
  BY <1>9 DEF U, U2
\* What is left once a frame is taken, and what a reset leaves, are suffixes.
LEMMA LeftIsSuffix ==
  ASSUME Sound, NEW n \in Nat, n <= Available, NEW w,
         w = SubSeq(Unread, n + 1, Len(Unread))
  PROVE  w \in Stream!Suffixes(w) /\ chunk \in Stream!Suffixes(w)
<1> DEFINE A == Available
           U == Unread
           L == Len(chunk)
<1>1. /\ A \in Nat /\ n <= A /\ L \in Nat /\ chunk \in Seq(Byte)
      /\ U \in Seq(Byte) /\ Len(U) = A + L
      /\ \A i \in 1 .. L : U[A + i] = chunk[i]
  BY UnreadShape, RingShape, LenProperties DEF UnreadOK, RingOK, Sound, TypeOK
<1>w. w = SubSeq(U, n + 1, Len(U))
  OBVIOUS
<1> HIDE DEF A, U
<1>2. /\ w \in Seq(Byte) /\ Len(w) = A + L - n
      /\ \A i \in 1 .. A + L - n : w[i] = U[n + i]
  <2>1. PICK m \in Nat : m = Len(U)
    BY <1>1
  <2>2. PICK l \in Nat : l = n + 1
    OBVIOUS
  <2>3. \A i \in l .. m : U[i] \in Byte
    <3>1. \A i \in l .. m : i \in 1 .. m
      BY <2>2
    <3> QED
      BY <1>1, <2>1, <3>1, ElementOfSeq
  <2>4. w = SubSeq(U, l, m)
    BY <1>w, <2>1, <2>2
  <2>5. /\ w \in Seq(Byte) /\ Len(w) = IF l <= m THEN m - l + 1 ELSE 0
        /\ \A i \in 1 .. m - l + 1 : w[i] = U[l + i - 1]
    <3>1. /\ SubSeq(U, l, m) \in Seq(Byte)
          /\ Len(SubSeq(U, l, m)) = IF l <= m THEN m - l + 1 ELSE 0
          /\ \A i \in 1 .. m - l + 1 : SubSeq(U, l, m)[i] = U[l + i - 1]
      BY <2>3, SubSeqProperties
    <3> QED
      BY <2>4, <3>1, Zenon
  <2>6. Len(w) = A + L - n
    BY <1>1, <2>1, <2>2, <2>5
  <2>7. ASSUME NEW i \in 1 .. A + L - n PROVE w[i] = U[n + i]
    <3>1. i \in 1 .. m - l + 1 /\ l + i - 1 = n + i
      <4>1. m = A + L /\ A \in Nat /\ L \in Nat /\ n <= A
        BY <1>1, <2>1
      <4> HIDE DEF L
      <4>2. A + L - n = m - l + 1
        BY <2>2, <4>1
      <4>3. i \in 1 .. m - l + 1
        BY <4>2
      <4> QED
        BY <2>2, <4>3
    <3> QED
      BY <2>5, <3>1
  <2> QED
    BY <2>5, <2>6, <2>7
<1>3. w \in Stream!Suffixes(w)
  <2>1. CASE w = <<>>
    BY <2>1, StreamOps
  <2>2. CASE w # <<>>
    <3>1. SubSeq(w, 1, Len(w)) = w /\ 1 \in 1 .. Len(w)
      BY <1>2, <2>2, SubSeqFull, EmptySeq
    <3> QED
      BY <3>1, StreamOps
  <2> QED
    BY <2>1, <2>2
<1>4. chunk \in Stream!Suffixes(w)
  <2>1. CASE chunk = <<>>
    BY <2>1, StreamOps
  <2>2. CASE chunk # <<>>
    <3>1. L \in Nat \ {0}
      BY <1>1, <2>2, EmptySeq
    <3> HIDE DEF L
    <3>2. PICK k \in Nat : k = A - n
      BY <1>1
    <3>3. k <= Len(w) /\ L = Len(w) - k /\ k + 1 \in 1 .. Len(w)
      BY <1>1, <1>2, <3>1, <3>2
    <3>4. ASSUME NEW i \in 1 .. L PROVE chunk[i] = w[k + i]
      <4>1. PICK j \in Nat : j = k + i
        OBVIOUS
      <4>2. j \in 1 .. A + L - n /\ n + j = A + i
        BY <1>1, <3>2, <4>1
      <4>3. w[j] = U[n + j]
        BY <1>2, <4>2
      <4> QED
        BY <1>1, <4>1, <4>2, <4>3
    <3>5. chunk = SubSeq(w, k + 1, Len(w))
      BY <1>1, <1>2, <3>3, <3>4, TailBytes DEF L
    <3> QED
      BY <3>3, <3>5, StreamOps
  <2> QED
    BY <2>1, <2>2
<1> QED
  BY <1>3, <1>4

\* A packet handed over is the frame at the front, taken once.
LEMMA ParseDelivers ==
  ASSUME Sound, Sound', NEW reset \in BOOLEAN, ParsePacket(reset)
  PROVE  Stream!Deliver
<1> DEFINE f == SubSeq(Contents, 1, TotalLen)
           U == Unread
           w == SubSeq(U, Len(f) + 1, Len(U))
           A == Available
<1>1. /\ TypeOK /\ Candidate /\ Arrived /\ ChecksumMatches /\ CanLook
      /\ TotalLen <= A /\ TotalLen \in Nat
  BY SizeInRing DEF ParsePacket, Candidate, Arrived, Sound
<1>2. f \in Frames
  BY <1>1, ParsedIsFrame
<1>3. /\ f \in Seq(Byte) /\ Len(f) = TotalLen
      /\ \A i \in 1 .. TotalLen : f[i] = At(i - 1)
  BY <1>1, FrontOfContents
<1>4. IsPrefix(f, U)
  <2>1. /\ U \in Seq(Byte) /\ Len(U) = A + Len(chunk) /\ A \in Nat /\ Len(chunk) \in Nat
        /\ \A i \in 1 .. A : U[i] = At(i - 1)
    BY UnreadShape, CountsAreNat DEF UnreadOK, Counts
  <2> HIDE DEF f, U, A, At, TotalLen
  <2>2. \A i \in 1 .. TotalLen : i \in 1 .. A
    BY <1>1, <2>1
  <2>3. SameTo(f, U, Len(f)) /\ Len(f) <= Len(U)
    BY <1>1, <1>3, <2>1, <2>2 DEF SameTo
  <2> QED
    BY <1>3, <2>1, <2>3, AgreeingIsPrefix
<1>5. delivered' = Append(delivered, f)
  BY DEF ParsePacket
<1>6. w \in Stream!Suffixes(w) /\ chunk \in Stream!Suffixes(w)
  <2> HIDE DEF f
  <2> QED
    BY <1>1, <1>3, LeftIsSuffix
<1>7. Unread' \in Stream!Suffixes(w)
  <2>1. CASE reset
    <3>1. Contents' = <<>> /\ chunk' = chunk
      BY <2>1, EmptyRing DEF ParsePacket, Empty, Sound
    <3>2. <<>> \o chunk = chunk
      BY ConcatEmptySeq DEF Sound, TypeOK
    <3>3. Unread' = chunk
      BY <3>1, <3>2 DEF Unread
    <3> QED
      BY <1>6, <3>3
  <2>2. CASE ~ reset
    <3>1. /\ UNCHANGED <<capacity, ring, head, chunk>>
          /\ tail' = (tail + TotalLen) % capacity
      BY <2>2 DEF ParsePacket
    <3>2. Unread' = SubSeq(U, TotalLen + 1, Len(U))
      <4> HIDE DEF TotalLen
      <4> QED
        BY <1>1, <3>1, AdvanceUnread
    <3>3. Unread' = w
      BY <1>3, <3>2
    <3> QED
      BY <1>6, <3>3
  <2> QED
    BY <2>1, <2>2
<1>8. Stream!IsPrefix(f, U)
  BY <1>4, StreamOps
<1> HIDE DEF f
<1> QED
  BY <1>2, <1>5, <1>7, <1>8, SameFrames DEF Stream!Deliver, Unread

\* A byte passed over is one that no frame can begin with.
LEMMA SkipPassesOver ==
  ASSUME Sound, Sound', capacity > MaxFrame, SkipByte
  PROVE  Stream!PassOver
<1> DEFINE A == Available
           U == Unread
<1>1. /\ A \in Nat /\ 1 <= A /\ U \in Seq(Byte) /\ Len(U) = A + Len(chunk)
      /\ Len(chunk) \in Nat
  <2>1. A >= 5 /\ A \in Nat /\ U \in Seq(Byte) /\ Len(U) = A + Len(chunk) /\ Len(chunk) \in Nat
    BY UnreadShape, CountsAreNat DEF UnreadOK, Counts, SkipByte, CanLook, MinPacketSize
  <2> HIDE DEF A
  <2> QED
    BY <2>1
<1>2. U # <<>>
  <2> HIDE DEF A, U
  <2> QED
    BY <1>1, EmptySeq
<1>3. Unread' = Tail(U)
  <2>1. UNCHANGED <<capacity, ring, head, chunk>> /\ tail' = (tail + 1) % capacity
    BY DEF SkipByte, ctlVars
  <2>2. Unread' = SubSeq(Unread, 1 + 1, Len(Unread))
    BY <1>1, <2>1, AdvanceUnread
  <2> QED
    BY <1>1, <1>2, <2>2, TailIsSubSeq
<1>4. ~ Stream!MayBegin(U)
  <2>1. SUFFICES ASSUME NEW g \in Frames, IsPrefix(g, U) \/ IsPrefix(U, g) PROVE FALSE
    BY StreamOps, SameFrames DEF Stream!MayBegin
  <2> QED
    BY <2>1, NoFrameBegins
<1>5. delivered' = delivered
  BY DEF SkipByte
<1> QED
  BY <1>2, <1>3, <1>4, <1>5 DEF Stream!PassOver, Unread

\* A reset between two reads drops what is in the ring.
LEMMA ResetDisconnects ==
  ASSUME Sound, Sound', Reset
  PROVE  Stream!Disconnect
<1>1. Contents' = <<>> /\ chunk' = <<>> /\ delivered' = delivered
  BY EmptyRing DEF Reset, Empty, Sound, InHand, ctlVars
<1>2. <<>> \o <<>> = <<>>
  BY EmptySeq, ConcatEmptySeq
<1> QED
  BY <1>1, <1>2 DEF Stream!Disconnect

streamVars == <<Contents \o chunk, delivered>>

\* In a ring that holds every frame each step does what FrameStream allows.
LEMMA StreamStep ==
  ASSUME Sound, Sound', [Next]_vars
  PROVE  (capacity > MaxFrame => Stream!Next) \/ UNCHANGED streamVars
<1> SUFFICES ASSUME capacity > MaxFrame PROVE Stream!Next \/ UNCHANGED streamVars
  OBVIOUS
<1> USE DEF streamVars
<1>a. UNCHANGED <<capacity, ring, head, tail>> => Contents' = Contents
  BY DEF Contents, Available, At
<1>1. CASE \E n \in ReadSizes : Read(n)
  BY <1>1, ReadReceives DEF Stream!Next
<1>2. CASE PushByte \/ PushDrained
  <2>1. Push /\ UNCHANGED <<capacity, tail, delivered>>
    BY <1>2 DEF PushByte, PushDrained, countVars
  <2>2. Unread' = Unread
    BY <2>1, PushKeeps
  <2> QED
    BY <2>1, <2>2 DEF Unread
<1>3. CASE StartDrain \/ StartFinal \/ EndRead \/ UNCHANGED vars
  <2>1. UNCHANGED <<capacity, ring, head, tail, chunk, delivered>>
    BY <1>3 DEF StartDrain, StartFinal, EndRead, vars, ctlVars, countVars
  <2> QED
    BY <1>a, <2>1
<1>4. CASE SkipByte
  BY <1>4, SkipPassesOver DEF Stream!Next
<1>5. CASE \E reset \in BOOLEAN : ParsePacket(reset)
  BY <1>5, ParseDelivers DEF Stream!Next
<1>6. CASE Overflow
  <2>1. capacity > MinPacketSize
    <3>1. capacity \in Nat /\ MaxPayload \in Nat
      BY RingShape, PayloadAssumption, ByteAssumption DEF Sound, RingOK, Byte
    <3> QED
      BY <3>1 DEF MaxFrame, MinPacketSize
  <2> QED
    BY <1>6, <2>1, FullIsParsed DEF Overflow, NoPacket, Sound
<1>7. CASE Reset
  BY <1>7, ResetDisconnects DEF Stream!Next
<1> QED
  BY <1>1, <1>2, <1>3, <1>4, <1>5, <1>6, <1>7 DEF Next

\* At first nothing has been received.
LEMMA StreamInit == Init => Stream!Init
<1> SUFFICES ASSUME Init PROVE Stream!Init
  OBVIOUS
<1>1. RingOK
  BY SoundInit, RingShape DEF Sound
<1>2. Available = 0
  BY <1>1 DEF RingOK, Gap, Init
<1>3. Contents = <<>> /\ chunk = <<>> /\ delivered = <<>>
  BY <1>1, <1>2, EmptySeq DEF RingOK, Init
<1>4. <<>> \o <<>> = <<>>
  BY EmptySeq, ConcatEmptySeq
<1> QED
  BY <1>3, <1>4 DEF Stream!Init

\* The handler implements FrameStream: each frame that arrives is delivered
\* once and whole, in the order of arrival, and no byte that could begin one
\* is passed over.
THEOREM HandlerImplementsStream == Spec => ImplementsStream
<1>1. Sound /\ Sound' /\ [Next]_vars => [capacity > MaxFrame => Stream!Next]_streamVars
  BY StreamStep
<1>2. ImplementsStream <=>
        Stream!Init /\ [][capacity > MaxFrame => Stream!Next]_streamVars
  BY DEF ImplementsStream, streamVars
<1> QED
  BY <1>1, <1>2, StreamInit, SoundInit, SoundStep, PTL DEF Spec

=============================================================================
