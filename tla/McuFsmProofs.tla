---------------------------- MODULE McuFsmProofs ----------------------------
(***************************************************************************)
(* Whatever bytes come and whatever the protocol, the receiver of the MCU  *)
(* never writes outside rx_buffer and dispatches only frames that were on  *)
(* the line; between two frames it decodes what is sent, and from any      *)
(* state it recovers when one frame is repeated.                           *)
(***************************************************************************)
EXTENDS McuFsm, WireFormatProofs

\* What a byte does to the state keeps its type, given that a payload byte has
\* a place; the bound holds again afterwards.
FsmInv(f) ==
  /\ f \in Fsm
  /\ f.rx_state = "WAIT_DATA" =>
       f.rx_cnt < f.rx_data_len /\ f.rx_data_len <= BufferSize

\* The search for a header changes nothing but the state.
LEMMA HeaderKeeps ==
  ASSUME NEW f \in Fsm, NEW b \in Byte
  PROVE  /\ FsmInv(WaitHeader1(f, b))
         /\ FsmInv(WaitHeader2(f, b))
         /\ FsmInv(WaitCrc(f))
  BY DEF FsmInv, Fsm, States, WaitHeader1, WaitHeader2, WaitCrc

\* An id is stored, and the checksum starts with it.
LEMMA IdKeeps ==
  ASSUME NEW f \in Fsm, NEW b \in Byte
  PROVE  FsmInv(WaitId(f, b))
<1>1. 0 \in Byte
  BY ByteAssumption DEF Byte
<1>2. checksum_update(0, b) \in Byte
  BY <1>1, ChecksumAssumption
<1> QED
  BY <1>2 DEF FsmInv, Fsm, States, WaitId

\* A length is accepted only if it fits into rx_buffer.
LEMMA LenKeeps ==
  ASSUME NEW f \in Fsm, NEW b \in Byte
  PROVE  FsmInv(WaitLen(f, b))
<1>1. CASE b > BufferSize
  BY <1>1, HeaderKeeps DEF WaitLen
<1>2. CASE ~(b > BufferSize)
  <2>1. b \in Nat /\ BufferSize \in Nat
    BY ByteAssumption, PayloadAssumption DEF Byte, BufferSize
  <2>2. checksum_update(f.rx_checksum, b) \in Byte
    BY ChecksumAssumption DEF Fsm
  <2>3. b <= BufferSize /\ 0 \in 0 .. BufferSize /\ (b > 0 => 0 < b)
    BY <1>2, <2>1
  <2> DEFINE next == IF b > 0 THEN "WAIT_DATA" ELSE "WAIT_CRC"
             g == [f EXCEPT !.rx_data_len = b,
                            !.rx_checksum = checksum_update(@, b),
                            !.rx_cnt = 0, !.rx_state = next]
  <2>4. next \in States
    BY DEF States
  <2>5. g \in Fsm
    <3> HIDE DEF next
    <3> QED
      BY <2>2, <2>3, <2>4 DEF Fsm
  <2>6. g.rx_state = next /\ g.rx_cnt = 0 /\ g.rx_data_len = b
    <3> HIDE DEF next
    <3> QED
      BY DEF Fsm
  <2>7. next = "WAIT_DATA" => b > 0
    OBVIOUS
  <2>8. WaitLen(f, b) = g
    BY <1>2 DEF WaitLen
  <2> HIDE DEF next, g
  <2>9. FsmInv(g)
    BY <2>3, <2>5, <2>6, <2>7 DEF FsmInv
  <2> QED
    BY <2>8, <2>9
<1> QED
  BY <1>1, <1>2

\* A payload byte is stored below the length, which then still bounds the count.
LEMMA DataKeeps ==
  ASSUME NEW f, FsmInv(f), f.rx_state = "WAIT_DATA", NEW b \in Byte
  PROVE  FsmInv(WaitData(f, b))
<1>1. f.rx_cnt \in Nat /\ f.rx_data_len \in Nat /\ BufferSize \in Nat
  BY ByteAssumption, PayloadAssumption DEF FsmInv, Fsm, Byte, BufferSize
<1>2. f.rx_cnt \in 0 .. BufferSize - 1 /\ f.rx_cnt + 1 \in 0 .. BufferSize
  BY <1>1 DEF FsmInv
<1>3. checksum_update(f.rx_checksum, b) \in Byte
  BY ChecksumAssumption DEF FsmInv, Fsm
<1>4. [f.rx_buffer EXCEPT ![f.rx_cnt] = b] \in [0 .. BufferSize - 1 -> Byte]
  BY DEF FsmInv, Fsm
<1> DEFINE next == IF f.rx_cnt + 1 >= f.rx_data_len THEN "WAIT_CRC" ELSE f.rx_state
           g == [f EXCEPT !.rx_buffer = [@ EXCEPT ![f.rx_cnt] = b],
                          !.rx_checksum = checksum_update(@, b),
                          !.rx_cnt = @ + 1, !.rx_state = next]
<1>5. next \in States
  BY DEF FsmInv, Fsm, States
<1>6. next = "WAIT_DATA" => f.rx_cnt + 1 < f.rx_data_len
  BY <1>1
<1>7. WaitData(f, b) = g
  BY DEF WaitData
<1> HIDE DEF next
<1>8. g \in Fsm
  BY <1>2, <1>3, <1>4, <1>5 DEF FsmInv, Fsm
<1>9. g.rx_state = next /\ g.rx_cnt = f.rx_cnt + 1 /\ g.rx_data_len = f.rx_data_len
  BY DEF FsmInv, Fsm
<1> HIDE DEF g
<1>10. FsmInv(g)
  BY <1>6, <1>8, <1>9 DEF FsmInv
<1> QED
  BY <1>7, <1>10

\* Every case of protocol_fsm_feed.
LEMMA FedKeeps ==
  ASSUME NEW f, FsmInv(f), NEW b \in Byte
  PROVE  FsmInv(Fed(f, b))
<1>1. f \in Fsm /\ f.rx_state \in States
  BY DEF FsmInv, Fsm
<1>2. CASE f.rx_state = "WAIT_HEADER1"
  BY <1>1, <1>2, HeaderKeeps DEF Fed
<1>3. CASE f.rx_state = "WAIT_HEADER2"
  BY <1>1, <1>3, HeaderKeeps DEF Fed
<1>4. CASE f.rx_state = "WAIT_ID"
  BY <1>1, <1>4, IdKeeps DEF Fed
<1>5. CASE f.rx_state = "WAIT_LEN"
  BY <1>1, <1>5, LenKeeps DEF Fed
<1>6. CASE f.rx_state = "WAIT_DATA"
  BY <1>6, DataKeeps DEF Fed
<1>7. CASE f.rx_state = "WAIT_CRC"
  BY <1>1, <1>7, HeaderKeeps DEF Fed
<1> QED
  BY <1>1, <1>2, <1>3, <1>4, <1>5, <1>6, <1>7 DEF States

\* The byte count never leaves rx_buffer: BufferInBounds in every behaviour.
THEOREM StaysInBuffer == Spec => []BufferInBounds
<1>1. Init => FsmInv(fsm)
  <2> SUFFICES ASSUME Init PROVE FsmInv(fsm)
    OBVIOUS
  <2>1. 0 \in Byte /\ BufferSize \in Nat
    BY ByteAssumption, PayloadAssumption DEF Byte, BufferSize
  <2> QED
    BY <2>1 DEF Init, FsmInv, Fsm, States
<1>2. FsmInv(fsm) /\ [Next]_vars => FsmInv(fsm)'
  <2> SUFFICES ASSUME FsmInv(fsm), [Next]_vars PROVE FsmInv(fsm')
    BY DEF FsmInv
  <2>1. CASE UNCHANGED vars
    BY <2>1 DEF vars
  <2>2. CASE Next
    <3>1. PICK b \in Byte : Feed(b)
      BY <2>2 DEF Next
    <3> QED
      BY <3>1, FedKeeps DEF Feed
  <2> QED
    BY <2>1, <2>2
<1>3. FsmInv(fsm) => BufferInBounds
  BY DEF FsmInv, BufferInBounds
<1> QED
  BY <1>1, <1>2, <1>3, PTL DEF Spec
-----------------------------------------------------------------------------
(* The ends of a sequence.                                                 *)

\* s is what t holds from place d + 1 on.
EndsAt(t, s, d) ==
  /\ Len(t) = d + Len(s)
  /\ \A i \in 1 .. Len(s) : t[d + i] = s[i]

EndsWith(t, s) == \E d \in Nat : EndsAt(t, s, d)

\* Every sequence ends with the empty one.
LEMMA EndsWithNone ==
  ASSUME NEW t \in Seq(Byte)
  PROVE  EndsWith(t, <<>>)
<1>1. Len(t) \in Nat /\ Len(<<>>) = 0
  BY LenProperties
<1>2. EndsAt(t, <<>>, Len(t))
  BY <1>1 DEF EndsAt
<1> QED
  BY <1>1, <1>2 DEF EndsWith

\* The same byte after both.
LEMMA EndsAppend ==
  ASSUME NEW t \in Seq(Byte), NEW s \in Seq(Byte), NEW b \in Byte, EndsWith(t, s)
  PROVE  EndsWith(Append(t, b), Append(s, b))
<1>1. PICK d \in Nat : EndsAt(t, s, d)
  BY DEF EndsWith
<1>2. PICK m \in Nat, n \in Nat : m = Len(t) /\ n = Len(s)
  BY LenProperties
<1>3. m = d + n /\ \A i \in 1 .. n : t[d + i] = s[i]
  BY <1>1, <1>2 DEF EndsAt
<1>4. PICK T, U : T = Append(t, b) /\ U = Append(s, b)
  OBVIOUS
<1>5. /\ Len(T) = m + 1 /\ T[m + 1] = b /\ \A i \in 1 .. m : T[i] = t[i]
      /\ Len(U) = n + 1 /\ U[n + 1] = b /\ \A i \in 1 .. n : U[i] = s[i]
  BY <1>2, <1>4, AppendProperties
<1>6. ASSUME NEW i \in 1 .. n + 1 PROVE T[d + i] = U[i]
  <2>1. CASE i = n + 1
    <3>1. d + i = m + 1
      BY <1>3, <2>1
    <3> QED
      BY <1>5, <2>1, <3>1
  <2>2. CASE i # n + 1
    <3>1. PICK j \in Nat : j = d + i
      OBVIOUS
    <3>2. i \in 1 .. n /\ j \in 1 .. m
      BY <1>3, <2>2, <3>1
    <3> QED
      BY <1>3, <1>5, <3>1, <3>2
  <2> QED
    BY <2>1, <2>2
<1>7. EndsAt(T, U, d)
  <2>1. m + 1 = d + (n + 1)
    BY <1>3
  <2> QED
    BY <1>5, <1>6, <2>1 DEF EndsAt
<1> QED
  BY <1>4, <1>7 DEF EndsWith

\* Of two ends the longer one ends with the shorter one.
LEMMA EndsNested ==
  ASSUME NEW t \in Seq(Byte), NEW s \in Seq(Byte), NEW u \in Seq(Byte),
         EndsWith(t, s), EndsWith(t, u), Len(s) <= Len(u)
  PROVE  EndsWith(u, s)
<1>1. PICK c \in Nat : EndsAt(t, s, c)
  BY DEF EndsWith
<1>2. PICK d \in Nat : EndsAt(t, u, d)
  BY DEF EndsWith
<1>3. PICK k \in Nat, m \in Nat, n \in Nat : k = Len(t) /\ m = Len(s) /\ n = Len(u)
  BY LenProperties
<1>4. k = c + m /\ k = d + n /\ m <= n
  BY <1>1, <1>2, <1>3 DEF EndsAt
<1>5. PICK e \in Nat : c = d + e
  <2>1. c - d \in Nat /\ c = d + (c - d)
    BY <1>4
  <2> QED
    BY <2>1
<1>6. n = e + m
  BY <1>4, <1>5
<1>7. ASSUME NEW i \in 1 .. m PROVE u[e + i] = s[i]
  <2>1. PICK j \in Nat : j = e + i
    OBVIOUS
  <2>2. j \in 1 .. n /\ d + j = c + i
    BY <1>5, <1>6, <2>1
  <2>3. t[d + j] = u[j] /\ t[c + i] = s[i]
    BY <1>1, <1>2, <1>3, <2>2 DEF EndsAt
  <2> QED
    BY <2>1, <2>2, <2>3
<1>8. EndsAt(u, s, e)
  BY <1>3, <1>6, <1>7 DEF EndsAt
<1> QED
  BY <1>8 DEF EndsWith

\* A last byte alone.
LEMMA EndsWithLast ==
  ASSUME NEW t \in Seq(Byte), NEW b \in Byte
  PROVE  EndsWith(Append(t, b), <<b>>)
<1>1. EndsWith(Append(t, b), Append(<<>>, b))
  <2>1. <<>> \in Seq(Byte) /\ EndsWith(t, <<>>)
    BY EndsWithNone
  <2> QED
    BY <2>1, EndsAppend
<1>2. Append(<<>>, b) = <<b>>
  OBVIOUS
<1> QED
  BY <1>1, <1>2

\* Suffixes are the ends.
LEMMA SuffixEnds ==
  ASSUME NEW t \in Seq(Byte), NEW s \in Suffixes(t)
  PROVE  s \in Seq(Byte) /\ EndsWith(t, s)
<1>1. CASE s = <<>>
  BY <1>1, EndsWithNone
<1>2. CASE s # <<>>
  <2>1. PICK m \in Nat : m = Len(t)
    BY LenProperties
  <2>2. PICK l \in 1 .. m : s = SubSeq(t, l, m)
    BY <1>2, <2>1 DEF Suffixes
  <2>3. /\ s \in Seq(Byte) /\ Len(s) = m - l + 1
        /\ \A i \in 1 .. m - l + 1 : s[i] = t[l + i - 1]
    <3>1. l \in 1 .. Len(t) + 1 /\ m \in l - 1 .. Len(t)
      BY <2>1
    <3> QED
      BY <2>2, <3>1, SubSeqProperties
  <2>4. PICK d \in Nat : d = l - 1
    <3>1. l - 1 \in Nat
      OBVIOUS
    <3> QED
      BY <3>1
  <2>5. m = d + Len(s)
    BY <2>3, <2>4
  <2>6. ASSUME NEW i \in 1 .. Len(s) PROVE t[d + i] = s[i]
    <3>1. l + i - 1 = d + i
      BY <2>3, <2>4
    <3> QED
      BY <2>3, <3>1
  <2>7. EndsAt(t, s, d)
    BY <2>1, <2>5, <2>6 DEF EndsAt
  <2> QED
    BY <2>3, <2>7 DEF EndsWith
<1> QED
  BY <1>1, <1>2

\* Conversely.
LEMMA EndIsSuffix ==
  ASSUME NEW t \in Seq(Byte), NEW s \in Seq(Byte), EndsWith(t, s)
  PROVE  s \in Suffixes(t)
<1>1. PICK d \in Nat : EndsAt(t, s, d)
  BY DEF EndsWith
<1>2. PICK m \in Nat, n \in Nat : m = Len(t) /\ n = Len(s)
  BY LenProperties
<1>3. m = d + n /\ \A i \in 1 .. n : t[d + i] = s[i]
  BY <1>1, <1>2 DEF EndsAt
<1>4. CASE n = 0
  <2>1. s = <<>>
    BY <1>2, <1>4, EmptySeq
  <2> QED
    BY <2>1 DEF Suffixes
<1>5. CASE n # 0
  <2>1. PICK l \in 1 .. m : l = d + 1
    <3>1. d + 1 \in 1 .. m
      BY <1>3, <1>5
    <3> QED
      BY <3>1
  <2>2. PICK u : u = SubSeq(t, l, m)
    OBVIOUS
  <2>3. /\ u \in Seq(Byte) /\ Len(u) = m - l + 1
        /\ \A i \in 1 .. m - l + 1 : u[i] = t[l + i - 1]
    <3>1. l \in 1 .. Len(t) + 1 /\ m \in l - 1 .. Len(t)
      BY <1>2
    <3> QED
      BY <2>2, <3>1, SubSeqProperties
  <2>4. m - l + 1 = n
    BY <1>3, <2>1
  <2>5. ASSUME NEW i \in 1 .. n PROVE u[i] = s[i]
    <3>1. l + i - 1 = d + i
      BY <2>1
    <3> QED
      BY <1>3, <2>3, <2>4, <3>1
  <2>6. u = s
    BY <1>2, <2>3, <2>4, <2>5, SeqEqual
  <2> QED
    BY <1>2, <2>2, <2>6 DEF Suffixes
<1> QED
  BY <1>4, <1>5

\* In the words of the library.
LEMMA EndsIsSuffix ==
  ASSUME NEW t \in Seq(Byte), NEW s \in Seq(Byte), EndsWith(t, s)
  PROVE  IsSuffix(s, t)
<1>1. PICK d \in Nat : EndsAt(t, s, d)
  BY DEF EndsWith
<1>2. PICK m \in Nat, n \in Nat : m = Len(t) /\ n = Len(s)
  BY LenProperties
<1>3. m = d + n /\ \A i \in 1 .. n : t[d + i] = s[i]
  BY <1>1, <1>2 DEF EndsAt
<1>4. PICK T, U : T = Reverse(t) /\ U = Reverse(s)
  OBVIOUS
<1>5. /\ T = [i \in 1 .. m |-> t[(m - i) + 1]]
      /\ U = [i \in 1 .. n |-> s[(n - i) + 1]]
  BY <1>2, <1>4 DEF Reverse
<1>6. T \in Seq(Byte) /\ Len(T) = m /\ U \in Seq(Byte) /\ Len(U) = n
  <2>1. ASSUME NEW i \in 1 .. m PROVE T[i] \in Byte
    <3>1. (m - i) + 1 \in 1 .. m
      OBVIOUS
    <3> QED
      BY <1>2, <1>5, <3>1, ElementOfSeq
  <2>2. ASSUME NEW i \in 1 .. n PROVE U[i] \in Byte
    <3>1. (n - i) + 1 \in 1 .. n
      OBVIOUS
    <3> QED
      BY <1>2, <1>5, <3>1, ElementOfSeq
  <2>3. T \in [1 .. m -> Byte] /\ U \in [1 .. n -> Byte]
    BY <1>5, <2>1, <2>2
  <2> QED
    BY <2>3
<1>7. ASSUME NEW i \in 1 .. n PROVE U[i] = T[i]
  <2>1. PICK j \in 1 .. n : j = (n - i) + 1
    <3>1. (n - i) + 1 \in 1 .. n
      OBVIOUS
    <3> QED
      BY <3>1
  <2>2. (m - i) + 1 = d + j /\ i \in 1 .. m
    BY <1>3, <2>1
  <2>3. U[i] = s[j] /\ T[i] = t[d + j]
    BY <1>5, <2>1, <2>2
  <2> QED
    BY <1>3, <2>3
<1>8. n <= m
  BY <1>3
<1>9. SubSeq(U, 1, n) = SubSeq(T, 1, n)
  <2>1. /\ SubSeq(U, 1, n) = [i \in 1 .. n |-> U[i]]
        /\ SubSeq(T, 1, n) = [i \in 1 .. n |-> T[i]]
    <3>1. \A i \in 1 .. n : i + 1 - 1 = i
      OBVIOUS
    <3>2. n - 1 + 1 = n
      OBVIOUS
    <3>3. /\ Len(SubSeq(U, 1, n)) = n /\ SubSeq(U, 1, n) \in Seq(Byte)
          /\ \A i \in 1 .. n : SubSeq(U, 1, n)[i] = U[i]
          /\ Len(SubSeq(T, 1, n)) = n /\ SubSeq(T, 1, n) \in Seq(Byte)
          /\ \A i \in 1 .. n : SubSeq(T, 1, n)[i] = T[i]
      BY <1>6, <1>8, SubSeqProperties
    <3> QED
      BY <3>3
  <2> QED
    BY <1>7, <2>1
<1> QED
  BY <1>4, <1>6, <1>8, <1>9 DEF IsSuffix, IsPrefix

-----------------------------------------------------------------------------
(* The beginnings of frames.                                               *)

\* s is the first bytes of t.
Starts(s, t) ==
  /\ Len(s) <= Len(t)
  /\ \A i \in 1 .. Len(s) : s[i] = t[i]

\* A frame is a sequence of bytes.
LEMMA FrameIsSeq ==
  ASSUME NEW f \in Frames
  PROVE  f \in Seq(Byte)
  BY FrameParts DEF Spells

\* What Prefixes says.
LEMMA PrefixStarts ==
  ASSUME NEW t \in Seq(Byte)
  PROVE  \A s : s \in Prefixes(t) <=> s \in Seq(Byte) /\ Starts(s, t)
<1>1. PICK m \in Nat : m = Len(t)
  BY LenProperties
<1>2. ASSUME NEW l \in 0 .. m
      PROVE  /\ SubSeq(t, 1, l) \in Seq(Byte) /\ Len(SubSeq(t, 1, l)) = l
             /\ \A i \in 1 .. l : SubSeq(t, 1, l)[i] = t[i]
  <2>1. 1 \in 1 .. Len(t) + 1 /\ l \in 1 - 1 .. Len(t) /\ l - 1 + 1 = l
    BY <1>1
  <2>2. \A i \in 1 .. l : 1 + i - 1 = i
    OBVIOUS
  <2> QED
    BY <2>1, <2>2, SubSeqProperties
<1>3. ASSUME NEW s \in Prefixes(t) PROVE s \in Seq(Byte) /\ Starts(s, t)
  <2>1. PICK l \in 0 .. m : s = SubSeq(t, 1, l)
    BY <1>1 DEF Prefixes
  <2>2. l <= m
    OBVIOUS
  <2> QED
    BY <1>1, <1>2, <2>1, <2>2 DEF Starts
<1>4. ASSUME NEW s \in Seq(Byte), Starts(s, t) PROVE s \in Prefixes(t)
  <2>1. PICK l \in 0 .. m : l = Len(s)
    <3>1. Len(s) \in 0 .. m
      BY <1>1, LenProperties, <1>4 DEF Starts
    <3> QED
      BY <3>1
  <2>2. s = SubSeq(t, 1, l)
    BY <1>2, <1>4, <2>1, SeqEqual DEF Starts
  <2> QED
    BY <1>1, <2>1, <2>2 DEF Prefixes
<1> QED
  BY <1>3, <1>4

\* The beginnings of a frame begin it; the whole frame does too.
LEMMA BeginningIs ==
  /\ \A s \in FrameBeginnings :
       s \in Seq(Byte) /\ (s = <<>> \/ \E f \in Frames : Starts(s, f))
  /\ \A f \in Frames, s \in Seq(Byte) : Starts(s, f) => s \in FrameBeginnings
  /\ Frames \subseteq FrameBeginnings
<1>1. ASSUME NEW s \in FrameBeginnings
      PROVE  s \in Seq(Byte) /\ (s = <<>> \/ \E f \in Frames : Starts(s, f))
  <2>1. CASE s = <<>>
    BY <2>1
  <2>2. CASE s # <<>>
    <3>1. PICK f \in Frames : s \in Prefixes(f)
      BY <2>2 DEF FrameBeginnings
    <3> QED
      BY <3>1, FrameIsSeq, PrefixStarts
  <2> QED
    BY <2>1, <2>2
<1>2. ASSUME NEW f \in Frames, NEW s \in Seq(Byte), Starts(s, f)
      PROVE  s \in FrameBeginnings
  <2>1. s \in Prefixes(f)
    BY <1>2, FrameIsSeq, PrefixStarts
  <2> QED
    BY <2>1 DEF FrameBeginnings
<1>3. ASSUME NEW f \in Frames PROVE f \in FrameBeginnings
  <2>1. f \in Seq(Byte) /\ Starts(f, f)
    BY FrameIsSeq, LenProperties DEF Starts
  <2> QED
    BY <1>2, <2>1
<1> QED
  BY <1>1, <1>2, <1>3

\* Without its last byte a beginning is one.
LEMMA BeginningShorter ==
  ASSUME NEW s \in Seq(Byte), NEW b \in Byte, Append(s, b) \in FrameBeginnings
  PROVE  s \in FrameBeginnings
<1>1. PICK n \in Nat : n = Len(s)
  BY LenProperties
<1>2. PICK u : u = Append(s, b)
  OBVIOUS
<1>3. Len(u) = n + 1 /\ \A i \in 1 .. n : u[i] = s[i]
  BY <1>1, <1>2, AppendProperties
<1>4. u # <<>>
  BY <1>3
<1>5. PICK f \in Frames : Starts(u, f)
  BY <1>2, <1>4, BeginningIs
<1>6. PICK m \in Nat : m = Len(f)
  BY FrameIsSeq, LenProperties
<1>7. n + 1 <= m /\ \A i \in 1 .. n + 1 : u[i] = f[i]
  BY <1>3, <1>5, <1>6 DEF Starts
<1>8. n <= m /\ \A i \in 1 .. n : i \in 1 .. n + 1
  BY <1>7
<1>9. Starts(s, f)
  BY <1>1, <1>3, <1>6, <1>7, <1>8 DEF Starts
<1> QED
  BY <1>9, BeginningIs

\* FrameEnd picks an end that begins a frame; any other ends it.
LEMMA FrameEndIs ==
  ASSUME NEW t \in Seq(Byte)
  PROVE  /\ FrameEnd(t) \in FrameBeginnings
         /\ \A s \in FrameBeginnings : EndsWith(t, s) => EndsWith(FrameEnd(t), s)
<1> DEFINE ends == Suffixes(t) \cap FrameBeginnings
           U == {Len(t) - Len(e) : e \in ends}
<1>1. PICK m \in Nat : m = Len(t)
  BY LenProperties
<1>2. ASSUME NEW e \in ends
      PROVE  e \in Seq(Byte) /\ EndsWith(t, e) /\ Len(e) \in 0 .. m
  <2>1. e \in Seq(Byte) /\ EndsWith(t, e)
    BY SuffixEnds
  <2>2. PICK d \in Nat : EndsAt(t, e, d)
    BY <2>1 DEF EndsWith
  <2>3. m = d + Len(e) /\ Len(e) \in Nat
    BY <1>1, <2>1, <2>2, LenProperties DEF EndsAt
  <2> QED
    BY <2>1, <2>3
<1>3. <<>> \in ends
  BY DEF Suffixes, FrameBeginnings
<1>4. U \subseteq Nat /\ U # {}
  BY <1>1, <1>2, <1>3
<1>5. PICK x \in U : \A y \in U : x <= y
  BY <1>4, Fold!Least
<1>6. PICK e \in ends : x = Len(t) - Len(e)
  BY <1>5
<1>7. ASSUME NEW y \in ends PROVE Len(y) <= Len(e)
  <2>1. Len(t) - Len(e) <= Len(t) - Len(y)
    BY <1>5, <1>6
  <2>2. Len(y) \in Nat /\ Len(e) \in Nat
    BY <1>2
  <2> QED
    BY <1>1, <2>1, <2>2
<1>8. FrameEnd(t) \in ends /\ \A y \in ends : Len(y) <= Len(FrameEnd(t))
  BY <1>7 DEF FrameEnd
<1>9. ASSUME NEW s \in FrameBeginnings, EndsWith(t, s)
      PROVE  EndsWith(FrameEnd(t), s)
  <2>1. s \in Seq(Byte)
    BY BeginningIs
  <2>2. s \in ends
    BY <1>9, <2>1, EndIsSuffix
  <2> QED
    BY <1>2, <1>8, <1>9, <2>1, <2>2, EndsNested
<1> QED
  BY <1>8, <1>9

-----------------------------------------------------------------------------
(* What the state stands for: the bytes of the frame begun.                *)

Size(f) ==
  CASE f.rx_state = "WAIT_HEADER1" -> 0
    [] f.rx_state = "WAIT_HEADER2" -> 1
    [] f.rx_state = "WAIT_ID"      -> 2
    [] f.rx_state = "WAIT_LEN"     -> 3
    [] OTHER                       -> 4 + f.rx_cnt

Place(f, i) ==
  CASE i = 1 -> Header1
    [] i = 2 -> Header2
    [] i = 3 -> f.rx_id
    [] i = 4 -> f.rx_data_len
    [] OTHER -> f.rx_buffer[i - 5]

Believed(f) == [i \in 1 .. Size(f) |-> Place(f, i)]

\* The bytes of the frame begun.
LEMMA BelievedIs ==
  ASSUME NEW f \in Fsm
  PROVE  /\ Size(f) \in Nat
         /\ Believed(f) \in Seq(Byte)
         /\ Len(Believed(f)) = Size(f)
         /\ \A i \in 1 .. Size(f) : Believed(f)[i] = Place(f, i)
<1>1. /\ f.rx_cnt \in 0 .. BufferSize /\ f.rx_cnt \in Nat /\ BufferSize \in Nat
      /\ f.rx_id \in Byte /\ f.rx_data_len \in Byte
      /\ Header1 \in Byte /\ Header2 \in Byte
      /\ f.rx_buffer \in [0 .. BufferSize - 1 -> Byte]
  <2>1. BufferSize \in Nat
    BY ByteAssumption, PayloadAssumption DEF BufferSize, Byte
  <2>2. f.rx_cnt \in 0 .. BufferSize /\ f.rx_id \in Byte /\ f.rx_data_len \in Byte
    BY DEF Fsm
  <2>3. f.rx_buffer \in [0 .. BufferSize - 1 -> Byte]
    BY DEF Fsm
  <2>4. Header1 \in Byte /\ Header2 \in Byte
    BY ByteAssumption
  <2>5. f.rx_cnt \in Nat
    BY <2>1, <2>2
  <2> QED
    BY <2>1, <2>2, <2>3, <2>4, <2>5
<1>2. Size(f) \in Nat /\ Size(f) <= 4 + f.rx_cnt
  BY <1>1 DEF Size
<1>3. ASSUME NEW i \in 1 .. Size(f) PROVE Place(f, i) \in Byte
  <2>1. CASE i \in 1 .. 4
    BY <1>1, <2>1 DEF Place
  <2>2. CASE i \notin 1 .. 4
    <3>1. PICK j \in 0 .. BufferSize - 1 : j = i - 5
      <4>1. i - 5 \in 0 .. BufferSize - 1
        BY <1>1, <1>2, <2>2
      <4> QED
        BY <4>1
    <3>2. Place(f, i) = f.rx_buffer[j]
      BY <2>2, <3>1 DEF Place
    <3> QED
      BY <1>1, <3>2
  <2> QED
    BY <2>1, <2>2
<1>4. Believed(f) \in [1 .. Size(f) -> Byte]
  BY <1>3 DEF Believed
<1> QED
  BY <1>2, <1>4 DEF Believed

\* One byte more in place.
LEMMA BelievedAppend ==
  ASSUME NEW f \in Fsm, NEW g \in Fsm, NEW b \in Byte, NEW n \in Nat,
         Size(f) = n, Size(g) = n + 1, Place(g, n + 1) = b,
         \A i \in 1 .. n : Place(g, i) = Place(f, i)
  PROVE  Believed(g) = Append(Believed(f), b)
<1>1. PICK s, t, u : s = Believed(f) /\ t = Believed(g) /\ u = Append(s, b)
  OBVIOUS
<1>2. /\ s \in Seq(Byte) /\ Len(s) = n /\ \A i \in 1 .. n : s[i] = Place(f, i)
      /\ t \in Seq(Byte) /\ Len(t) = n + 1 /\ \A i \in 1 .. n + 1 : t[i] = Place(g, i)
  BY <1>1, BelievedIs
<1>3. u \in Seq(Byte) /\ Len(u) = n + 1 /\ u[n + 1] = b /\ \A i \in 1 .. n : u[i] = s[i]
  BY <1>1, <1>2, AppendProperties
<1>4. ASSUME NEW i \in 1 .. n + 1 PROVE t[i] = u[i]
  <2>1. CASE i = n + 1
    BY <1>2, <1>3, <2>1
  <2>2. CASE i # n + 1
    <3>1. i \in 1 .. n
      BY <2>2
    <3> QED
      BY <1>2, <1>3, <3>1
  <2> QED
    BY <2>1, <2>2
<1>5. t = u
  BY <1>2, <1>3, <1>4, SeqEqual
<1> QED
  BY <1>1, <1>5

\* A search for a header has nothing or the first header byte.
LEMMA BelievedShort ==
  ASSUME NEW g \in Fsm, NEW b \in Byte,
         \/ g.rx_state = "WAIT_HEADER1"
         \/ g.rx_state = "WAIT_HEADER2" /\ b = Header1
  PROVE  Believed(g) \in {<<>>, <<b>>}
<1>1. CASE g.rx_state = "WAIT_HEADER1"
  <2>1. Size(g) = 0
    BY <1>1 DEF Size
  <2>2. Believed(g) = <<>>
    BY <2>1, BelievedIs, EmptySeq
  <2> QED
    BY <2>2
<1>2. CASE g.rx_state = "WAIT_HEADER2" /\ b = Header1
  <2>1. Size(g) = 1
    BY <1>2 DEF Size
  <2>2. Believed(g) \in Seq(Byte) /\ Len(Believed(g)) = 1 /\ Believed(g)[1] = Header1
    <3>1. Place(g, 1) = Header1 /\ 1 \in 1 .. 1
      BY DEF Place
    <3> QED
      BY <2>1, <3>1, BelievedIs
  <2>3. Believed(g) = <<b>>
    BY <1>2, <2>2
  <2> QED
    BY <2>3
<1> QED
  BY <1>1, <1>2

Grows(f, b) ==
  \/ Believed(Fed(f, b)) \in {<<>>, <<b>>}
  \/ Believed(Fed(f, b)) = Append(Believed(f), b)

\* The headers.
LEMMA HeaderGrows ==
  ASSUME NEW f \in Fsm, NEW b \in Byte,
         f.rx_state \in {"WAIT_HEADER1", "WAIT_HEADER2"}
  PROVE  Grows(f, b)
<1>1. CASE f.rx_state = "WAIT_HEADER1"
  <2>1. PICK g : g = WaitHeader1(f, b)
    OBVIOUS
  <2>2. g \in Fsm /\ Fed(f, b) = g
    BY <1>1, <2>1, HeaderKeeps DEF FsmInv, Fed
  <2>3. \/ g.rx_state = "WAIT_HEADER1"
        \/ g.rx_state = "WAIT_HEADER2" /\ b = Header1
    BY <2>1 DEF WaitHeader1, Fsm
  <2> QED
    BY <2>2, <2>3, BelievedShort DEF Grows
<1>2. CASE f.rx_state = "WAIT_HEADER2"
  <2>1. PICK g : g = WaitHeader2(f, b)
    OBVIOUS
  <2>2. g \in Fsm /\ Fed(f, b) = g
    BY <1>2, <2>1, HeaderKeeps DEF FsmInv, Fed
  <2>3. CASE b = Header2
    <3>1. g.rx_state = "WAIT_ID"
      BY <2>1, <2>3 DEF WaitHeader2, Fsm
    <3>2. Size(f) = 1 /\ Size(g) = 1 + 1
      BY <1>2, <3>1 DEF Size
    <3>3. Place(g, 1 + 1) = b /\ \A i \in 1 .. 1 : Place(g, i) = Place(f, i)
      BY <2>3 DEF Place
    <3> QED
      BY <2>2, <3>2, <3>3, BelievedAppend DEF Grows
  <2>4. CASE b # Header2
    <3>1. \/ g.rx_state = "WAIT_HEADER1"
          \/ g.rx_state = "WAIT_HEADER2" /\ b = Header1
      BY <2>1, <2>4 DEF WaitHeader2, Fsm
    <3> QED
      BY <2>2, <3>1, BelievedShort DEF Grows
  <2> QED
    BY <2>3, <2>4
<1> QED
  BY <1>1, <1>2

\* The id.
LEMMA IdGrows ==
  ASSUME NEW f \in Fsm, NEW b \in Byte, f.rx_state = "WAIT_ID"
  PROVE  Believed(Fed(f, b)) = Append(Believed(f), b)
<1>1. PICK g : g = WaitId(f, b)
  OBVIOUS
<1>2. g \in Fsm /\ Fed(f, b) = g
  BY <1>1, IdKeeps DEF FsmInv, Fed
<1>3. g.rx_state = "WAIT_LEN" /\ g.rx_id = b
  BY <1>1 DEF WaitId, Fsm
<1>4. Size(f) = 2 /\ Size(g) = 2 + 1
  BY <1>3 DEF Size
<1>5. Place(g, 2 + 1) = b /\ \A i \in 1 .. 2 : Place(g, i) = Place(f, i)
  BY <1>3 DEF Place
<1> QED
  BY <1>2, <1>4, <1>5, BelievedAppend

\* The length.
LEMMA LenGrows ==
  ASSUME NEW f \in Fsm, NEW b \in Byte, f.rx_state = "WAIT_LEN"
  PROVE  /\ Grows(f, b)
         /\ \/ Fed(f, b).rx_state \in {"WAIT_HEADER1", "WAIT_HEADER2"}
            \/ /\ Believed(Fed(f, b)) = Append(Believed(f), b)
               /\ Fed(f, b).rx_checksum = checksum_update(f.rx_checksum, b)
               /\ Fed(f, b).rx_state = "WAIT_CRC" =>
                    Fed(f, b).rx_cnt = Fed(f, b).rx_data_len
<1>1. PICK g : g = WaitLen(f, b)
  OBVIOUS
<1>2. g \in Fsm /\ Fed(f, b) = g
  BY <1>1, LenKeeps DEF FsmInv, Fed
<1>3. CASE b > BufferSize
  <2>1. g = WaitHeader1(f, b)
    BY <1>1, <1>3 DEF WaitLen
  <2>2. \/ g.rx_state = "WAIT_HEADER1"
        \/ g.rx_state = "WAIT_HEADER2" /\ b = Header1
    BY <2>1 DEF WaitHeader1, Fsm
  <2> QED
    BY <1>2, <2>2, BelievedShort DEF Grows
<1>4. CASE ~(b > BufferSize)
  <2>1. /\ g.rx_state \in {"WAIT_DATA", "WAIT_CRC"}
        /\ g.rx_cnt = 0 /\ g.rx_data_len = b /\ g.rx_id = f.rx_id
        /\ g.rx_checksum = checksum_update(f.rx_checksum, b)
    BY <1>1, <1>4 DEF WaitLen, Fsm
  <2>2. Size(f) = 3 /\ Size(g) = 3 + 1
    BY <2>1 DEF Size
  <2>3. Place(g, 3 + 1) = b /\ \A i \in 1 .. 3 : Place(g, i) = Place(f, i)
    BY <2>1 DEF Place
  <2>4. Believed(g) = Append(Believed(f), b)
    BY <1>2, <2>2, <2>3, BelievedAppend
  <2>5. g.rx_state = "WAIT_CRC" => g.rx_cnt = g.rx_data_len
    <3>1. b \in Nat
      BY ByteAssumption DEF Byte
    <3>2. g.rx_state = "WAIT_CRC" => ~ (b > 0)
      BY <1>1, <1>4 DEF WaitLen, Fsm
    <3> QED
      BY <2>1, <3>1, <3>2
  <2> QED
    BY <1>2, <2>1, <2>4, <2>5 DEF Grows
<1> QED
  BY <1>3, <1>4

\* A byte of the payload.
LEMMA DataGrows ==
  ASSUME NEW f, FsmInv(f), NEW b \in Byte, f.rx_state = "WAIT_DATA"
  PROVE  /\ Believed(Fed(f, b)) = Append(Believed(f), b)
         /\ Fed(f, b).rx_checksum = checksum_update(f.rx_checksum, b)
         /\ Fed(f, b).rx_state = "WAIT_CRC" =>
              Fed(f, b).rx_cnt = Fed(f, b).rx_data_len
<1>1. PICK g : g = WaitData(f, b)
  OBVIOUS
<1>2. g \in Fsm /\ Fed(f, b) = g /\ f \in Fsm
  BY <1>1, DataKeeps DEF FsmInv, Fed
<1>3. PICK n \in Nat : n = f.rx_cnt
  BY <1>2 DEF Fsm
<1>4. /\ n < f.rx_data_len /\ f.rx_data_len \in Nat /\ BufferSize \in Nat
      /\ f.rx_data_len <= BufferSize
  BY <1>2, <1>3, ByteAssumption, PayloadAssumption DEF FsmInv, Fsm, Byte, BufferSize
<1>5. /\ g.rx_state \in {"WAIT_DATA", "WAIT_CRC"}
      /\ g.rx_state = "WAIT_CRC" => n + 1 >= f.rx_data_len
      /\ g.rx_cnt = n + 1 /\ g.rx_data_len = f.rx_data_len /\ g.rx_id = f.rx_id
      /\ g.rx_checksum = checksum_update(f.rx_checksum, b)
      /\ g.rx_buffer = [f.rx_buffer EXCEPT ![n] = b]
  BY <1>1, <1>2, <1>3 DEF WaitData, Fsm
<1>6. /\ n \in 0 .. BufferSize - 1
      /\ f.rx_buffer \in [0 .. BufferSize - 1 -> Byte]
  BY <1>2, <1>4 DEF Fsm
<1>7. g.rx_buffer[n] = b
  BY <1>5, <1>6
<1>8. PICK k \in Nat : k = 4 + n
  OBVIOUS
<1>9. Size(f) = k /\ Size(g) = k + 1
  BY <1>3, <1>5, <1>8 DEF Size
<1>10. Place(g, k + 1) = b
  <2>1. k + 1 \notin {1, 2, 3, 4} /\ (k + 1) - 5 = n
    BY <1>8
  <2> QED
    BY <1>7, <2>1 DEF Place
<1>11. ASSUME NEW i \in 1 .. k PROVE Place(g, i) = Place(f, i)
  <2>1. CASE i \in {1, 2, 3, 4}
    BY <1>5, <2>1 DEF Place
  <2>2. CASE i \notin {1, 2, 3, 4}
    <3>1. PICK j \in 0 .. BufferSize - 1 : j = i - 5 /\ j # n
      <4>1. i - 5 \in 0 .. BufferSize - 1 /\ i - 5 # n
        BY <1>4, <1>6, <1>8, <2>2
      <4> QED
        BY <4>1
    <3>2. g.rx_buffer[j] = f.rx_buffer[j]
      BY <1>5, <1>6, <3>1
    <3> QED
      BY <2>2, <3>1, <3>2 DEF Place
  <2> QED
    BY <2>1, <2>2
<1>12. Believed(g) = Append(Believed(f), b)
  BY <1>2, <1>9, <1>10, <1>11, BelievedAppend
<1>13. g.rx_state = "WAIT_CRC" => g.rx_cnt = g.rx_data_len
  BY <1>4, <1>5
<1> QED
  BY <1>2, <1>5, <1>12, <1>13

-----------------------------------------------------------------------------
(* The inductive invariant: the checksum is that of the bytes of the frame *)
(* begun, and those bytes, if they can begin a frame, are the last of the  *)
(* line, all after the last packet.                                        *)

\* What the checksum covers of a frame begun.
Rest(s) == [i \in 1 .. Len(s) - 2 |-> s[i + 2]]

\* One byte more to cover.
LEMMA RestAppend ==
  ASSUME NEW s \in Seq(Byte), NEW b \in Byte, Len(s) >= 2
  PROVE  Rest(s) \in Seq(Byte) /\ Rest(Append(s, b)) = Append(Rest(s), b)
<1>1. PICK n \in Nat : Len(s) = n + 2
  <2>1. Len(s) - 2 \in Nat /\ Len(s) = (Len(s) - 2) + 2
    BY LenProperties
  <2> QED
    BY <2>1
<1>2. PICK t, u, v : t = Append(s, b) /\ u = Rest(s) /\ v = Append(u, b)
  OBVIOUS
<1>3. /\ t \in Seq(Byte) /\ Len(t) = n + 3 /\ t[n + 3] = b
      /\ \A i \in 1 .. n + 2 : t[i] = s[i]
  <2>1. n + 2 + 1 = n + 3
    OBVIOUS
  <2> QED
    BY <1>1, <1>2, <2>1, AppendProperties
<1>4. u = [i \in 1 .. n |-> s[i + 2]]
  <2>1. (n + 2) - 2 = n
    OBVIOUS
  <2> QED
    BY <1>1, <1>2, <2>1 DEF Rest
<1>5. u \in Seq(Byte) /\ Len(u) = n
  <2>1. ASSUME NEW i \in 1 .. n PROVE s[i + 2] \in Byte
    <3>1. i + 2 \in 1 .. n + 2
      OBVIOUS
    <3> QED
      BY <1>1, <3>1, ElementOfSeq
  <2>2. u \in [1 .. n -> Byte]
    BY <1>4, <2>1
  <2> QED
    BY <2>2
<1>6. Rest(t) = [i \in 1 .. n + 1 |-> t[i + 2]]
  <2>1. (n + 3) - 2 = n + 1
    OBVIOUS
  <2> QED
    BY <1>3, <2>1 DEF Rest
<1>7. v \in Seq(Byte) /\ Len(v) = n + 1 /\ v[n + 1] = b /\ \A i \in 1 .. n : v[i] = u[i]
  BY <1>2, <1>5, AppendProperties
<1>8. ASSUME NEW i \in 1 .. n + 1 PROVE v[i] = t[i + 2]
  <2>1. CASE i = n + 1
    <3>1. i + 2 = n + 3
      BY <2>1
    <3> QED
      BY <1>3, <1>7, <2>1, <3>1
  <2>2. CASE i # n + 1
    <3>1. i \in 1 .. n
      BY <2>2
    <3>2. PICK j \in 1 .. n + 2 : j = i + 2
      <4>1. i + 2 \in 1 .. n + 2
        BY <3>1
      <4> QED
        BY <4>1
    <3> QED
      BY <1>3, <1>4, <1>7, <3>1, <3>2
  <2> QED
    BY <2>1, <2>2
<1>9. v = [i \in 1 .. n + 1 |-> v[i]]
  BY <1>7
<1>10. Rest(t) = v
  BY <1>6, <1>8, <1>9
<1> QED
  BY <1>2, <1>5, <1>10

Summing(f) == f.rx_state \in {"WAIT_LEN", "WAIT_DATA", "WAIT_CRC"}

FsmGood(f) ==
  /\ FsmInv(f)
  /\ f.rx_state = "WAIT_CRC" => f.rx_cnt = f.rx_data_len
  /\ Summing(f) => f.rx_checksum = Checksum(Rest(Believed(f)))

\* A byte is added to the sum, or not begins it.
LEMMA SumGrows ==
  ASSUME NEW f \in Fsm, NEW g, NEW b \in Byte, Size(f) >= 2,
         f.rx_state = "WAIT_ID" \/ f.rx_checksum = Checksum(Rest(Believed(f))),
         f.rx_state = "WAIT_ID" => g.rx_checksum = checksum_update(0, b),
         f.rx_state # "WAIT_ID" => g.rx_checksum = checksum_update(f.rx_checksum, b),
         Believed(g) = Append(Believed(f), b)
  PROVE  g.rx_checksum = Checksum(Rest(Believed(g)))
<1>1. PICK s : s = Believed(f)
  OBVIOUS
<1>2. s \in Seq(Byte) /\ Len(s) = Size(f) /\ Len(s) >= 2
  BY <1>1, BelievedIs
<1>3. Rest(s) \in Seq(Byte) /\ Rest(Append(s, b)) = Append(Rest(s), b)
  BY <1>2, RestAppend
<1>4. Checksum(Rest(Append(s, b))) = checksum_update(Checksum(Rest(s)), b)
  BY <1>3, ChecksumAppend
<1>5. f.rx_state = "WAIT_ID" => Checksum(Rest(s)) = 0
  <2>1. SUFFICES ASSUME f.rx_state = "WAIT_ID" PROVE Checksum(Rest(s)) = 0
    OBVIOUS
  <2>2. Len(s) = 2
    BY <1>2, <2>1 DEF Size
  <2>3. Rest(s) = <<>>
    BY <2>2 DEF Rest
  <2> QED
    BY <2>3, ChecksumOfNone
<1> QED
  BY <1>1, <1>4, <1>5

\* Every case of protocol_fsm_feed but the last.
LEMMA FedGood ==
  ASSUME NEW f, FsmGood(f), NEW b \in Byte
  PROVE  /\ FsmGood(Fed(f, b))
         /\ f.rx_state # "WAIT_CRC" => Grows(f, b)
         /\ f.rx_state = "WAIT_CRC" => Believed(Fed(f, b)) = <<>>
<1>1. PICK g : g = Fed(f, b)
  OBVIOUS
<1>2. f \in Fsm /\ FsmInv(f) /\ FsmInv(g) /\ g \in Fsm /\ f.rx_state \in States
  <2>1. FsmInv(f)
    BY DEF FsmGood
  <2>2. FsmInv(g)
    BY <1>1, <2>1, FedKeeps
  <2> QED
    BY <2>1, <2>2 DEF FsmInv, Fsm
<1>3. CASE f.rx_state \in {"WAIT_HEADER1", "WAIT_HEADER2"}
  <2>1. Grows(f, b)
    BY <1>2, <1>3, HeaderGrows
  <2>2. ~ Summing(g)
    <3>1. CASE f.rx_state = "WAIT_HEADER1"
      <4>1. g = WaitHeader1(f, b)
        BY <1>1, <3>1 DEF Fed
      <4> QED
        BY <1>2, <4>1 DEF Summing, WaitHeader1, Fsm
    <3>2. CASE f.rx_state = "WAIT_HEADER2"
      <4>1. g = WaitHeader2(f, b)
        BY <1>1, <3>2 DEF Fed
      <4> QED
        BY <1>2, <4>1 DEF Summing, WaitHeader2, Fsm
    <3> QED
      BY <1>3, <3>1, <3>2
  <2> QED
    BY <1>1, <1>2, <1>3, <2>1, <2>2 DEF FsmGood, Summing
<1>4. CASE f.rx_state = "WAIT_ID"
  <2>1. Believed(g) = Append(Believed(f), b)
    BY <1>1, <1>2, <1>4, IdGrows
  <2>2. g.rx_checksum = checksum_update(0, b) /\ g.rx_state = "WAIT_LEN"
    <3>1. g = WaitId(f, b)
      BY <1>1, <1>4 DEF Fed
    <3> QED
      BY <1>2, <3>1 DEF WaitId, Fsm
  <2>3. Size(f) >= 2
    BY <1>4 DEF Size
  <2>4. g.rx_checksum = Checksum(Rest(Believed(g)))
    BY <1>2, <1>4, <2>1, <2>2, <2>3, SumGrows
  <2> QED
    BY <1>1, <1>2, <1>4, <2>1, <2>2, <2>4 DEF FsmGood, Grows
<1>5. CASE f.rx_state = "WAIT_LEN"
  <2>1. Grows(f, b)
    BY <1>2, <1>5, LenGrows
  <2>2. CASE g.rx_state \in {"WAIT_HEADER1", "WAIT_HEADER2"}
    <3>1. ~ Summing(g) /\ g.rx_state # "WAIT_CRC"
      BY <2>2 DEF Summing
    <3> QED
      BY <1>1, <1>2, <1>5, <2>1, <3>1 DEF FsmGood
  <2>3. CASE g.rx_state \notin {"WAIT_HEADER1", "WAIT_HEADER2"}
    <3>1. /\ Believed(g) = Append(Believed(f), b)
          /\ g.rx_checksum = checksum_update(f.rx_checksum, b)
          /\ g.rx_state = "WAIT_CRC" => g.rx_cnt = g.rx_data_len
      BY <1>1, <1>2, <1>5, <2>3, LenGrows
    <3>2. Size(f) >= 2 /\ f.rx_checksum = Checksum(Rest(Believed(f)))
      BY <1>5 DEF Size, FsmGood, Summing
    <3>3. g.rx_checksum = Checksum(Rest(Believed(g)))
      BY <1>2, <1>5, <3>1, <3>2, SumGrows
    <3> QED
      BY <1>1, <1>2, <1>5, <2>1, <3>1, <3>3 DEF FsmGood
  <2> QED
    BY <2>2, <2>3
<1>6. CASE f.rx_state = "WAIT_DATA"
  <2>1. /\ Believed(g) = Append(Believed(f), b)
        /\ g.rx_checksum = checksum_update(f.rx_checksum, b)
        /\ g.rx_state = "WAIT_CRC" => g.rx_cnt = g.rx_data_len
    BY <1>1, <1>2, <1>6, DataGrows
  <2>2. Size(f) >= 2 /\ f.rx_checksum = Checksum(Rest(Believed(f)))
    <3>1. f.rx_cnt \in Nat
      BY <1>2 DEF Fsm
    <3> QED
      BY <1>6, <3>1 DEF Size, FsmGood, Summing
  <2>3. g.rx_checksum = Checksum(Rest(Believed(g)))
    BY <1>2, <1>6, <2>1, <2>2, SumGrows
  <2> QED
    BY <1>1, <1>2, <1>6, <2>1, <2>3 DEF FsmGood, Grows
<1>7. CASE f.rx_state = "WAIT_CRC"
  <2>1. g = WaitCrc(f)
    BY <1>1, <1>7 DEF Fed
  <2>2. g.rx_state = "WAIT_HEADER1"
    BY <1>2, <2>1 DEF WaitCrc, Fsm
  <2>3. Believed(g) = <<>>
    BY <1>2, <2>2, BelievedIs, EmptySeq DEF Size
  <2> QED
    BY <1>1, <1>2, <1>7, <2>2, <2>3 DEF FsmGood, Summing
<1> QED
  BY <1>2, <1>3, <1>4, <1>5, <1>6, <1>7 DEF States

\* The bytes of a completed packet are a frame, and the packet is in it.
LEMMA CompletesFrame ==
  ASSUME NEW f, FsmGood(f), NEW b \in Byte, Completes(f, b)
  PROVE  /\ Append(Believed(f), b) \in Frames
         /\ PacketIn(Append(Believed(f), b)) = Received(f)
         /\ Received(f).payload \in Seq(Byte) /\ Received(f).id \in Byte
<1>1. PICK s, u : s = Believed(f) /\ u = Append(s, b)
  OBVIOUS
<1>2. PICK id \in PacketIds : id = f.rx_id
  BY DEF Completes
<1>3. PICK n \in Nat : n = expected_payload_size[id]
  BY PayloadAssumption, ByteAssumption DEF PacketIds, Byte
<1>4. /\ f \in Fsm /\ f.rx_state = "WAIT_CRC" /\ f.rx_cnt = n /\ f.rx_data_len = n
      /\ Summing(f)
  BY <1>2, <1>3 DEF FsmGood, FsmInv, Completes, Summing
<1>5. n \in 0 .. BufferSize /\ BufferSize \in Nat /\ id \in Byte
  BY <1>4, ByteAssumption, PayloadAssumption DEF Fsm, BufferSize, Byte, PacketIds
<1>6. Size(f) = 4 + n
  BY <1>4 DEF Size
<1>7. /\ s \in Seq(Byte) /\ Len(s) = 4 + n
      /\ \A i \in 1 .. 4 + n : s[i] = Place(f, i)
  BY <1>1, <1>4, <1>6, BelievedIs
<1> DEFINE p == [i \in 1 .. n |-> f.rx_buffer[i - 1]]
<1>8. p \in PayloadsOf(id) /\ p \in Seq(Byte)
  <2>1. ASSUME NEW i \in 1 .. n PROVE f.rx_buffer[i - 1] \in Byte
    <3>1. i - 1 \in 0 .. BufferSize - 1
      BY <1>5
    <3>2. f.rx_buffer \in [0 .. BufferSize - 1 -> Byte]
      BY <1>4 DEF Fsm
    <3> QED
      BY <3>1, <3>2
  <2>2. p \in [1 .. n -> Byte]
    BY <2>1
  <2> HIDE DEF p
  <2>3. p \in Seq(Byte)
    BY <2>2
  <2>4. p \in PayloadsOf(id)
    BY <1>3, <2>2 DEF PayloadsOf
  <2> QED
    BY <2>3, <2>4
<1>9. Received(f) = [id |-> id, payload |-> p]
  BY <1>2, <1>4 DEF Received
<1>10. ASSUME NEW i \in 1 .. n PROVE s[4 + i] = p[i]
  <2>1. PICK j \in 1 .. 4 + n : j = 4 + i
    <3>1. 4 + i \in 1 .. 4 + n
      OBVIOUS
    <3> QED
      BY <3>1
  <2>2. j \notin {1, 2, 3, 4} /\ j - 5 = i - 1
    BY <2>1
  <2>3. Place(f, j) = f.rx_buffer[i - 1]
    BY <2>2 DEF Place
  <2> QED
    BY <1>7, <2>1, <2>3
<1>p. p = [i \in 1 .. n |-> p[i]]
  OBVIOUS
<1> HIDE DEF p
<1>11. s[1] = Header1 /\ s[2] = Header2 /\ s[3] = id /\ s[4] = n
  <2>1. \A i \in 1 .. 4 : i \in 1 .. 4 + n
    OBVIOUS
  <2>2. /\ Place(f, 1) = Header1 /\ Place(f, 2) = Header2
        /\ Place(f, 3) = id /\ Place(f, 4) = n
    BY <1>2, <1>4 DEF Place
  <2> QED
    BY <1>7, <2>1, <2>2
<1>12. /\ u \in Seq(Byte) /\ Len(u) = 5 + n /\ u[5 + n] = b
       /\ \A i \in 1 .. 4 + n : u[i] = s[i]
  <2>1. 4 + n + 1 = 5 + n
    OBVIOUS
  <2> QED
    BY <1>1, <1>7, <2>1, AppendProperties
<1>13. Spells(u, id, p, b)
  <2>1. \A i \in 1 .. n : 4 + i \in 1 .. 4 + n
    OBVIOUS
  <2>2. \A i \in 1 .. n : u[4 + i] = p[i]
    BY <1>10, <1>12, <2>1
  <2>3. u[1] = Header1 /\ u[2] = Header2 /\ u[3] = id /\ u[4] = n
    <3>1. \A i \in 1 .. 4 : i \in 1 .. 4 + n
      OBVIOUS
    <3> QED
      BY <1>11, <1>12, <3>1
  <2> QED
    BY <1>3, <1>12, <2>2, <2>3 DEF Spells
<1>14. SpellsCovered(Rest(s), id, p)
  <2>1. Rest(s) = [i \in 1 .. 2 + n |-> s[i + 2]]
    <3>1. (4 + n) - 2 = 2 + n
      OBVIOUS
    <3> QED
      BY <1>7, <3>1 DEF Rest
  <2>2. Rest(s) \in Seq(Byte) /\ Len(Rest(s)) = 2 + n
    <3>1. ASSUME NEW i \in 1 .. 2 + n PROVE s[i + 2] \in Byte
      <4>1. i + 2 \in 1 .. 4 + n
        OBVIOUS
      <4> QED
        BY <1>7, <4>1, ElementOfSeq
    <3>2. Rest(s) \in [1 .. 2 + n -> Byte]
      BY <2>1, <3>1
    <3> QED
      BY <2>1, <3>2
  <2>3. Rest(s)[1] = id /\ Rest(s)[2] = n
    <3>1. 1 \in 1 .. 2 + n /\ 2 \in 1 .. 2 + n /\ 1 + 2 = 3 /\ 2 + 2 = 4
      OBVIOUS
    <3> QED
      BY <1>11, <2>1, <3>1
  <2>4. ASSUME NEW i \in 1 .. n PROVE Rest(s)[2 + i] = p[i]
    <3>1. PICK j \in 1 .. 2 + n : j = 2 + i
      <4>1. 2 + i \in 1 .. 2 + n
        OBVIOUS
      <4> QED
        BY <4>1
    <3>2. j + 2 = 4 + i
      BY <3>1
    <3> QED
      BY <1>10, <2>1, <3>1, <3>2
  <2> QED
    BY <1>3, <2>2, <2>3, <2>4 DEF SpellsCovered
<1>15. HasChecksum => b = Checksum(Covered(id, p))
  <2>1. Rest(s) = Covered(id, p)
    BY <1>8, <1>14, SpelledIsCovered
  <2>2. f.rx_checksum = Checksum(Rest(s))
    BY <1>1, <1>4 DEF FsmGood
  <2>3. HasChecksum => b = f.rx_checksum
    BY DEF Completes
  <2> QED
    BY <2>1, <2>2, <2>3
<1>16. u \in Frames
  BY <1>8, <1>13, <1>15, PartsFrame
<1>17. SubSeq(u, 5, Len(u) - 1) = p
  <2>1. Len(u) - 1 = 4 + n
    BY <1>12
  <2>2. PICK q : q = SubSeq(u, 5, 4 + n)
    OBVIOUS
  <2>3. q = [i \in 1 .. n |-> u[4 + i]]
    <3>1. SubSeq(u, 5, 4 + n) = [i \in 1 .. (1 + (4 + n) - 5) |-> u[5 + i - 1]]
      BY <1>12
    <3>2. 1 + (4 + n) - 5 = n /\ \A i \in 1 .. n : 5 + i - 1 = 4 + i
      OBVIOUS
    <3> QED
      BY <2>2, <3>1, <3>2
  <2>4. \A i \in 1 .. n : u[4 + i] = p[i]
    BY <1>3, <1>13 DEF Spells
  <2> QED
    BY <1>p, <2>1, <2>2, <2>3, <2>4
<1>18. PacketIn(u) = Received(f)
  <2>1. u[3] = id
    BY <1>13 DEF Spells
  <2> QED
    BY <1>9, <1>17, <2>1 DEF PacketIn
<1> QED
  BY <1>1, <1>5, <1>8, <1>9, <1>16, <1>18

\* What came after the last packet.
Since == IF out = None THEN recent ELSE <<>>

Heard == Believed(fsm) \in FrameBeginnings => EndsWith(Since, Believed(fsm))

Sound ==
  /\ FsmGood(fsm)
  /\ TypeOK
  /\ Heard
  /\ GenuineOnly

\* Nothing has come.
LEMMA SoundAtFirst == Init => Sound
<1> SUFFICES ASSUME Init PROVE Sound
  OBVIOUS
<1>1. 0 \in Byte /\ BufferSize \in Nat
  BY ByteAssumption, PayloadAssumption DEF Byte, BufferSize
<1>2. fsm \in Fsm /\ fsm.rx_state = "WAIT_HEADER1"
  BY <1>1 DEF Init, Fsm, States
<1>3. FsmGood(fsm)
  BY <1>2 DEF FsmGood, FsmInv, Summing
<1>4. out = None /\ recent = <<>>
  BY DEF Init
<1>5. TypeOK
  BY <1>1, <1>2, <1>4 DEF TypeOK, None
<1>6. Believed(fsm) = <<>>
  BY <1>2, BelievedIs, EmptySeq DEF Size
<1>7. Heard
  <2>1. Since = <<>> /\ <<>> \in Seq(Byte)
    BY <1>4 DEF Since
  <2> QED
    BY <1>6, <2>1, EndsWithNone DEF Heard
<1> QED
  BY <1>3, <1>4, <1>5, <1>7 DEF Sound, GenuineOnly

\* One byte.
LEMMA SoundFeed ==
  ASSUME Sound, NEW b \in Byte, Feed(b)
  PROVE  Sound'
<1>1. FsmGood(fsm) /\ FsmGood(fsm') /\ fsm' = Fed(fsm, b) /\ fsm \in Fsm /\ fsm' \in Fsm
  <2>1. FsmGood(fsm) /\ fsm' = Fed(fsm, b)
    BY DEF Sound, Feed
  <2>2. FsmGood(fsm')
    BY <2>1, FedGood
  <2> QED
    BY <2>1, <2>2 DEF FsmGood, FsmInv
<1>2. Since \in Seq(Byte)
  BY DEF Sound, TypeOK, Since
<1>3. PICK line : line = Append(Since, b)
  OBVIOUS
<1>4. line \in Seq(Byte) /\ recent' = FrameEnd(line)
  BY <1>2, <1>3, AppendProperties DEF Feed, Since
<1>5. recent' \in Seq(Byte)
  BY <1>4, FrameEndIs, BeginningIs
<1>6. \A s \in FrameBeginnings : EndsWith(line, s) => EndsWith(recent', s)
  BY <1>4, FrameEndIs
<1>7. PICK s : s = Believed(fsm) /\ s \in Seq(Byte)
  BY <1>1, BelievedIs
<1>8. Append(s, b) \in FrameBeginnings => EndsWith(recent', Append(s, b))
  <2>1. SUFFICES ASSUME Append(s, b) \in FrameBeginnings
                 PROVE  EndsWith(recent', Append(s, b))
    OBVIOUS
  <2>2. s \in FrameBeginnings
    BY <1>7, <2>1, BeginningShorter
  <2>3. EndsWith(Since, s)
    BY <1>7, <2>2 DEF Sound, Heard
  <2>4. EndsWith(line, Append(s, b))
    BY <1>2, <1>3, <1>7, <2>3, EndsAppend
  <2> QED
    BY <1>6, <2>1, <2>4
<1>9. Believed(fsm') \in FrameBeginnings => EndsWith(Since', Believed(fsm'))
  <2>1. CASE Believed(fsm') = <<>>
    <3>1. Since' \in Seq(Byte)
      BY <1>5 DEF Since
    <3> QED
      BY <2>1, <3>1, EndsWithNone
  <2>2. CASE Believed(fsm') # <<>>
    <3>1. fsm.rx_state # "WAIT_CRC" /\ Grows(fsm, b)
      BY <1>1, <2>2, FedGood
    <3>2. Since' = recent'
      BY <3>1 DEF Since, Feed, Completes
    <3>3. CASE Believed(fsm') = <<b>>
      <4>1. EndsWith(line, <<b>>)
        BY <1>2, <1>3, EndsWithLast
      <4> QED
        BY <1>6, <3>2, <3>3, <4>1
    <3>4. CASE Believed(fsm') = Append(s, b)
      BY <1>8, <3>2, <3>4
    <3> QED
      BY <1>1, <1>7, <2>2, <3>1, <3>3, <3>4 DEF Grows
  <2> QED
    BY <2>1, <2>2
<1>10. GenuineOnly' /\ out' \in [id : Byte, payload : Seq(Byte)]
  <2>1. CASE Completes(fsm, b)
    <3>1. PICK frame : frame = Append(s, b)
      OBVIOUS
    <3>2. /\ frame \in Frames /\ PacketIn(frame) = Received(fsm)
          /\ Received(fsm).payload \in Seq(Byte) /\ Received(fsm).id \in Byte
      BY <1>1, <1>7, <2>1, <3>1, CompletesFrame
    <3>3. frame \in Seq(Byte) /\ EndsWith(recent', frame)
      BY <1>8, <3>1, <3>2, BeginningIs
    <3>4. IsSuffix(frame, recent')
      BY <1>5, <3>3, EndsIsSuffix
    <3>5. out' = Received(fsm)
      BY <2>1 DEF Feed
    <3>6. Received(fsm) = [id |-> Received(fsm).id, payload |-> Received(fsm).payload]
      BY DEF Received
    <3>7. out' \in [id : Byte, payload : Seq(Byte)]
      BY <3>2, <3>5, <3>6
    <3>8. \E g \in Frames : IsSuffix(g, recent') /\ PacketIn(g) = out'
      BY <3>2, <3>4, <3>5
    <3> QED
      BY <3>7, <3>8 DEF GenuineOnly
  <2>2. CASE ~ Completes(fsm, b)
    <3>1. out' = None
      BY <2>2 DEF Feed
    <3>2. 0 \in Byte /\ <<>> \in Seq(Byte)
      BY ByteAssumption DEF Byte
    <3> QED
      BY <3>1, <3>2 DEF GenuineOnly, None
  <2> QED
    BY <2>1, <2>2
<1>11. FsmGood(fsm)'
  BY <1>1
<1>12. TypeOK'
  BY <1>1, <1>5, <1>10 DEF TypeOK
<1>13. Heard'
  BY <1>9 DEF Heard
<1> QED
  BY <1>10, <1>11, <1>12, <1>13 DEF Sound

\* Every step.
LEMMA SoundStep == Sound /\ [Next]_vars => Sound'
<1> SUFFICES ASSUME Sound, [Next]_vars PROVE Sound'
  OBVIOUS
<1>1. CASE Next
  BY <1>1, SoundFeed DEF Next
<1>2. CASE UNCHANGED vars
  BY <1>2 DEF vars, Sound, FsmGood, FsmInv, TypeOK, Heard, Since, GenuineOnly,
              Summing, Believed, Size, Place
<1> QED
  BY <1>1, <1>2

\* The static variables of protocol.c and the packets received keep their
\* types: TypeOK in every behaviour.
THEOREM TypeCorrect == Spec => []TypeOK
<1>1. Sound => TypeOK
  BY DEF Sound
<1> QED
  BY <1>1, SoundAtFirst, SoundStep, PTL DEF Spec

\* A packet is received only if the last bytes of the line are a frame that
\* holds it, none of them part of an earlier packet: GenuineOnly in every
\* behaviour.
THEOREM OnlyGenuine == Spec => []GenuineOnly
<1>1. Sound => GenuineOnly
  BY DEF Sound
<1> QED
  BY <1>1, SoundAtFirst, SoundStep, PTL DEF Spec

-----------------------------------------------------------------------------
(* A frame that is sent to a receiver that searches for a header is        *)
(* decoded.                                                                *)

Feeding == INSTANCE FoldFacts WITH op <- FeedInto

\* Feeding a sequence of bytes is a fold of the module FoldFacts.
LEMMA GetsIsFold ==
  \A f, s : Gets(f, s) = Feeding!FoldLeft(FeedInto, [f |-> f, got |-> <<>>], s).got
  BY DEF Gets, FoldLeft, MapThenFoldSet, Max,
         Feeding!FoldLeft, Feeding!MapThenFoldSet, Feeding!Max

Stage(k, n) ==
  CASE k = 1     -> "WAIT_HEADER2"
    [] k = 2     -> "WAIT_ID"
    [] k = 3     -> "WAIT_LEN"
    [] k = 4 + n -> "WAIT_CRC"
    [] OTHER     -> "WAIT_DATA"

\* f has read the first k bytes of frame, which has n bytes of payload.
Reading(f, frame, n, k) ==
  /\ FsmGood(f)
  /\ f.rx_state = Stage(k, n)
  /\ Len(Believed(f)) = k
  /\ \A i \in 1 .. k : Believed(f)[i] = frame[i]

\* Its n bytes of payload fit.
Framed(frame, n) ==
  /\ n \in 1 .. BufferSize
  /\ frame \in Frames /\ frame \in Seq(Byte)
  /\ Len(frame) = 5 + n
  /\ frame[1] = Header1 /\ frame[2] = Header2 /\ frame[4] = n

\* Every frame has a payload.
LEMMA FrameHasPayload ==
  ASSUME NEW frame \in Frames
  PROVE  \E n \in Nat : Framed(frame, n)
<1>1. PICK id \in PacketIds : \E p \in PayloadsOf(id), t \in Byte : Spells(frame, id, p, t)
  BY FrameParts
<1>2. PICK p \in PayloadsOf(id), t \in Byte : Spells(frame, id, p, t)
  BY <1>1
<1>3. PICK n \in Nat : n = expected_payload_size[id]
  BY PayloadAssumption, ByteAssumption DEF PacketIds, Byte
<1>4. n \in 1 .. BufferSize
  <2>1. n > 0 /\ n <= MaxPayload
    BY <1>3, PayloadAssumption DEF PacketIds
  <2>2. MaxPayload \in Nat
    BY ByteAssumption, PayloadAssumption DEF Byte
  <2> QED
    BY <2>1, <2>2 DEF BufferSize
<1> QED
  BY <1>2, <1>3, <1>4 DEF Framed, Spells

\* One byte read of a sequence.
LEMMA ReadingAppend ==
  ASSUME NEW f \in Fsm, NEW frame \in Seq(Byte), NEW k \in Nat, NEW m \in Nat,
         m = k + 1, m <= Len(frame), Len(Believed(f)) = k,
         \A i \in 1 .. k : Believed(f)[i] = frame[i],
         NEW g, Believed(g) = Append(Believed(f), frame[m])
  PROVE  /\ Len(Believed(g)) = m
         /\ \A i \in 1 .. m : Believed(g)[i] = frame[i]
<1>1. PICK s, u, b : s = Believed(f) /\ b = frame[m] /\ u = Append(s, b)
  OBVIOUS
<1>2. s \in Seq(Byte) /\ Len(s) = k
  BY <1>1, BelievedIs
<1>3. b \in Byte
  <2>1. m \in 1 .. Len(frame)
    BY LenProperties
  <2> QED
    BY <1>1, <2>1, ElementOfSeq
<1>4. Len(u) = k + 1 /\ u[k + 1] = b /\ \A i \in 1 .. k : u[i] = s[i]
  BY <1>1, <1>2, <1>3, AppendProperties
<1>5. ASSUME NEW i \in 1 .. m PROVE u[i] = frame[i]
  <2>1. CASE i = m
    BY <1>1, <1>4, <2>1
  <2>2. CASE i # m
    <3>1. i \in 1 .. k
      BY <2>2
    <3> QED
      BY <1>1, <1>4, <3>1
  <2> QED
    BY <2>1, <2>2
<1> QED
  BY <1>1, <1>4, <1>5

\* The first byte.
LEMMA ReadFirst ==
  ASSUME NEW f, FsmGood(f), NEW frame, NEW n \in Nat, Framed(frame, n),
         \/ f.rx_state = "WAIT_HEADER1"
         \/ f.rx_state = "WAIT_HEADER2" /\ Header1 # Header2
  PROVE  Reading(Fed(f, frame[1]), frame, n, 1)
<1>1. f \in Fsm /\ Header1 \in Byte /\ frame[1] = Header1
  BY ByteAssumption DEF FsmGood, FsmInv, Framed
<1>2. PICK g : g = Fed(f, Header1)
  OBVIOUS
<1>3. FsmGood(g) /\ g \in Fsm
  BY <1>1, <1>2, FedGood DEF FsmGood, FsmInv
<1>4. g.rx_state = "WAIT_HEADER2"
  <2>1. CASE f.rx_state = "WAIT_HEADER1"
    <3>1. g = WaitHeader1(f, Header1)
      BY <1>2, <2>1 DEF Fed
    <3> QED
      BY <1>1, <3>1 DEF WaitHeader1, Fsm
  <2>2. CASE f.rx_state = "WAIT_HEADER2" /\ Header1 # Header2
    <3>1. g = WaitHeader2(f, Header1)
      BY <1>2, <2>2 DEF Fed
    <3> QED
      BY <1>1, <2>2, <3>1 DEF WaitHeader2, Fsm
  <2> QED
    BY <2>1, <2>2
<1>5. Size(g) = 1 /\ Place(g, 1) = Header1 /\ 1 \in 1 .. 1
  BY <1>4 DEF Size, Place
<1>6. Len(Believed(g)) = 1 /\ Believed(g)[1] = Header1
  BY <1>3, <1>5, BelievedIs
<1>7. \A i \in 1 .. 1 : Believed(g)[i] = frame[i]
  BY <1>1, <1>6
<1> QED
  BY <1>1, <1>2, <1>3, <1>4, <1>6, <1>7 DEF Reading, Stage

\* The next byte up to the last of the payload.
LEMMA ReadNext ==
  ASSUME NEW f, NEW frame, NEW n \in Nat, Framed(frame, n),
         NEW k \in 1 .. 3 + n, NEW m \in Nat, m = k + 1, Reading(f, frame, n, k)
  PROVE  Reading(Fed(f, frame[m]), frame, n, m)
<1>1. FsmGood(f) /\ f \in Fsm /\ f.rx_state = Stage(k, n) /\ Len(Believed(f)) = k
  BY DEF Reading, FsmGood, FsmInv
<1>2. /\ n \in 1 .. BufferSize /\ frame \in Seq(Byte) /\ Len(frame) = 5 + n
      /\ frame[1] = Header1 /\ frame[2] = Header2 /\ frame[4] = n
  BY DEF Framed
<1>3. PICK b \in Byte : b = frame[m]
  <2>1. m \in 1 .. Len(frame)
    BY <1>2
  <2> QED
    BY <1>2, <2>1, ElementOfSeq
<1>4. PICK g : g = Fed(f, b)
  OBVIOUS
<1>5. FsmGood(g) /\ g \in Fsm
  BY <1>1, <1>4, FedGood DEF FsmGood, FsmInv
<1>6. SUFFICES g.rx_state = Stage(m, n) /\ Believed(g) = Append(Believed(f), b)
  <2>1. ASSUME Believed(g) = Append(Believed(f), b)
        PROVE  Len(Believed(g)) = m /\ \A i \in 1 .. m : Believed(g)[i] = frame[i]
    <3>1. m <= Len(frame) /\ k \in Nat
      BY <1>2
    <3>2. \A i \in 1 .. k : Believed(f)[i] = frame[i]
      BY DEF Reading
    <3> QED
      BY <1>1, <1>2, <1>3, <2>1, <3>1, <3>2, ReadingAppend
  <2> QED
    BY <1>3, <1>4, <1>5, <2>1 DEF Reading
<1>7. CASE k = 1
  <2>1. f.rx_state = "WAIT_HEADER2" /\ b = Header2 /\ m = 2
    BY <1>1, <1>2, <1>3, <1>7 DEF Stage
  <2>2. g = WaitHeader2(f, b)
    BY <1>4, <2>1 DEF Fed
  <2>3. g.rx_state = "WAIT_ID"
    BY <1>1, <2>1, <2>2 DEF WaitHeader2, Fsm
  <2>4. Size(f) = 1 /\ Size(g) = 1 + 1
    BY <2>1, <2>3 DEF Size
  <2>5. Place(g, 1 + 1) = b /\ \A i \in 1 .. 1 : Place(g, i) = Place(f, i)
    BY <2>1 DEF Place
  <2>6. Believed(g) = Append(Believed(f), b)
    BY <1>1, <1>5, <2>4, <2>5, BelievedAppend
  <2> QED
    BY <2>1, <2>3, <2>6 DEF Stage
<1>8. CASE k = 2
  <2>1. f.rx_state = "WAIT_ID" /\ m = 3
    BY <1>1, <1>8 DEF Stage
  <2>2. g = WaitId(f, b)
    BY <1>4, <2>1 DEF Fed
  <2>3. g.rx_state = "WAIT_LEN"
    BY <1>1, <2>2 DEF WaitId, Fsm
  <2> QED
    BY <1>1, <1>4, <2>1, <2>3, IdGrows DEF Stage
<1>9. CASE k = 3
  <2>1. f.rx_state = "WAIT_LEN" /\ m = 4 /\ b = n
    BY <1>1, <1>2, <1>3, <1>9 DEF Stage
  <2>2. ~ (b > BufferSize) /\ b > 0
    <3>1. BufferSize \in Nat
      BY ByteAssumption, PayloadAssumption DEF BufferSize, Byte
    <3> QED
      BY <1>2, <2>1, <3>1
  <2>3. g = WaitLen(f, b)
    BY <1>4, <2>1 DEF Fed
  <2>4. g.rx_state = "WAIT_DATA"
    BY <1>1, <2>2, <2>3 DEF WaitLen, Fsm
  <2>5. Believed(g) = Append(Believed(f), b)
    BY <1>1, <1>4, <2>1, <2>4, LenGrows
  <2>6. Stage(4, n) = "WAIT_DATA"
    BY <1>2 DEF Stage
  <2> QED
    BY <2>1, <2>4, <2>5, <2>6
<1>10. CASE k >= 4
  <2>1. f.rx_state = "WAIT_DATA"
    BY <1>1, <1>10 DEF Stage
  <2>2. Believed(g) = Append(Believed(f), b)
    BY <1>1, <1>4, <2>1, DataGrows DEF FsmGood
  <2>3. f.rx_data_len = n
    <3>1. 4 \in 1 .. k
      BY <1>10
    <3>2. Believed(f)[4] = n /\ k = Size(f)
      BY <1>1, <1>2, <3>1, BelievedIs DEF Reading
    <3>3. Believed(f)[4] = Place(f, 4)
      BY <1>1, <3>1, <3>2, BelievedIs
    <3> QED
      BY <3>2, <3>3 DEF Place
  <2>4. k = 4 + f.rx_cnt /\ f.rx_cnt \in Nat
    <3>1. k = Size(f)
      BY <1>1, BelievedIs
    <3>2. f.rx_cnt \in Nat
      BY <1>1 DEF Fsm
    <3> QED
      BY <2>1, <3>1, <3>2 DEF Size
  <2>5. g = WaitData(f, b)
    BY <1>4, <2>1 DEF Fed
  <2>6. g.rx_state = IF f.rx_cnt + 1 >= f.rx_data_len THEN "WAIT_CRC" ELSE f.rx_state
    BY <1>1, <2>5 DEF WaitData, Fsm
  <2>7. f.rx_cnt + 1 >= n <=> m = 4 + n
    BY <2>4
  <2>8. m \notin {1, 2, 3}
    BY <1>10
  <2> QED
    BY <2>1, <2>2, <2>3, <2>6, <2>7, <2>8 DEF Stage
<1> QED
  BY <1>7, <1>8, <1>9, <1>10

\* The last byte.
LEMMA ReadLast ==
  ASSUME NEW f, NEW frame, NEW n \in Nat, Framed(frame, n),
         NEW k \in Nat, NEW m \in Nat, k = 4 + n, m = k + 1, Reading(f, frame, n, k)
  PROVE  Completes(f, frame[m]) /\ Received(f) = PacketIn(frame)
<1>1. /\ FsmGood(f) /\ f \in Fsm /\ f.rx_state = "WAIT_CRC" /\ Len(Believed(f)) = k
      /\ Summing(f)
  <2>1. Stage(k, n) = "WAIT_CRC"
    BY DEF Stage
  <2> QED
    BY <2>1 DEF Reading, FsmGood, FsmInv, Summing
<1>2. frame \in Seq(Byte) /\ Len(frame) = m /\ frame \in Frames
  BY DEF Framed
<1>3. PICK b \in Byte : b = frame[m]
  <2>1. m \in 1 .. m
    OBVIOUS
  <2> QED
    BY <1>2, <2>1, ElementOfSeq
<1>4. PICK s, u : s = Believed(f) /\ u = Append(s, b)
  OBVIOUS
<1>5. s \in Seq(Byte) /\ Len(s) = k /\ \A i \in 1 .. k : s[i] = frame[i]
  BY <1>1, <1>4, BelievedIs DEF Reading
<1>6. /\ u \in Seq(Byte) /\ Len(u) = k + 1 /\ u[k + 1] = b
      /\ \A i \in 1 .. k : u[i] = s[i]
  BY <1>4, <1>5, AppendProperties
<1>7. u = frame
  <2>1. ASSUME NEW i \in 1 .. m PROVE u[i] = frame[i]
    <3>1. i = m \/ i \in 1 .. k
      OBVIOUS
    <3> QED
      BY <1>3, <1>5, <1>6, <3>1
  <2> QED
    BY <1>2, <1>6, <2>1, SeqEqual
<1>8. PICK id \in PacketIds : \E p \in PayloadsOf(id), t \in Byte :
        Spells(frame, id, p, t) /\ (HasChecksum => t = Checksum(Covered(id, p)))
  BY <1>2, FrameParts
<1>9. PICK p \in PayloadsOf(id), t \in Byte :
        Spells(frame, id, p, t) /\ (HasChecksum => t = Checksum(Covered(id, p)))
  BY <1>8
<1>10. /\ n = expected_payload_size[id] /\ frame[3] = id /\ frame[4] = n
       /\ \A i \in 1 .. n : frame[4 + i] = p[i]
       /\ frame[m] = t
  <2>1. PICK e \in Nat : e = expected_payload_size[id]
    BY PayloadAssumption, ByteAssumption DEF PacketIds, Byte
  <2>2. /\ Len(frame) = 5 + e /\ frame[3] = id /\ frame[4] = e
        /\ \A i \in 1 .. e : frame[4 + i] = p[i]
        /\ frame[5 + e] = t
    BY <1>9, <2>1 DEF Spells
  <2>3. e = n
    BY <1>2, <2>2
  <2> QED
    BY <2>1, <2>2, <2>3
<1>11. f.rx_id = id /\ f.rx_data_len = n
  <2>1. 3 \in 1 .. k /\ 4 \in 1 .. k /\ Size(f) = k
    BY <1>1, BelievedIs
  <2>2. s[3] = Place(f, 3) /\ s[4] = Place(f, 4)
    BY <1>1, <1>4, <2>1, BelievedIs
  <2>3. Place(f, 3) = f.rx_id /\ Place(f, 4) = f.rx_data_len
    BY DEF Place
  <2>4. s[3] = id /\ s[4] = n
    BY <1>5, <1>10, <2>1
  <2> QED
    BY <2>2, <2>3, <2>4
<1>12. SpellsCovered(Rest(s), id, p)
  <2>1. Rest(s) = [i \in 1 .. 2 + n |-> s[i + 2]]
    <3>1. k - 2 = 2 + n
      OBVIOUS
    <3> QED
      BY <1>5, <3>1 DEF Rest
  <2>2. Rest(s) \in Seq(Byte) /\ Len(Rest(s)) = 2 + n
    <3>1. ASSUME NEW i \in 1 .. 2 + n PROVE s[i + 2] \in Byte
      <4>1. i + 2 \in 1 .. k
        OBVIOUS
      <4> QED
        BY <1>5, <4>1, ElementOfSeq
    <3>2. Rest(s) \in [1 .. 2 + n -> Byte]
      BY <2>1, <3>1
    <3> QED
      BY <2>1, <3>2
  <2>3. Rest(s)[1] = id /\ Rest(s)[2] = n
    <3>1. 1 \in 1 .. 2 + n /\ 2 \in 1 .. 2 + n /\ 1 + 2 = 3 /\ 2 + 2 = 4
      OBVIOUS
    <3>2. 3 \in 1 .. k /\ 4 \in 1 .. k
      OBVIOUS
    <3> QED
      BY <1>5, <1>10, <2>1, <3>1, <3>2
  <2>4. ASSUME NEW i \in 1 .. n PROVE Rest(s)[2 + i] = p[i]
    <3>1. PICK j \in 1 .. 2 + n : j = 2 + i
      <4>1. 2 + i \in 1 .. 2 + n
        OBVIOUS
      <4> QED
        BY <4>1
    <3>2. PICK l \in 1 .. k : l = j + 2 /\ l = 4 + i
      <4>1. j + 2 = 4 + i /\ 4 + i \in 1 .. k
        BY <3>1
      <4> QED
        BY <4>1
    <3> QED
      BY <1>5, <1>10, <2>1, <3>1, <3>2
  <2> QED
    BY <1>10, <2>2, <2>3, <2>4 DEF SpellsCovered
<1>13. Rest(s) = Covered(id, p)
  BY <1>12, SpelledIsCovered
<1>14. f.rx_checksum = Checksum(Rest(s))
  BY <1>1, <1>4 DEF FsmGood
<1>15. Completes(f, b)
  BY <1>1, <1>3, <1>9, <1>10, <1>11, <1>13, <1>14 DEF Completes
<1>16. Received(f) = PacketIn(u)
  BY <1>1, <1>4, <1>15, CompletesFrame
<1> QED
  BY <1>3, <1>7, <1>15, <1>16

\* Where c says what f becomes and has got after each byte.
Runs(c, f, s) ==
  /\ c[0] = [f |-> f, got |-> <<>>]
  /\ \A k \in 1 .. Len(s) : c[k] = FeedInto(c[k - 1], s[k])

\* Sending a sequence goes through such steps.
LEMMA GetsRuns ==
  ASSUME NEW f, NEW s \in Seq(Byte)
  PROVE  \E c : Runs(c, f, s) /\ Gets(f, s) = c[Len(s)].got
<1> DEFINE base == [f |-> f, got |-> <<>>]
<1>1. PICK c : Feeding!Sums(c, base, s, Len(s)) /\ Feeding!FoldLeft(FeedInto, base, s) = c[Len(s)]
  BY Feeding!FoldSteps
<1>2. Runs(c, f, s)
  BY <1>1 DEF Feeding!Sums, Runs
<1>3. Gets(f, s) = Feeding!FoldLeft(FeedInto, base, s).got
  BY GetsIsFold
<1> QED
  BY <1>1, <1>2, <1>3

\* A receiver between two frames gets the one that is sent.
LEMMA GetsFrame ==
  ASSUME NEW f, FsmGood(f), NEW frame \in Frames,
         \/ f.rx_state = "WAIT_HEADER1"
         \/ f.rx_state = "WAIT_HEADER2" /\ Header1 # Header2
  PROVE  Gets(f, frame) = <<PacketIn(frame)>>
<1>1. PICK n \in Nat : Framed(frame, n)
  BY FrameHasPayload
<1>2. n \in 1 .. BufferSize /\ frame \in Seq(Byte) /\ Len(frame) = 5 + n
  BY <1>1 DEF Framed
<1>3. PICK c : Runs(c, f, frame) /\ Gets(f, frame) = c[Len(frame)].got
  BY <1>2, GetsRuns
<1> DEFINE Good(k) == Reading(c[k].f, frame, n, k) /\ c[k].got = <<>>
           Bad == {k \in 1 .. 4 + n : ~ Good(k)}
<1>4. ASSUME NEW k \in 0 .. 4 + n, NEW m \in Nat, m = k + 1
      PROVE  /\ c[m].f = Fed(c[k].f, frame[m])
             /\ c[m].got = IF Completes(c[k].f, frame[m])
                           THEN Append(c[k].got, Received(c[k].f)) ELSE c[k].got
  <2>1. m \in 1 .. Len(frame) /\ m - 1 = k
    BY <1>2, <1>4
  <2>2. c[m] = FeedInto(c[k], frame[m])
    BY <1>3, <2>1 DEF Runs
  <2> QED
    BY <2>2 DEF FeedInto
<1>5. c[0].f = f /\ c[0].got = <<>>
  BY <1>3 DEF Runs
<1>6. Good(1)
  <2>1. 0 \in 0 .. 4 + n /\ 1 = 0 + 1
    OBVIOUS
  <2>2. ~ Completes(f, frame[1])
    BY DEF Completes
  <2>3. c[1].f = Fed(f, frame[1]) /\ c[1].got = <<>>
    BY <1>4, <1>5, <2>1, <2>2
  <2> QED
    BY <1>1, <2>3, ReadFirst
<1>7. ASSUME NEW k \in 1 .. 3 + n, NEW m \in Nat, m = k + 1, Good(k)
      PROVE  Good(m)
  <2>1. k \in 0 .. 4 + n
    OBVIOUS
  <2>2. ~ Completes(c[k].f, frame[m])
    <3>1. Stage(k, n) # "WAIT_CRC"
      BY DEF Stage
    <3> QED
      BY <1>7, <3>1 DEF Completes, Reading
  <2>3. c[m].f = Fed(c[k].f, frame[m]) /\ c[m].got = <<>>
    BY <1>4, <1>7, <2>1, <2>2
  <2> QED
    BY <1>1, <1>7, <2>3, ReadNext
<1> HIDE DEF Good
<1>8. Bad = {}
  <2>1. SUFFICES ASSUME Bad # {} PROVE FALSE
    OBVIOUS
  <2>2. Bad \subseteq Nat
    OBVIOUS
  <2>3. PICK x \in Bad : \A y \in Bad : x <= y
    BY <2>1, <2>2, Fold!Least
  <2>4. x \in 1 .. 4 + n /\ ~ Good(x) /\ x # 1
    BY <1>6, <2>3
  <2>5. PICK y \in 1 .. 3 + n : x = y + 1
    <3>1. x - 1 \in 1 .. 3 + n /\ x = (x - 1) + 1
      BY <2>4
    <3> QED
      BY <3>1
  <2>6. y \in 1 .. 4 + n /\ ~ (x <= y) /\ x \in Nat
    BY <2>5
  <2>7. Good(y)
    BY <2>3, <2>6
  <2> QED
    BY <1>7, <2>4, <2>5, <2>6, <2>7
<1>9. PICK k \in Nat, m \in Nat : k = 4 + n /\ m = k + 1
  OBVIOUS
<1>10. Good(k) /\ k \in 0 .. 4 + n /\ Len(frame) = m
  <2>1. k \in 1 .. 4 + n /\ k \in 0 .. 4 + n /\ m = 5 + n
    BY <1>9
  <2> QED
    BY <1>2, <1>8, <2>1
<1>11. Reading(c[k].f, frame, n, k) /\ c[k].got = <<>>
  BY <1>10 DEF Good
<1>12. Completes(c[k].f, frame[m]) /\ Received(c[k].f) = PacketIn(frame)
  BY <1>1, <1>9, <1>11, ReadLast
<1>13. c[m].got = Append(<<>>, PacketIn(frame))
  <2>1. /\ c[m].got = IF Completes(c[k].f, frame[m])
                      THEN Append(c[k].got, Received(c[k].f)) ELSE c[k].got
    BY <1>4, <1>9, <1>10
  <2> QED
    BY <1>11, <1>12, <2>1
<1>14. Append(<<>>, PacketIn(frame)) = <<PacketIn(frame)>>
  OBVIOUS
<1> QED
  BY <1>3, <1>10, <1>13, <1>14

\* Between two frames, and with a first header byte pending that is not the
\* second one, the next frame is decoded, once: DecodesFrames in every
\* behaviour.
THEOREM DecodesEveryFrame == Spec => []DecodesFrames
<1>1. Sound => DecodesFrames
  BY GetsFrame DEF Sound, DecodesFrames
<1> QED
  BY <1>1, SoundAtFirst, SoundStep, PTL DEF Spec

-----------------------------------------------------------------------------
(* A frame that is sent again and again.                                   *)

\* Copy q starts after off[q] bytes.
Offsets(off, l, n) ==
  /\ off \in [0 .. n + 1 -> Nat]
  /\ off[0] = 0
  /\ \A q \in 0 .. n : off[q + 1] = off[q] + l

Copies(u, s, off, n) ==
  /\ u \in Seq(Byte)
  /\ Len(u) = off[n + 1]
  /\ \A q \in 0 .. n, i \in 1 .. Len(s) : u[off[q] + i] = s[i]

\* Multiples of a number.
LEMMA Multiples ==
  ASSUME NEW q \in Nat, NEW l \in Nat
  PROVE  q * l \in Nat /\ 0 * l = 0 /\ (q + 1) * l = q * l + l
  OBVIOUS

\* Each copy after the one before it.
LEMMA OffsetsGrow ==
  ASSUME NEW l \in Nat, NEW n \in Nat, NEW off, Offsets(off, l, n),
         NEW q \in 0 .. n
  PROVE  \A k \in q + 1 .. n + 1 : off[q] + l <= off[k]
<1> DEFINE T == {k \in q + 1 .. n + 1 : off[q] + l <= off[k]}
<1>1. off[q] \in Nat /\ off[q + 1] = off[q] + l /\ q + 1 \in q + 1 .. n + 1
  BY DEF Offsets
<1>2. q + 1 \in T
  BY <1>1
<1>3. ASSUME NEW k \in q + 1 .. (n + 1) - 1, k \in T PROVE k + 1 \in T
  <2>1. k \in 0 .. n /\ k \in 0 .. n + 1 /\ k + 1 \in q + 1 .. n + 1
    OBVIOUS
  <2>2. off[k + 1] = off[k] + l /\ off[k] \in Nat
    BY <2>1 DEF Offsets
  <2>3. off[q] + l <= off[k]
    BY <1>3
  <2>4. off[q] + l <= off[k + 1]
    BY <1>1, <2>2, <2>3
  <2> QED
    BY <2>1, <2>4
<1> HIDE DEF T
<1>4. q + 1 \in Nat /\ n + 1 \in Nat
  OBVIOUS
<1>5. \A k \in q + 1 .. n + 1 : k \in T
  BY <1>2, <1>3, <1>4, Fold!Climbs
<1> QED
  BY <1>5 DEF T

\* Repeat repeats.
LEMMA RepeatCopies ==
  ASSUME NEW s \in Seq(Byte), NEW n \in Nat
  PROVE  \E off : /\ off = [q \in 0 .. n + 1 |-> q * Len(s)]
                  /\ Offsets(off, Len(s), n)
                  /\ Copies(Repeat(s, n + 1), s, off, n)
<1>l. PICK l \in Nat : l = Len(s)
  BY LenProperties
<1>o. PICK off : off = [q \in 0 .. n + 1 |-> q * l]
  OBVIOUS
<1>1. PICK m \in Nat : m = n + 1
  OBVIOUS
<1>2. PICK t : t = [i \in 1 .. m |-> s]
  OBVIOUS
<1>3. /\ t \in Seq(Seq(Byte)) /\ Len(t) = m /\ t # <<>> /\ m >= 1
      /\ \A i \in 1 .. m : t[i] = s
  <2>1. t \in [1 .. m -> Seq(Byte)]
    BY <1>2
  <2>2. t \in Seq(Seq(Byte)) /\ Len(t) = m
    BY <2>1
  <2> QED
    BY <1>1, <1>2, <2>2, EmptySeq
<1>4. PICK f \in [1 .. m -> Seq(Byte)] : FlatTo(f, t, m) /\ FlattenSeq(t) = f[m]
  BY <1>3, FlattenPicks
<1>5. Repeat(s, n + 1) = f[m]
  BY <1>1, <1>2, <1>4 DEF Repeat
<1>6. Offsets(off, l, n)
  <2>1. ASSUME NEW q \in 0 .. n + 1 PROVE off[q] = q * l /\ off[q] \in Nat
    BY <1>o, Multiples
  <2>2. off[0] = 0
    BY <1>o, Multiples
  <2>3. ASSUME NEW q \in 0 .. n PROVE off[q + 1] = off[q] + l
    <3>1. q \in 0 .. n + 1 /\ q + 1 \in 0 .. n + 1 /\ q \in Nat
      OBVIOUS
    <3> QED
      BY <2>1, <3>1, Multiples
  <2>4. off \in [0 .. n + 1 -> Nat]
    BY <1>o, <2>1
  <2> QED
    BY <2>2, <2>3, <2>4 DEF Offsets
<1> DEFINE Copied(j) ==
             /\ Len(f[j]) = off[j]
             /\ \A q \in 0 .. j - 1, i \in 1 .. l : f[j][off[q] + i] = s[i]
           T == {j \in 1 .. m : Copied(j)}
<1>7. off[0] = 0 /\ off[1] = l
  <2>1. 0 \in 0 .. n /\ 0 + 1 = 1
    OBVIOUS
  <2> QED
    BY <1>6, <2>1 DEF Offsets
<1>8. 1 \in T
  <2>1. 1 \in 1 .. m
    BY <1>3
  <2>2. f[1] = s
    BY <1>3, <1>4, <2>1 DEF FlatTo
  <2>3. \A q \in 0 .. 1 - 1, i \in 1 .. l : q = 0 /\ off[q] + i = i
    BY <1>7
  <2>4. \A q \in 0 .. 1 - 1, i \in 1 .. l : f[1][off[q] + i] = s[i]
    BY <2>2, <2>3
  <2>5. Copied(1)
    BY <1>l, <1>7, <2>2, <2>4
  <2> HIDE DEF Copied
  <2> QED
    BY <2>1, <2>5
<1>9. ASSUME NEW j \in 1 .. m - 1, j \in T PROVE j + 1 \in T
  <2>1. PICK k \in 1 .. m : k = j + 1
    <3>1. j + 1 \in 1 .. m
      OBVIOUS
    <3> QED
      BY <3>1
  <2>2. j \in 1 .. m /\ k # 1 /\ k - 1 = j
    BY <2>1
  <2>3. f[k] = f[j] \o s
    BY <1>3, <1>4, <2>1, <2>2 DEF FlatTo
  <2>4. PICK u, v : u = f[j] /\ v = f[k]
    OBVIOUS
  <2>5. u \in Seq(Byte) /\ Len(u) = off[j] /\ off[j] \in Nat
    <3>1. j \in 0 .. n + 1
      BY <1>1, <2>2
    <3> QED
      BY <1>6, <1>9, <2>2, <2>4, <3>1 DEF Offsets
  <2>6. /\ Len(v) = off[j] + l
        /\ \A i \in 1 .. off[j] + l : v[i] = IF i <= off[j] THEN u[i] ELSE s[i - off[j]]
    <3>1. v = u \o s
      BY <2>3, <2>4
    <3>2. PICK d \in Nat : d = off[j]
      BY <2>5
    <3>3. Len(u) = d
      BY <2>5, <3>2
    <3>4. /\ Len(u \o s) = d + l
          /\ \A i \in 1 .. d + l : (u \o s)[i] = IF i <= d THEN u[i] ELSE s[i - d]
      BY <1>l, <2>5, <3>3, ConcatProperties
    <3> QED
      BY <3>1, <3>2, <3>4
  <2>7. off[k] = off[j] + l
    <3>1. j \in 0 .. n
      BY <1>1, <2>2
    <3> QED
      BY <1>6, <2>1, <3>1 DEF Offsets
  <2>8. ASSUME NEW q \in 0 .. k - 1, NEW i \in 1 .. l PROVE v[off[q] + i] = s[i]
    <3>1. PICK e \in Nat : e = off[q]
      <4>1. q \in 0 .. n + 1
        BY <1>1, <2>1
      <4> QED
        BY <1>6, <4>1 DEF Offsets
    <3>2. PICK x \in Nat : x = e + i
      OBVIOUS
    <3>3. CASE q = j
      <4>1. x \in 1 .. off[j] + l /\ ~ (x <= off[j]) /\ x - off[j] = i
        BY <2>5, <3>1, <3>2, <3>3
      <4> QED
        BY <2>6, <3>1, <3>2, <4>1
    <3>4. CASE q # j
      <4>1. q \in 0 .. j - 1 /\ q \in 0 .. n /\ j \in q + 1 .. n + 1
        BY <1>1, <2>1, <2>2, <3>4
      <4>2. off[q] + l <= off[j]
        BY <1>6, <4>1, OffsetsGrow
      <4>3. x \in 1 .. off[j] + l /\ x <= off[j]
        <5>1. PICK d \in Nat : d = off[j]
          BY <2>5
        <5>2. e + l <= d
          BY <3>1, <4>2, <5>1
        <5>3. x \in 1 .. d + l /\ x <= d
          BY <3>2, <5>2
        <5> QED
          BY <5>1, <5>3
      <4>4. u[off[q] + i] = s[i]
        BY <1>9, <2>4, <4>1
      <4> QED
        BY <2>6, <3>1, <3>2, <4>3, <4>4
    <3> QED
      BY <3>3, <3>4
  <2>9. Copied(k)
    BY <2>4, <2>6, <2>7, <2>8
  <2> HIDE DEF Copied
  <2> QED
    BY <2>1, <2>9
<1>10. m \in T
  <2> HIDE DEF T
  <2>1. m \in 1 .. m /\ 1 \in Nat
    BY <1>3
  <2>2. \A j \in 1 .. m : j \in T
    BY <1>8, <1>9, <2>1, Fold!Climbs
  <2> QED
    BY <2>1, <2>2
<1>11. Len(f[m]) = off[n + 1] /\ \A q \in 0 .. n, i \in 1 .. l : f[m][off[q] + i] = s[i]
  <2>1. m - 1 = n
    BY <1>1
  <2> QED
    BY <1>1, <1>10, <2>1
<1>12. f[m] \in Seq(Byte)
  <2>1. m \in 1 .. m
    BY <1>3
  <2> QED
    BY <2>1
<1>13. Copies(f[m], s, off, n)
  BY <1>l, <1>11, <1>12 DEF Copies
<1> QED
  BY <1>l, <1>o, <1>5, <1>6, <1>13

Searching(f) == f.rx_state \in {"WAIT_HEADER1", "WAIT_HEADER2"}

\* How many bytes at most until f searches for a header.
Left(f) ==
  CASE Searching(f)             -> 0
    [] f.rx_state = "WAIT_ID"   -> BufferSize + 3
    [] f.rx_state = "WAIT_LEN"  -> BufferSize + 2
    [] f.rx_state = "WAIT_DATA" -> f.rx_data_len - f.rx_cnt + 1
    [] OTHER                    -> 1

\* The bound.
LEMMA LeftIs ==
  ASSUME NEW f, FsmGood(f)
  PROVE  /\ BufferSize \in Nat /\ Left(f) \in 0 .. BufferSize + 3
         /\ Left(f) = 0 => Searching(f)
<1>1. BufferSize \in Nat
  BY ByteAssumption, PayloadAssumption DEF BufferSize, Byte
<1>2. f \in Fsm /\ f.rx_state \in States
  BY DEF FsmGood, FsmInv, Fsm
<1>3. CASE f.rx_state = "WAIT_DATA"
  <2>1. f.rx_cnt \in Nat /\ f.rx_data_len \in Nat
    BY <1>2, ByteAssumption DEF Fsm, Byte
  <2>2. f.rx_cnt < f.rx_data_len /\ f.rx_data_len <= BufferSize
    BY <1>3 DEF FsmGood, FsmInv
  <2>3. Left(f) = f.rx_data_len - f.rx_cnt + 1
    BY <1>3 DEF Left, Searching
  <2> QED
    BY <1>1, <2>1, <2>2, <2>3
<1>4. CASE f.rx_state # "WAIT_DATA"
  <2>1. /\ Left(f) \in {0, 1, BufferSize + 2, BufferSize + 3}
        /\ Left(f) = 0 => Searching(f) \/ BufferSize + 2 = 0 \/ BufferSize + 3 = 0
    BY <1>2, <1>4 DEF Left, Searching, States
  <2> QED
    BY <1>1, <2>1
<1> QED
  BY <1>1, <1>3, <1>4

\* Every byte brings the end of a candidate nearer.
LEMMA LeftFalls ==
  ASSUME NEW f, FsmGood(f), NEW b \in Byte, ~ Searching(f)
  PROVE  Left(Fed(f, b)) < Left(f)
<1>1. PICK g : g = Fed(f, b)
  OBVIOUS
<1>2. BufferSize \in Nat /\ b \in Nat
  BY ByteAssumption, PayloadAssumption DEF BufferSize, Byte
<1>3. f \in Fsm /\ f.rx_state \in States /\ f.rx_cnt \in Nat /\ f.rx_data_len \in Nat
  BY ByteAssumption DEF FsmGood, FsmInv, Fsm, Byte
<1>4. CASE f.rx_state = "WAIT_ID"
  <2>1. g = WaitId(f, b)
    BY <1>1, <1>4 DEF Fed
  <2>2. g.rx_state = "WAIT_LEN"
    BY <1>3, <2>1 DEF WaitId, Fsm
  <2>3. Left(f) = BufferSize + 3 /\ Left(g) = BufferSize + 2
    BY <1>4, <2>2 DEF Left, Searching
  <2> QED
    BY <1>1, <1>2, <2>3
<1>5. CASE f.rx_state = "WAIT_LEN"
  <2>1. g = WaitLen(f, b)
    BY <1>1, <1>5 DEF Fed
  <2>2. Left(f) = BufferSize + 2
    BY <1>5 DEF Left, Searching
  <2>3. CASE b > BufferSize
    <3>1. Searching(g)
      BY <1>3, <2>1, <2>3 DEF WaitLen, WaitHeader1, Searching, Fsm
    <3>2. Left(g) = 0
      BY <3>1 DEF Left, Searching
    <3> QED
      BY <1>1, <1>2, <2>2, <3>2
  <2>4. CASE ~ (b > BufferSize)
    <3>1. /\ g.rx_state = IF b > 0 THEN "WAIT_DATA" ELSE "WAIT_CRC"
          /\ g.rx_cnt = 0 /\ g.rx_data_len = b
      BY <1>3, <2>1, <2>4 DEF WaitLen, Fsm
    <3>2. Left(g) = IF b > 0 THEN b - 0 + 1 ELSE 1
      BY <3>1 DEF Left, Searching
    <3> QED
      BY <1>1, <1>2, <2>2, <2>4, <3>2
  <2> QED
    BY <2>3, <2>4
<1>6. CASE f.rx_state = "WAIT_DATA"
  <2>1. g = WaitData(f, b)
    BY <1>1, <1>6 DEF Fed
  <2>2. Left(f) = f.rx_data_len - f.rx_cnt + 1
    BY <1>6 DEF Left, Searching
  <2>3. f.rx_cnt < f.rx_data_len
    BY <1>6 DEF FsmGood, FsmInv
  <2>4. /\ g.rx_state \in {"WAIT_DATA", "WAIT_CRC"}
        /\ g.rx_cnt = f.rx_cnt + 1 /\ g.rx_data_len = f.rx_data_len
    BY <1>3, <1>6, <2>1 DEF WaitData, Fsm
  <2>5. Left(g) \in {1, f.rx_data_len - (f.rx_cnt + 1) + 1}
    BY <2>4 DEF Left, Searching
  <2> QED
    BY <1>1, <1>3, <2>2, <2>3, <2>5
<1>7. CASE f.rx_state = "WAIT_CRC"
  <2>1. g = WaitCrc(f)
    BY <1>1, <1>7 DEF Fed
  <2>2. g.rx_state = "WAIT_HEADER1"
    BY <1>3, <2>1 DEF WaitCrc, Fsm
  <2>3. Left(f) = 1 /\ Left(g) = 0
    BY <1>7, <2>2 DEF Left, Searching
  <2> QED
    BY <1>1, <2>3
<1> QED
  BY <1>3, <1>4, <1>5, <1>6, <1>7 DEF States, Searching

\* A search ends only with the second header byte after the first.
LEMMA SearchStays ==
  ASSUME NEW f \in Fsm, NEW b \in Byte, Searching(f),
         ~ (f.rx_state = "WAIT_HEADER2" /\ b = Header2)
  PROVE  Searching(Fed(f, b))
<1>1. CASE f.rx_state = "WAIT_HEADER1"
  <2>1. Fed(f, b) = WaitHeader1(f, b)
    BY <1>1 DEF Fed
  <2> QED
    BY <2>1 DEF WaitHeader1, Searching, Fsm
<1>2. CASE f.rx_state = "WAIT_HEADER2"
  <2>1. Fed(f, b) = WaitHeader2(f, b) /\ b # Header2
    BY <1>2 DEF Fed
  <2> QED
    BY <2>1 DEF WaitHeader2, Searching, Fsm
<1> QED
  BY <1>1, <1>2 DEF Searching

\* Only the first header byte leaves one pending.
LEMMA PendingIsFirst ==
  ASSUME NEW f \in Fsm, NEW b \in Byte, Fed(f, b).rx_state = "WAIT_HEADER2"
  PROVE  b = Header1
<1>1. f.rx_state \in States
  BY DEF Fsm
<1>2. CASE f.rx_state = "WAIT_HEADER1"
  <2>1. Fed(f, b) = WaitHeader1(f, b)
    BY <1>2 DEF Fed
  <2> QED
    BY <2>1 DEF WaitHeader1, Fsm
<1>3. CASE f.rx_state = "WAIT_HEADER2"
  <2>1. Fed(f, b) = WaitHeader2(f, b)
    BY <1>3 DEF Fed
  <2> QED
    BY <2>1 DEF WaitHeader2, Fsm
<1>4. CASE f.rx_state = "WAIT_ID"
  <2>1. Fed(f, b) = WaitId(f, b)
    BY <1>4 DEF Fed
  <2> QED
    BY <2>1 DEF WaitId, Fsm
<1>5. CASE f.rx_state = "WAIT_LEN"
  <2>1. Fed(f, b) = WaitLen(f, b)
    BY <1>5 DEF Fed
  <2> QED
    BY <2>1 DEF WaitLen, WaitHeader1, Fsm
<1>6. CASE f.rx_state = "WAIT_DATA"
  <2>1. Fed(f, b) = WaitData(f, b)
    BY <1>6 DEF Fed
  <2> QED
    BY <1>6, <2>1 DEF WaitData, Fsm
<1>7. CASE f.rx_state = "WAIT_CRC"
  <2>1. Fed(f, b) = WaitCrc(f)
    BY <1>7 DEF Fed
  <2> QED
    BY <2>1 DEF WaitCrc, Fsm
<1> QED
  BY <1>1, <1>2, <1>3, <1>4, <1>5, <1>6, <1>7 DEF States

\* A first header byte pending is the first byte of a frame.
LEMMA PendingReads ==
  ASSUME NEW f, FsmGood(f), f.rx_state = "WAIT_HEADER2",
         NEW frame, NEW n \in Nat, Framed(frame, n)
  PROVE  Reading(f, frame, n, 1)
<1>1. f \in Fsm /\ frame[1] = Header1
  BY DEF FsmGood, FsmInv, Framed
<1>2. Size(f) = 1 /\ Place(f, 1) = Header1 /\ 1 \in 1 .. 1
  BY DEF Size, Place
<1>3. Len(Believed(f)) = 1 /\ Believed(f)[1] = Header1
  BY <1>1, <1>2, BelievedIs
<1>4. \A i \in 1 .. 1 : Believed(f)[i] = frame[i]
  BY <1>1, <1>3
<1> QED
  BY <1>3, <1>4 DEF Reading, Stage

Packet == [id : Byte, payload : Seq(Byte)]

\* Along a run the state stays good, and what has been got is not lost.
LEMMA RunStep ==
  ASSUME NEW f, FsmGood(f), NEW u \in Seq(Byte), NEW c, Runs(c, f, u),
         NEW k \in Nat, NEW m \in Nat, Follows(m, k), m <= Len(u)
  PROVE  /\ u[m] \in Byte
         /\ c[m].f = Fed(c[k].f, u[m])
         /\ c[m].got = IF Completes(c[k].f, u[m])
                       THEN Append(c[k].got, Received(c[k].f)) ELSE c[k].got
<1>1. m \in 1 .. Len(u) /\ m - 1 = k
  BY LenProperties DEF Follows
<1>2. c[m] = FeedInto(c[k], u[m])
  BY <1>1 DEF Runs
<1> QED
  BY <1>1, <1>2, ElementOfSeq DEF FeedInto

\* In every state of a run.
LEMMA RunGood ==
  ASSUME NEW f, FsmGood(f), NEW u \in Seq(Byte), NEW c, Runs(c, f, u)
  PROVE  \A k \in 0 .. Len(u) : FsmGood(c[k].f) /\ c[k].got \in Seq(Packet)
<1>1. PICK e \in Nat : e = Len(u)
  BY LenProperties
<1> DEFINE Good(k) == FsmGood(c[k].f) /\ c[k].got \in Seq(Packet)
           T == {k \in 0 .. e : Good(k)}
<1>2. 0 \in T
  <2>1. c[0].f = f /\ c[0].got = <<>>
    BY DEF Runs
  <2>2. 0 \in 0 .. e
    OBVIOUS
  <2>3. <<>> \in Seq(Packet)
    BY EmptySeq
  <2>4. Good(0)
    BY <2>1, <2>3
  <2> HIDE DEF Good
  <2> QED
    BY <2>2, <2>4
<1>3. ASSUME NEW k \in 0 .. e - 1, k \in T PROVE k + 1 \in T
  <2>1. PICK m \in 0 .. e : m = k + 1
    <3>1. k + 1 \in 0 .. e
      OBVIOUS
    <3> QED
      BY <3>1
  <2>2. Follows(m, k) /\ m <= Len(u) /\ k \in Nat /\ m \in Nat
    BY <1>1, <2>1 DEF Follows
  <2>3. /\ u[m] \in Byte
        /\ c[m].f = Fed(c[k].f, u[m])
        /\ c[m].got = IF Completes(c[k].f, u[m])
                      THEN Append(c[k].got, Received(c[k].f)) ELSE c[k].got
    BY <2>2, RunStep
  <2>4. Good(k)
    BY <1>3
  <2>5. FsmGood(c[m].f)
    BY <2>3, <2>4, FedGood
  <2>6. c[m].got \in Seq(Packet)
    <3>1. CASE Completes(c[k].f, u[m])
      <4>1. PICK r : r = Received(c[k].f)
        OBVIOUS
      <4>2. r.payload \in Seq(Byte) /\ r.id \in Byte
        BY <2>3, <2>4, <3>1, <4>1, CompletesFrame
      <4>3. r = [id |-> r.id, payload |-> r.payload]
        BY <4>1 DEF Received
      <4>4. r \in Packet
        BY <4>2, <4>3 DEF Packet
      <4> QED
        BY <2>3, <2>4, <3>1, <4>1, <4>4, AppendProperties
    <3>2. CASE ~ Completes(c[k].f, u[m])
      BY <2>3, <2>4, <3>2
    <3> QED
      BY <3>1, <3>2
  <2> HIDE DEF Good
  <2>7. Good(m)
    BY <2>5, <2>6 DEF Good
  <2> QED
    BY <2>1, <2>7
<1> HIDE DEF T
<1>4. \A k \in 0 .. e : k \in T
  <2>1. 0 \in Nat
    OBVIOUS
  <2> QED
    BY <1>2, <1>3, <2>1, Fold!Climbs
<1> QED
  BY <1>1, <1>4 DEF T

\* Within the longest frame, but for its headers, of any state the receiver
\* searches for a header.
LEMMA RunSearches ==
  ASSUME NEW f, FsmGood(f), NEW u \in Seq(Byte), NEW c, Runs(c, f, u),
         BufferSize + 3 <= Len(u)
  PROVE  \E p \in 0 .. BufferSize + 3 : Searching(c[p].f)
<1>1. SUFFICES ASSUME \A p \in 0 .. BufferSize + 3 : ~ Searching(c[p].f)
               PROVE  FALSE
  OBVIOUS
<1>2. PICK e \in Nat : e = BufferSize + 3
  BY ByteAssumption, PayloadAssumption DEF BufferSize, Byte
<1>3. PICK l \in Nat : l = Len(u) /\ e <= l
  BY <1>2, LenProperties
<1>4. ASSUME NEW k \in 0 .. e
      PROVE  /\ FsmGood(c[k].f) /\ ~ Searching(c[k].f)
             /\ Left(c[k].f) \in 0 .. e /\ (Left(c[k].f) = 0 => Searching(c[k].f))
  <2>1. k \in 0 .. l
    BY <1>3
  <2>2. FsmGood(c[k].f)
    BY <1>3, <2>1, RunGood
  <2> QED
    BY <1>1, <1>2, <2>2, LeftIs
<1> DEFINE T == {k \in 0 .. e : Left(c[k].f) <= e - k}
<1>5. 0 \in T
  <2>1. 0 \in 0 .. e
    OBVIOUS
  <2>2. Left(c[0].f) \in 0 .. e
    BY <1>4, <2>1
  <2>3. Left(c[0].f) <= e - 0
    BY <2>2
  <2> QED
    BY <2>1, <2>3
<1>6. ASSUME NEW k \in 0 .. e - 1, k \in T PROVE k + 1 \in T
  <2>1. PICK m \in 0 .. e : m = k + 1 /\ k \in 0 .. e
    <3>1. k + 1 \in 0 .. e /\ k \in 0 .. e
      OBVIOUS
    <3> QED
      BY <3>1
  <2>2. Follows(m, k) /\ m <= Len(u) /\ k \in Nat /\ m \in Nat
    BY <1>3, <2>1 DEF Follows
  <2>3. u[m] \in Byte /\ c[m].f = Fed(c[k].f, u[m])
    BY <2>2, RunStep
  <2>4. FsmGood(c[k].f) /\ ~ Searching(c[k].f)
    BY <1>4, <2>1
  <2>5. Left(c[m].f) < Left(c[k].f)
    BY <2>3, <2>4, LeftFalls
  <2>6. PICK x \in 0 .. e : x = Left(c[k].f)
    BY <1>4, <2>1
  <2>7. PICK y \in 0 .. e : y = Left(c[m].f)
    BY <1>4, <2>1
  <2>8. x <= e - k
    BY <1>6, <2>6
  <2>9. y <= e - m
    BY <2>1, <2>5, <2>6, <2>7, <2>8
  <2>10. m \in T
    BY <2>7, <2>9
  <2> QED
    BY <2>1, <2>10
<1> HIDE DEF T
<1>7. e \in T
  <2>1. 0 \in Nat /\ e \in 0 .. e
    OBVIOUS
  <2>2. \A k \in 0 .. e : k \in T
    BY <1>5, <1>6, <2>1, Fold!Climbs
  <2> QED
    BY <2>1, <2>2
<1>8. e \in 0 .. e /\ Left(c[e].f) <= e - e
  BY <1>7 DEF T
<1>9. PICK x \in 0 .. e : x = Left(c[e].f)
  BY <1>4, <1>8
<1>10. x = 0
  BY <1>8, <1>9
<1> QED
  BY <1>4, <1>8, <1>9, <1>10

\* A byte of a run that lies in a copy of a frame.
InCopy(u, off, frame, l, n) ==
  /\ Offsets(off, l, n) /\ Copies(u, frame, off, n)
  /\ l = Len(frame) /\ l \in Nat

\* Its place.
LEMMA CopyPlace ==
  ASSUME NEW u, NEW off, NEW frame, NEW l, NEW n \in Nat,
         InCopy(u, off, frame, l, n), NEW q \in 0 .. n
  PROVE  /\ u \in Seq(Byte) /\ off[q] \in Nat /\ Len(u) \in Nat
         /\ off[q + 1] = off[q] + l /\ off[q] + l <= Len(u)
         /\ \A i \in 1 .. l : u[off[q] + i] = frame[i]
<1>1. q + 1 \in q + 1 .. n + 1 /\ n + 1 \in q + 1 .. n + 1 /\ q \in 0 .. n + 1
  OBVIOUS
<1>2. off[q] + l <= off[n + 1]
  BY <1>1, OffsetsGrow DEF InCopy
<1> QED
  BY <1>1, <1>2, LenProperties DEF InCopy, Offsets, Copies

\* From a search within a copy, nothing of it is taken for a header: the search
\* goes on to its end.
LEMMA SearchCrosses ==
  ASSUME NEW f, FsmGood(f), NEW u, NEW c, Runs(c, f, u),
         NEW off, NEW frame, NEW l, NEW n \in Nat, InCopy(u, off, frame, l, n),
         Header1 # Header2, Clean(frame),
         NEW q \in 0 .. n, NEW r \in 1 .. l,
         Searching(c[off[q] + r].f),
         r = 1 => c[off[q] + r].f.rx_state # "WAIT_HEADER2"
  PROVE  Searching(c[off[q + 1]].f)
<1>1. PICK o \in Nat : o = off[q]
  BY CopyPlace
<1>2. /\ u \in Seq(Byte) /\ off[q + 1] = o + l /\ o + l <= Len(u) /\ Len(u) \in Nat
      /\ \A i \in 1 .. l : u[o + i] = frame[i]
      /\ l \in Nat /\ l = Len(frame)
  BY <1>1, CopyPlace DEF InCopy
<1> DEFINE T == {k \in r .. l : /\ Searching(c[o + k].f)
                                /\ k = 1 => c[o + k].f.rx_state # "WAIT_HEADER2"}
<1>3. r \in T
  BY <1>1
<1>4. ASSUME NEW k \in r .. l - 1, k \in T PROVE k + 1 \in T
  <2>1. PICK m \in r .. l : m = k + 1
    <3>1. k + 1 \in r .. l
      BY <1>2
    <3> QED
      BY <3>1
  <2>2. PICK x \in Nat, y \in Nat : x = o + k /\ y = o + m
    BY <2>1
  <2>3. y = x + 1 /\ y <= Len(u) /\ x \in 0 .. Len(u) /\ m \in 1 .. l /\ k \in 1 .. l
    BY <1>2, <2>1, <2>2
  <2>4. Follows(y, x) /\ x \in Nat /\ y \in Nat
    BY <2>3 DEF Follows
  <2>5. u[y] \in Byte /\ c[y].f = Fed(c[x].f, u[y])
    BY <1>2, <2>3, <2>4, RunStep
  <2>6. FsmGood(c[x].f) /\ c[x].f \in Fsm
    BY <1>2, <2>3, RunGood DEF FsmGood, FsmInv
  <2>7. /\ Searching(c[x].f)
        /\ k = 1 => c[x].f.rx_state # "WAIT_HEADER2"
    BY <1>4, <2>2
  <2>8. u[y] = frame[m]
    BY <1>2, <2>2, <2>3
  <2>9. ~ (c[x].f.rx_state = "WAIT_HEADER2" /\ u[y] = Header2)
    <3>1. SUFFICES ASSUME c[x].f.rx_state = "WAIT_HEADER2", u[y] = Header2
                   PROVE  FALSE
      OBVIOUS
    <3>2. k # 1
      BY <2>7, <3>1
    <3>3. PICK w \in Nat : x = w + 1 /\ w \in 0 .. Len(u) /\ x <= Len(u)
      <4>1. x - 1 \in Nat /\ x = (x - 1) + 1 /\ x - 1 \in 0 .. Len(u) /\ x <= Len(u)
        BY <1>2, <2>2, <2>3
      <4> QED
        BY <4>1
    <3>4. Follows(x, w)
      BY <3>3 DEF Follows
    <3>5. u[x] \in Byte /\ c[x].f = Fed(c[w].f, u[x])
      BY <1>2, <3>3, <3>4, RunStep
    <3>6. c[w].f \in Fsm
      BY <1>2, <3>3, RunGood DEF FsmGood, FsmInv
    <3>7. u[x] = Header1
      BY <3>1, <3>5, <3>6, PendingIsFirst
    <3>8. u[x] = frame[k]
      BY <1>2, <2>2, <2>3
    <3>9. k \in 2 .. Len(frame) - 1 /\ frame[k] = Header1 /\ frame[k + 1] = Header2
      <4>1. k \in 2 .. l - 1
        BY <2>3, <3>2
      <4> QED
        BY <1>2, <2>1, <2>8, <3>1, <3>7, <3>8, <4>1
    <3> QED
      BY <3>9 DEF Clean
  <2>10. Searching(c[y].f)
    BY <2>5, <2>6, <2>7, <2>9, SearchStays
  <2>11. m # 1
    BY <2>1, <2>3
  <2> QED
    BY <2>1, <2>2, <2>10, <2>11
<1> HIDE DEF T
<1>5. l \in T
  <2>1. r \in Nat /\ l \in r .. l
    BY <1>2
  <2>2. \A k \in r .. l : k \in T
    BY <1>2, <1>3, <1>4, <2>1, Fold!Climbs
  <2> QED
    BY <2>1, <2>2
<1>6. Searching(c[o + l].f)
  BY <1>5 DEF T
<1> QED
  BY <1>2, <1>6

\* In some copy the receiver reads the first byte as such.
LEMMA RunAligns ==
  ASSUME NEW f, FsmGood(f), NEW u, NEW c, Runs(c, f, u),
         NEW off, NEW frame, NEW l, NEW n \in Nat, InCopy(u, off, frame, l, n),
         NEW e \in Nat, Framed(frame, e),
         Header1 # Header2, Clean(frame), BufferSize + 3 <= off[n]
  PROVE  \E q \in 0 .. n : Reading(c[off[q] + 1].f, frame, e, 1)
<1>1. /\ u \in Seq(Byte) /\ Len(u) \in Nat /\ l \in Nat /\ l = Len(frame) /\ l >= 6
      /\ BufferSize \in Nat
  <2>1. 0 \in 0 .. n
    OBVIOUS
  <2>2. e >= 1 /\ Len(frame) = 5 + e
    BY DEF Framed
  <2>3. BufferSize \in Nat
    BY ByteAssumption, PayloadAssumption DEF BufferSize, Byte
  <2> QED
    BY <2>1, <2>2, <2>3, CopyPlace DEF InCopy
<1>2. ASSUME NEW q \in 0 .. n, Searching(c[off[q]].f)
      PROVE  Reading(c[off[q] + 1].f, frame, e, 1)
  <2>1. PICK o \in Nat : o = off[q] /\ o + l <= Len(u) /\ u[o + 1] = frame[1]
    <3>1. 1 \in 1 .. l
      BY <1>1
    <3>2. /\ off[q] \in Nat /\ off[q] + l <= Len(u)
          /\ \A i \in 1 .. l : u[off[q] + i] = frame[i]
      BY CopyPlace
    <3> QED
      BY <3>1, <3>2
  <2>2. PICK m \in Nat : m = o + 1
    OBVIOUS
  <2>3. Follows(m, o) /\ m <= Len(u) /\ o \in 0 .. Len(u)
    BY <1>1, <2>1, <2>2 DEF Follows
  <2>4. c[m].f = Fed(c[o].f, u[m])
    BY <1>1, <2>3, RunStep
  <2>5. FsmGood(c[o].f)
    BY <1>1, <2>3, RunGood
  <2>6. Reading(Fed(c[o].f, frame[1]), frame, e, 1)
    BY <1>2, <2>1, <2>5, ReadFirst DEF Searching
  <2> QED
    BY <2>1, <2>2, <2>4, <2>6
<1>3. n \in 0 .. n /\ off[n] \in Nat /\ off[n] <= Len(u)
  <2>1. n \in 0 .. n
    OBVIOUS
  <2>2. off[n] \in Nat /\ off[n] + l <= Len(u)
    BY <2>1, CopyPlace
  <2> QED
    BY <1>1, <2>1, <2>2
<1>4. PICK p \in 0 .. BufferSize + 3 : Searching(c[p].f)
  <2>1. BufferSize + 3 <= Len(u)
    BY <1>1, <1>3
  <2> QED
    BY <1>1, <2>1, RunSearches
<1>5. p \in Nat /\ p <= off[n]
  BY <1>1, <1>3
<1> DEFINE A == {q \in 0 .. n : p <= off[q]}
<1>6. PICK q \in A : \A y \in A : q <= y
  <2>1. A \subseteq Nat /\ A # {}
    BY <1>3, <1>5
  <2> QED
    BY <2>1, Fold!Least
<1>7. q \in 0 .. n /\ p <= off[q]
  BY <1>6
<1>8. CASE q = 0
  <2>1. off[0] = 0
    BY DEF InCopy, Offsets
  <2>2. p = off[0]
    BY <1>5, <1>7, <1>8, <2>1
  <2> QED
    BY <1>2, <1>4, <1>7, <1>8, <2>2
<1>9. CASE q # 0
  <2>1. PICK d \in 0 .. n : q = d + 1 /\ ~ (q <= d)
    <3>1. q - 1 \in 0 .. n /\ q = (q - 1) + 1 /\ ~ (q <= q - 1)
      BY <1>7, <1>9
    <3> QED
      BY <3>1
  <2>2. ~ (p <= off[d])
    BY <1>6, <2>1
  <2>3. PICK o \in Nat : o = off[d] /\ off[q] = o + l /\ o + l <= Len(u)
    BY <2>1, CopyPlace
  <2>4. PICK r \in 1 .. l : p = o + r
    <3>1. p - o \in 1 .. l /\ p = o + (p - o)
      BY <1>1, <1>5, <1>7, <2>2, <2>3
    <3> QED
      BY <3>1
  <2>5. CASE r = 1 /\ c[p].f.rx_state = "WAIT_HEADER2"
    <3>1. p \in 0 .. Len(u)
      BY <1>1, <1>3, <1>5
    <3>2. FsmGood(c[p].f)
      BY <1>1, <3>1, RunGood
    <3>3. Reading(c[p].f, frame, e, 1)
      BY <2>5, <3>2, PendingReads
    <3> QED
      BY <2>3, <2>4, <2>5, <3>3
  <2>6. CASE ~ (r = 1 /\ c[p].f.rx_state = "WAIT_HEADER2")
    <3>1. /\ Searching(c[off[d] + r].f)
          /\ r = 1 => c[off[d] + r].f.rx_state # "WAIT_HEADER2"
      BY <1>4, <2>3, <2>4, <2>6
    <3>2. Searching(c[off[d + 1]].f)
      BY <3>1, SearchCrosses
    <3> QED
      BY <1>2, <1>7, <2>1, <3>2
  <2> QED
    BY <2>5, <2>6
<1> QED
  BY <1>8, <1>9

\* From there to the end of the copy.
LEMMA RunReads ==
  ASSUME NEW f, FsmGood(f), NEW u, NEW c, Runs(c, f, u),
         NEW off, NEW frame, NEW l, NEW n \in Nat, InCopy(u, off, frame, l, n),
         NEW e \in Nat, Framed(frame, e),
         NEW q \in 0 .. n, Reading(c[off[q] + 1].f, frame, e, 1)
  PROVE  /\ off[q] + l \in 0 .. Len(u)
         /\ PacketIn(frame) \in Range(c[off[q] + l].got)
<1>1. PICK o \in Nat : o = off[q]
  BY CopyPlace
<1>2. /\ u \in Seq(Byte) /\ o + l <= Len(u) /\ Len(u) \in Nat
      /\ \A i \in 1 .. l : u[o + i] = frame[i]
      /\ l = 5 + e
  <2>1. /\ u \in Seq(Byte) /\ off[q] + l <= Len(u) /\ Len(u) \in Nat
        /\ \A i \in 1 .. l : u[off[q] + i] = frame[i]
    BY CopyPlace
  <2>2. l = 5 + e
    BY DEF InCopy, Framed
  <2> QED
    BY <1>1, <2>1, <2>2
<1>3. ASSUME NEW k \in 0 .. 4 + e, NEW m \in Nat, m = k + 1,
             NEW x \in Nat, x = o + k, NEW y \in Nat, y = o + m
      PROVE  /\ c[y].f = Fed(c[x].f, frame[m])
             /\ c[y].got = IF Completes(c[x].f, frame[m])
                           THEN Append(c[x].got, Received(c[x].f)) ELSE c[x].got
  <2>1. m \in 1 .. l /\ y <= Len(u) /\ y = x + 1
    BY <1>2, <1>3
  <2>2. Follows(y, x)
    BY <2>1 DEF Follows
  <2>3. u[y] = frame[m]
    BY <1>2, <1>3, <2>1
  <2>4. /\ c[y].f = Fed(c[x].f, u[y])
        /\ c[y].got = IF Completes(c[x].f, u[y])
                      THEN Append(c[x].got, Received(c[x].f)) ELSE c[x].got
    BY <1>2, <2>1, <2>2, RunStep
  <2> QED
    BY <2>3, <2>4
<1> DEFINE T == {k \in 1 .. 4 + e : Reading(c[o + k].f, frame, e, k)}
<1>4. 1 \in T
  BY <1>1
<1>5. ASSUME NEW k \in 1 .. (4 + e) - 1, k \in T PROVE k + 1 \in T
  <2>1. PICK m \in 1 .. 4 + e : m = k + 1 /\ m \in Nat
    <3>1. k + 1 \in 1 .. 4 + e /\ k + 1 \in Nat
      OBVIOUS
    <3> QED
      BY <3>1
  <2>2. PICK x \in Nat, y \in Nat : x = o + k /\ y = o + m
    BY <2>1
  <2>3. k \in 0 .. 4 + e /\ k \in 1 .. 3 + e
    OBVIOUS
  <2>4. c[y].f = Fed(c[x].f, frame[m])
    BY <1>3, <2>1, <2>2, <2>3
  <2>5. Reading(c[x].f, frame, e, k)
    BY <1>5, <2>2
  <2>6. Reading(Fed(c[x].f, frame[m]), frame, e, m)
    BY <2>1, <2>3, <2>5, ReadNext
  <2> QED
    BY <2>1, <2>2, <2>4, <2>6
<1> HIDE DEF T
<1>6. 4 + e \in T
  <2>1. 1 \in Nat /\ 4 + e \in Nat /\ 4 + e \in 1 .. 4 + e
    OBVIOUS
  <2>2. \A k \in 1 .. 4 + e : k \in T
    BY <1>4, <1>5, <2>1, Fold!Climbs
  <2> QED
    BY <2>1, <2>2
<1>7. PICK k \in Nat, m \in Nat, x \in Nat, y \in Nat :
        k = 4 + e /\ m = k + 1 /\ x = o + k /\ y = o + m
  OBVIOUS
<1>8. Reading(c[x].f, frame, e, k)
  BY <1>6, <1>7 DEF T
<1>9. Completes(c[x].f, frame[m]) /\ Received(c[x].f) = PacketIn(frame)
  BY <1>7, <1>8, ReadLast
<1>10. c[y].got = Append(c[x].got, PacketIn(frame))
  <2>1. k \in 0 .. 4 + e
    BY <1>7
  <2>2. c[y].got = IF Completes(c[x].f, frame[m])
                   THEN Append(c[x].got, Received(c[x].f)) ELSE c[x].got
    BY <1>3, <1>7, <2>1
  <2> QED
    BY <1>9, <2>2
<1>11. y = o + l /\ x \in 0 .. Len(u) /\ y \in 0 .. Len(u)
  BY <1>2, <1>7
<1>12. PICK s : s = c[x].got /\ s \in Seq(Packet)
  BY <1>2, <1>11, RunGood
<1>13. PacketIn(frame) \in Range(Append(s, PacketIn(frame)))
  <2>1. PICK t : t = Append(s, PacketIn(frame))
    OBVIOUS
  <2>2. PICK w \in Nat : w = Len(s)
    BY <1>12, LenProperties
  <2>3. DOMAIN t = 1 .. w + 1 /\ t[w + 1] = PacketIn(frame) /\ w + 1 \in 1 .. w + 1
    BY <1>12, <2>1, <2>2
  <2> QED
    BY <2>1, <2>3 DEF Range
<1> QED
  BY <1>1, <1>10, <1>11, <1>12, <1>13

\* What has been got stays got.
LEMMA RunKeeps ==
  ASSUME NEW f, FsmGood(f), NEW u \in Seq(Byte), NEW c, Runs(c, f, u),
         NEW a \in 0 .. Len(u), NEW packet, packet \in Range(c[a].got)
  PROVE  packet \in Range(c[Len(u)].got)
<1>1. PICK e \in Nat : e = Len(u)
  BY LenProperties
<1> DEFINE T == {k \in a .. e : packet \in Range(c[k].got)}
<1>2. a \in T /\ a \in Nat
  BY <1>1
<1>3. ASSUME NEW k \in a .. e - 1, k \in T PROVE k + 1 \in T
  <2>1. PICK m \in a .. e : m = k + 1 /\ k \in 0 .. Len(u)
    <3>1. k + 1 \in a .. e /\ k \in 0 .. Len(u)
      BY <1>1
    <3> QED
      BY <3>1
  <2>2. Follows(m, k) /\ m <= Len(u) /\ k \in Nat /\ m \in Nat
    BY <1>1, <2>1 DEF Follows
  <2>3. c[m].got = IF Completes(c[k].f, u[m])
                   THEN Append(c[k].got, Received(c[k].f)) ELSE c[k].got
    BY <2>2, RunStep
  <2>4. PICK s : s = c[k].got /\ s \in Seq(Packet) /\ packet \in Range(s)
    BY <1>3, <2>1, RunGood
  <2>5. PICK r : r = Received(c[k].f)
    OBVIOUS
  <2>6. packet \in Range(Append(s, r))
    <3>0. PICK t : t = Append(s, r)
      OBVIOUS
    <3>1. PICK w \in Nat : t = Append(s, r) /\ w = Len(s)
      BY <2>4, <3>0, LenProperties
    <3>2. DOMAIN t = 1 .. w + 1 /\ DOMAIN s = 1 .. w /\ \A i \in 1 .. w : t[i] = s[i]
      BY <2>4, <3>1
    <3>3. PICK i \in 1 .. w : packet = s[i]
      BY <2>4, <3>2 DEF Range
    <3>4. i \in 1 .. w + 1 /\ packet = t[i]
      BY <3>2, <3>3
    <3> QED
      BY <3>1, <3>2, <3>4 DEF Range
  <2>7. packet \in Range(c[m].got)
    BY <2>3, <2>4, <2>5, <2>6
  <2> QED
    BY <2>1, <2>7
<1> HIDE DEF T
<1>4. e \in T
  <2>1. \A k \in a .. e : k \in T
    BY <1>2, <1>3, Fold!Climbs
  <2>2. e \in a .. e
    BY <1>1
  <2> QED
    BY <2>1, <2>2
<1> QED
  BY <1>1, <1>4 DEF T

\* As many copies as Swallowed says cover what a candidate may take.
LEMMA SwallowedCovers ==
  ASSUME NEW a \in Nat, NEW l \in Nat, l > 0
  PROVE  /\ (a + 3 + l - 1) \div l \in Nat
         /\ a + 3 <= ((a + 3 + l - 1) \div l) * l
<1>1. PICK x \in Nat : x = a + 3 + l - 1
  <2>1. a + 3 + l - 1 \in Nat
    OBVIOUS
  <2> QED
    BY <2>1
<1>2. x \div l \in Nat /\ x % l \in 0 .. l - 1 /\ x = l * (x \div l) + (x % l)
  OBVIOUS
<1>3. PICK d \in Nat, r \in 0 .. l - 1 : d = x \div l /\ r = x % l
  BY <1>2
<1>4. x = l * d + r
  BY <1>2, <1>3
<1>5. l * d = d * l
  OBVIOUS
<1>6. PICK y \in Nat : y = d * l
  OBVIOUS
<1>7. a + 3 <= y
  BY <1>1, <1>4, <1>5, <1>6
<1> QED
  BY <1>1, <1>3, <1>6, <1>7

\* A frame sent again and again is received, from whatever state.
LEMMA GetsRepeated ==
  ASSUME NEW f, FsmGood(f), NEW frame \in Frames, Clean(frame), Header1 # Header2
  PROVE  PacketIn(frame) \in Range(Gets(f, Repeat(frame, Swallowed(frame) + 1)))
<1>1. PICK e \in Nat : Framed(frame, e)
  BY FrameHasPayload
<1>2. PICK l \in Nat : l = Len(frame) /\ l > 0 /\ frame \in Seq(Byte)
  BY <1>1 DEF Framed
<1>3. PICK n \in Nat : n = Swallowed(frame) /\ MaxPayload + 3 <= n * l
  <2>1. MaxPayload \in Nat
    BY ByteAssumption, PayloadAssumption DEF Byte
  <2> QED
    BY <1>2, <2>1, SwallowedCovers DEF Swallowed
<1>4. PICK off : /\ off = [q \in 0 .. n + 1 |-> q * Len(frame)]
                 /\ Offsets(off, Len(frame), n)
                 /\ Copies(Repeat(frame, n + 1), frame, off, n)
  BY <1>2, RepeatCopies
<1>5. PICK u : u = Repeat(frame, n + 1)
  OBVIOUS
<1>6. InCopy(u, off, frame, l, n) /\ u \in Seq(Byte)
  BY <1>2, <1>4, <1>5 DEF InCopy, Copies
<1>7. BufferSize + 3 <= off[n]
  <2>1. n \in 0 .. n + 1
    OBVIOUS
  <2>2. off[n] = n * l
    BY <1>2, <1>4, <2>1
  <2> QED
    BY <1>3, <2>2 DEF BufferSize
<1>8. PICK c : Runs(c, f, u) /\ Gets(f, u) = c[Len(u)].got
  BY <1>6, GetsRuns
<1>9. PICK q \in 0 .. n : Reading(c[off[q] + 1].f, frame, e, 1)
  BY <1>1, <1>6, <1>7, <1>8, RunAligns
<1>10. /\ off[q] + l \in 0 .. Len(u)
       /\ PacketIn(frame) \in Range(c[off[q] + l].got)
  BY <1>1, <1>6, <1>8, <1>9, RunReads
<1>11. PacketIn(frame) \in Range(c[Len(u)].got)
  BY <1>6, <1>8, <1>10, RunKeeps
<1> QED
  BY <1>3, <1>5, <1>8, <1>11

\* Whatever truncated frame, noise or reconnection has left behind, a frame
\* that is sent again and again is received after at most Swallowed copies,
\* if no header appears within it: Recovers in every behaviour.
THEOREM AlwaysRecovers == Spec => []Recovers
<1>1. Sound => Recovers
  BY GetsRepeated DEF Sound, Recovers
<1> QED
  BY <1>1, SoundAtFirst, SoundStep, PTL DEF Spec
=============================================================================
