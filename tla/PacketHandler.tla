--------------------------- MODULE PacketHandler ---------------------------
(***************************************************************************)
(* PacketHandler and feed_data_with_recovery (packet_handler.hpp): what    *)
(* one read returns goes byte by byte into a ring, which is parsed when it *)
(* is full and at the end.  Each step of the two loops is an action; the   *)
(* whole of them runs on the strand without interruption.                  *)
(***************************************************************************)
EXTENDS WireFormat

CONSTANTS
  Capacities, \* capacity_ may be any of these powers of two
  Streams,    \* the byte streams that may arrive
  ReadSizes,  \* how many bytes one read may return; 1 .. 2048 in the code
  MaxResets   \* bound: how often the controller resets the handler

MaxFrame == MinPacketSize + MaxPayload

ASSUME CapacityAssumption == Capacities \subseteq Nat \ {0, 1}
ASSUME StreamAssumption ==
  Streams \subseteq Seq(Byte) /\ ReadSizes \subseteq Nat \ {0} /\ MaxResets \in Nat

VARIABLES
  capacity,     \* capacity_, one more than what the ring holds; never changes
  ring,         \* ring_buffer_
  head, tail,   \* head_, tail_
  chunk,        \* the rest of what the read returned
  mode,         \* where feed_data_with_recovery is
  drained_any,  \* its local of this name
  dropped,      \* bytes it counts as dropped
  todo,         \* the rest of the stream, yet to be read
  delivered,    \* history: packets handed to the consumer, as frames
  taken,        \* history: number of bytes read
  passed,       \* history: number of bytes passed over
  voided,       \* history: number of bytes that resets took from the ring
  resets        \* history: resets of the handler

ctlVars == <<chunk, mode, drained_any>>
countVars == <<dropped, delivered, passed, voided, resets>>
vars == <<capacity, ring, head, tail, ctlVars, todo, taken, countVars>>

Available == (head + capacity - tail) % capacity

Full == (head + 1) % capacity = tail

\* The byte at offset i from the tail.
At(i) == ring[(tail + i) % capacity]

Contents == [i \in 1 .. Available |-> At(i - 1)]

-----------------------------------------------------------------------------
(* What parse_packet sees at the tail.                                     *)

TotalLen == MinPacketSize + At(3)

HeaderMatches == At(0) = Header1 /\ At(1) = Header2

\* Mutant of SizeMatches: the length byte is trusted.
SizeMatchesAny == expected_payload_size[At(2)] # 0

SizeMatches ==
  /\ TotalLen <= capacity - 1
  /\ At(3) <= MaxPayload
  /\ expected_payload_size[At(2)] # 0
  /\ At(3) = expected_payload_size[At(2)]

ChecksumMatches ==
  HasChecksum =>
    Checksum([i \in 1 .. 2 + At(3) |-> At(1 + i)]) = At(TotalLen - 1)

CanLook  == Available >= MinPacketSize
Candidate == CanLook /\ HeaderMatches /\ SizeMatches
Arrived  == Available >= TotalLen

-----------------------------------------------------------------------------
Init ==
  /\ capacity \in Capacities
  /\ ring = [i \in 0 .. capacity - 1 |-> 0]
  /\ head = 0
  /\ tail = 0
  /\ chunk = <<>>
  /\ mode = "idle"
  /\ drained_any = FALSE
  /\ dropped = 0
  /\ todo \in Streams
  /\ delivered = <<>>
  /\ taken = 0
  /\ passed = 0
  /\ voided = 0
  /\ resets = 0

\* ingest_received_bytes with the next n bytes.
Read(n) ==
  /\ mode = "idle"
  /\ n <= Len(todo)
  /\ chunk' = SubSeq(todo, 1, n)
  /\ todo' = SubSeq(todo, n + 1, Len(todo))
  /\ taken' = taken + n
  /\ mode' = "push"
  /\ UNCHANGED <<capacity, ring, head, tail, drained_any, countVars>>

\* Mutant of Push: the index is not masked.
PushUnmasked ==
  /\ chunk # <<>> /\ ~Full
  /\ ring' = [ring EXCEPT ![head] = Head(chunk)]
  /\ head' = head + 1
  /\ chunk' = Tail(chunk)

\* try_push_byte when it succeeds.
Push ==
  /\ chunk # <<>> /\ ~Full
  /\ ring' = [ring EXCEPT ![head] = Head(chunk)]
  /\ head' = (head + 1) % capacity
  /\ chunk' = Tail(chunk)

PushByte ==
  /\ mode = "push"
  /\ Push
  /\ UNCHANGED <<capacity, tail, mode, drained_any, todo, taken, countVars>>

StartDrain ==
  /\ mode = "push"
  /\ chunk # <<>> /\ Full
  /\ mode' = "drain"
  /\ drained_any' = FALSE
  /\ UNCHANGED <<capacity, ring, head, tail, chunk, todo, taken, countVars>>

StartFinal ==
  /\ mode = "push"
  /\ chunk = <<>>
  /\ mode' = "final"
  /\ UNCHANGED <<capacity, ring, head, tail, chunk, drained_any, todo, taken, countVars>>

Parsing == mode \in {"drain", "final"}

\* Mutant of SkipByte: a bad checksum costs the whole candidate.
SkipCandidate ==
  /\ Parsing /\ CanLook
  /\ Candidate => Arrived /\ ~ChecksumMatches
  /\ LET n == IF Candidate THEN TotalLen ELSE 1 IN
       tail' = (tail + n) % capacity /\ passed' = passed + n
  /\ UNCHANGED <<capacity, ring, head, ctlVars, todo, taken, dropped, delivered, voided, resets>>

\* Mutant of SkipByte: after a bad checksum the tail stays where it is.
SkipByteStuck ==
  /\ Parsing /\ CanLook /\ ~Candidate
  /\ tail' = (tail + 1) % capacity
  /\ passed' = passed + 1
  /\ UNCHANGED <<capacity, ring, head, ctlVars, todo, taken, dropped, delivered, voided, resets>>

\* parse_packet passes over the byte at the tail.
SkipByte ==
  /\ Parsing /\ CanLook
  /\ Candidate => Arrived /\ ~ChecksumMatches
  /\ tail' = (tail + 1) % capacity
  /\ passed' = passed + 1
  /\ UNCHANGED <<capacity, ring, head, ctlVars, todo, taken, dropped, delivered, voided, resets>>

\* reset, called by reset_serial when n bytes are in the ring.
Empty(n) ==
  /\ resets < MaxResets
  /\ resets' = resets + 1
  /\ voided' = voided + n
  /\ head' = 0
  /\ tail' = 0

\* parse_packet returns a packet to the consumer, which may reset.
ParsePacket(reset) ==
  /\ Parsing /\ Candidate /\ Arrived /\ ChecksumMatches
  /\ delivered' = Append(delivered, SubSeq(Contents, 1, TotalLen))
  /\ drained_any' = TRUE
  /\ IF reset
     THEN Empty(Available - TotalLen)
     ELSE tail' = (tail + TotalLen) % capacity /\ UNCHANGED <<head, voided, resets>>
  /\ UNCHANGED <<capacity, ring, chunk, mode, todo, taken, dropped, passed>>

\* parse_packet returns false.
NoPacket == Parsing /\ (CanLook => Candidate /\ ~Arrived)

EndRead ==
  /\ NoPacket
  /\ mode = "final"
  /\ mode' = "idle"
  /\ UNCHANGED <<capacity, ring, head, tail, chunk, drained_any, todo, taken, countVars>>

PushDrained ==
  /\ NoPacket
  /\ mode = "drain"
  /\ Push
  /\ mode' = "push"
  /\ UNCHANGED <<capacity, tail, drained_any, todo, taken, countVars>>

\* Mutant of Overflow: what is left in the ring is not counted.
OverflowUncounted ==
  /\ NoPacket
  /\ mode = "drain" /\ Full
  /\ dropped' = dropped + 1
  /\ ring' = [ring EXCEPT ![0] = Head(chunk)]
  /\ head' = 1 % capacity
  /\ tail' = 0
  /\ chunk' = Tail(chunk)
  /\ mode' = "push"
  /\ UNCHANGED <<capacity, drained_any, todo, taken, delivered, passed, voided, resets>>

\* The ring is still full: it is emptied, or the byte is given up.
Overflow ==
  /\ NoPacket
  /\ mode = "drain" /\ Full
  /\ IF drained_any
     THEN dropped' = dropped + 1 /\ UNCHANGED <<ring, head, tail>>
     ELSE /\ dropped' = dropped + Available
          /\ ring' = [ring EXCEPT ![0] = Head(chunk)]
          /\ head' = 1 % capacity
          /\ tail' = 0
  /\ chunk' = Tail(chunk)
  /\ mode' = "push"
  /\ UNCHANGED <<capacity, drained_any, todo, taken, delivered, passed, voided, resets>>

\* reset_serial between two reads.
Reset ==
  /\ mode = "idle"
  /\ Empty(Available)
  /\ UNCHANGED <<capacity, ring, ctlVars, todo, taken, dropped, delivered, passed>>

Next ==
  \/ \E n \in ReadSizes : Read(n)
  \/ PushByte
  \/ StartDrain
  \/ StartFinal
  \/ SkipByte
  \/ \E reset \in BOOLEAN : ParsePacket(reset)
  \/ EndRead
  \/ PushDrained
  \/ Overflow
  \/ Reset

Spec == Init /\ [][Next]_vars

\* The loops go on; reads and resets need not come.
FairSpec ==
  /\ Spec
  /\ WF_vars(PushByte \/ StartDrain \/ StartFinal \/ SkipByte
             \/ ParsePacket(FALSE) \/ EndRead \/ PushDrained \/ Overflow)

-----------------------------------------------------------------------------
(* Properties                                                              *)

TypeOK ==
  /\ capacity \in Capacities
  /\ ring \in [0 .. capacity - 1 -> Byte]
  /\ head \in 0 .. capacity - 1
  /\ tail \in 0 .. capacity - 1
  /\ chunk \in Seq(Byte)
  /\ mode \in {"idle", "push", "drain", "final"}
  /\ drained_any \in BOOLEAN
  /\ todo \in Seq(Byte)
  /\ delivered \in Seq(Seq(Byte))
  /\ {taken, dropped, passed, voided, resets} \subseteq Nat

\* The ring never overflows, whatever arrives and however much one read
\* returns: a full ring always lets parse_packet take or pass over something.
\* So the recovery that throws away the ring is never needed, unless the ring
\* is too small for the smallest frame.
NeverOverflows == capacity > MinPacketSize => dropped = 0

\* What has been read is delivered, passed over, voided by a reset, in hand,
\* or counted: the number in the overflow warning is true.
DropsCounted ==
  taken = Len(chunk) + Available + Len(FlattenSeq(delivered))
            + passed + voided + dropped

\* After a read, less than one largest frame waits for more bytes: a frame
\* behind a false start is late by no more than that.
WaitIsShort == mode = "idle" => Available < MaxFrame

\* feed_data_with_recovery returns, whatever it is fed.
Returns == (mode # "idle") ~> (mode = "idle")

\* In a ring that holds every frame the handler keeps the promise of
\* FrameStream: reads may cut the stream anywhere.
Stream == INSTANCE FrameStream WITH unread <- Contents \o chunk

ImplementsStream ==
  Stream!Init /\ [][capacity > MaxFrame => Stream!Next]_<<Contents \o chunk, delivered>>

=============================================================================
