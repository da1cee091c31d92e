------------------------------- MODULE McuFsm -------------------------------
(***************************************************************************)
(* The receiver that codegen.py generates for the MCU (generate_mcu_source *)
(* writes protocol.c): protocol_fsm_feed, which is called for every byte   *)
(* of the line, here any byte at any time.  Unlike PacketHandler it keeps  *)
(* no bytes to look at again, and nothing resets it when the ROS side      *)
(* reconnects.                                                             *)
(***************************************************************************)
EXTENDS WireFormat

VARIABLES
  fsm,      \* the static variables of protocol.c
  out,      \* the packet that the last byte completed, or none
  recent    \* history: the longest end of what came after the last packet
            \*          that may begin a frame

vars == <<fsm, out, recent>>

\* rx_buffer holds one payload, the largest.
BufferSize == MaxPayload

States == {"WAIT_HEADER1", "WAIT_HEADER2", "WAIT_ID", "WAIT_LEN", "WAIT_DATA",
           "WAIT_CRC"}

Fsm == [rx_state : States, rx_buffer : [0 .. BufferSize - 1 -> Byte],
        rx_cnt : 0 .. BufferSize, rx_data_len : Byte, rx_id : Byte,
        rx_checksum : Byte]

None == [id |-> 0, payload |-> <<>>]

-----------------------------------------------------------------------------
(* The cases of protocol_fsm_feed.                                         *)

WaitHeader1(f, b) ==
  [f EXCEPT !.rx_state = IF b = Header1 THEN "WAIT_HEADER2" ELSE "WAIT_HEADER1"]

\* Mutant of WaitHeader2: a second Header1 starts the search again.
WaitHeader2Strict(f, b) ==
  [f EXCEPT !.rx_state = IF b = Header2 THEN "WAIT_ID" ELSE "WAIT_HEADER1"]

WaitHeader2(f, b) ==
  [f EXCEPT !.rx_state = CASE b = Header2 -> "WAIT_ID"
                           [] b # Header2 /\ b = Header1 -> "WAIT_HEADER2"
                           [] OTHER -> "WAIT_HEADER1"]

WaitId(f, b) ==
  [f EXCEPT !.rx_id = b, !.rx_checksum = checksum_update(0, b),
            !.rx_state = "WAIT_LEN"]

\* Mutant of WaitLen: the length is not compared with the size of rx_buffer.
WaitLenUnchecked(f, b) ==
  [f EXCEPT !.rx_data_len = b, !.rx_checksum = checksum_update(@, b),
            !.rx_cnt = 0,
            !.rx_state = IF b > 0 THEN "WAIT_DATA" ELSE "WAIT_CRC"]

\* A length that no packet has ends the candidate, and only this byte of it
\* is looked at again.
WaitLen(f, b) ==
  IF b > BufferSize
  THEN WaitHeader1(f, b)
  ELSE [f EXCEPT !.rx_data_len = b, !.rx_checksum = checksum_update(@, b),
                 !.rx_cnt = 0,
                 !.rx_state = IF b > 0 THEN "WAIT_DATA" ELSE "WAIT_CRC"]

\* Mutant of WaitData: one byte too many.
WaitDataLong(f, b) ==
  [f EXCEPT !.rx_buffer[f.rx_cnt] = b, !.rx_checksum = checksum_update(@, b),
            !.rx_cnt = @ + 1,
            !.rx_state = IF f.rx_cnt >= f.rx_data_len THEN "WAIT_CRC" ELSE @]

WaitData(f, b) ==
  [f EXCEPT !.rx_buffer[f.rx_cnt] = b, !.rx_checksum = checksum_update(@, b),
            !.rx_cnt = @ + 1,
            !.rx_state = IF f.rx_cnt + 1 >= f.rx_data_len THEN "WAIT_CRC" ELSE @]

\* Mutant of WaitCrc: the search for the next frame does not start.
WaitCrcStuck(f) == f

WaitCrc(f) == [f EXCEPT !.rx_state = "WAIT_HEADER1"]

Fed(f, b) ==
  CASE f.rx_state = "WAIT_HEADER1" -> WaitHeader1(f, b)
    [] f.rx_state = "WAIT_HEADER2" -> WaitHeader2(f, b)
    [] f.rx_state = "WAIT_ID"      -> WaitId(f, b)
    [] f.rx_state = "WAIT_LEN"     -> WaitLen(f, b)
    [] f.rx_state = "WAIT_DATA"    -> WaitData(f, b)
    [] f.rx_state = "WAIT_CRC"     -> WaitCrc(f)

\* Mutant of Completes: the length is not compared with that of the packet.
CompletesAnyLength(f, b) ==
  /\ f.rx_state = "WAIT_CRC"
  /\ HasChecksum => b = f.rx_checksum
  /\ f.rx_id \in PacketIds

\* Byte b makes f call on_receive_X (and reply, see ReliableSender and
\* SerialController).
Completes(f, b) ==
  /\ f.rx_state = "WAIT_CRC"
  /\ HasChecksum => b = f.rx_checksum
  /\ f.rx_id \in PacketIds
  /\ f.rx_data_len = expected_payload_size[f.rx_id]

Received(f) ==
  [id |-> f.rx_id, payload |-> [i \in 1 .. f.rx_data_len |-> f.rx_buffer[i - 1]]]

-----------------------------------------------------------------------------
Init ==
  /\ fsm = [rx_state |-> "WAIT_HEADER1",
            rx_buffer |-> [i \in 0 .. BufferSize - 1 |-> 0],
            rx_cnt |-> 0, rx_data_len |-> 0, rx_id |-> 0, rx_checksum |-> 0]
  /\ out = None
  /\ recent = <<>>

FrameBeginnings == {<<>>} \cup UNION {Prefixes(frame) : frame \in Frames}

\* The longest suffix of s that is a frame or the beginning of one.
FrameEnd(s) ==
  LET ends == Suffixes(s) \cap FrameBeginnings
  IN  CHOOSE e \in ends : \A x \in ends : Len(x) <= Len(e)

\* protocol_fsm_feed(b)
Feed(b) ==
  /\ fsm' = Fed(fsm, b)
  /\ out' = IF Completes(fsm, b) THEN Received(fsm) ELSE None
  /\ recent' = FrameEnd(Append(IF out = None THEN recent ELSE <<>>, b))

Next == \E b \in Byte : Feed(b)

Spec == Init /\ [][Next]_vars

-----------------------------------------------------------------------------
(* Sending a whole sequence of bytes to the state f: the packets received. *)

FeedInto(acc, b) ==
  [f |-> Fed(acc.f, b),
   got |-> IF Completes(acc.f, b) THEN Append(acc.got, Received(acc.f)) ELSE acc.got]

Gets(f, bytes) == FoldLeft(FeedInto, [f |-> f, got |-> <<>>], bytes).got

\* The packet in a frame.
PacketIn(frame) ==
  [id |-> frame[3], payload |-> SubSeq(frame, 5, Len(frame) - 1)]

Repeat(s, n) == FlattenSeq([i \in 1 .. n |-> s])

\* A header appears in the frame only at its start.
Clean(frame) ==
  \A i \in 2 .. Len(frame) - 1 : ~(frame[i] = Header1 /\ frame[i + 1] = Header2)

-----------------------------------------------------------------------------
(* Properties                                                              *)

TypeOK ==
  /\ fsm \in Fsm
  /\ out \in [id : Byte, payload : Seq(Byte)]
  /\ recent \in Seq(Byte)

\* The next payload byte has a place in rx_buffer, whose size is that of the
\* largest payload of the protocol and not what the length byte can say.
BufferInBounds ==
  fsm.rx_state = "WAIT_DATA" =>
    fsm.rx_cnt < fsm.rx_data_len /\ fsm.rx_data_len <= BufferSize

\* A packet is received only as the last bytes of the line, and none of them
\* was part of another packet: pieces of several frames, or of a frame and
\* noise, are never put together.
GenuineOnly ==
  out # None =>
    \E frame \in Frames : IsSuffix(frame, recent) /\ PacketIn(frame) = out

\* Between two frames the receiver decodes what the sender packs, stray first
\* header bytes or not, and exactly once.
DecodesFrames ==
  \/ fsm.rx_state = "WAIT_HEADER1"
  \/ fsm.rx_state = "WAIT_HEADER2" /\ Header1 # Header2
  => \A frame \in Frames : Gets(fsm, frame) = <<PacketIn(frame)>>

\* How many copies of the frame a truncated one can swallow.
Swallowed(frame) == (MaxPayload + 3 + Len(frame) - 1) \div Len(frame)

\* From whatever state a truncated frame, noise or a reconnection has left it
\* in, the receiver gets a frame that is sent again and again after at most
\* Swallowed copies, if its payload holds no header.
Recovers ==
  Header1 # Header2 =>
    \A frame \in {f \in Frames : Clean(f)} :
      PacketIn(frame) \in Range(Gets(fsm, Repeat(frame, Swallowed(frame) + 1)))

=============================================================================
