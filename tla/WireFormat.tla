----------------------------- MODULE WireFormat -----------------------------
(***************************************************************************)
(* The frame that both ends of the line write and read:                    *)
(*   header1, header2, id, length, payload, checksum                       *)
(* A payload has one size per id, known to both ends.  The payload of a    *)
(* reliable packet includes the trailing seq.                              *)
(***************************************************************************)
EXTENDS Naturals, Sequences, SequencesExt

CONSTANTS
  ByteValues,               \* 2^8 in the code
  Header1, Header2,         \* FRAME_HEADER1, FRAME_HEADER2
  expected_payload_size,    \* per id, with 0 for an id of no packet
  MaxPayload,               \* MAX_PACKET_PAYLOAD_SIZE
  checksum_update(_, _),    \* the algorithm chosen in the protocol
  HasChecksum               \* the algorithm is not NONE

Byte == 0 .. ByteValues - 1

ASSUME ByteAssumption ==
  /\ ByteValues \in Nat \ {0}
  /\ {Header1, Header2} \subseteq Byte
  /\ HasChecksum \in BOOLEAN
ASSUME PayloadAssumption ==   \* validate_protocol: at most 255 bytes
  /\ expected_payload_size \in [Byte -> Byte]
  /\ MaxPayload \in Byte
  /\ \A id \in Byte : expected_payload_size[id] <= MaxPayload
ASSUME ChecksumAssumption ==
  \A c, b \in Byte : checksum_update(c, b) \in Byte

MinPacketSize == 5

PacketIds == {id \in Byte : expected_payload_size[id] > 0}

\* calculate_checksum
Checksum(s) == FoldLeft(checksum_update, 0, s)

PayloadsOf(id) == [1 .. expected_payload_size[id] -> Byte]

\* What the checksum covers.
Covered(id, payload) == <<id, Len(payload)>> \o payload

\* The last bytes that a receiver accepts: without a checksum, any.
Trailers(id, payload) ==
  IF HasChecksum THEN {Checksum(Covered(id, payload))} ELSE Byte

\* What pack and inject_trailing_seq produce.
FramesOf(id) ==
  UNION {{<<Header1, Header2>> \o Covered(id, p) \o <<t>> : t \in Trailers(id, p)} :
           p \in PayloadsOf(id)}

Frames == UNION {FramesOf(id) : id \in PacketIds}

=============================================================================
