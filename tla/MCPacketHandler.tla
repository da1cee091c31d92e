--------------------------- MODULE MCPacketHandler ---------------------------
(* An instance of PacketHandler for TLC: four byte values, a packet with one *)
(* byte of payload and one with two.                                         *)
EXTENDS PacketHandler

MCPayloadSize == (0 :> 1) @@ (1 :> 2) @@ (2 :> 0) @@ (3 :> 0)

MCSum8(c, b) == (c + b) % ByteValues

\* Frames, one with a header in its payload, and what is left of frames.
MCPieces ==
  LET inner == CHOOSE f \in FramesOf(1) : SubSeq(f, 5, 6) = <<3, 2>>
      plain == CHOOSE f \in FramesOf(0) : f[5] = 1
      wrong == [plain EXCEPT ![6] = (@ + 1) % ByteValues]
  IN  {<<>>, inner, plain, wrong, SubSeq(inner, 1, 5), SubSeq(plain, 1, 3),
       <<3>>, <<0, 3, 2, 2>>, <<3, 2, 1, 3>>}

MCStreams == {a \o b \o c : a, b, c \in MCPieces}

=============================================================================
