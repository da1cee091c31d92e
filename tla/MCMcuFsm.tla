------------------------------ MODULE MCMcuFsm ------------------------------
(* An instance of McuFsm for TLC: four byte values, a packet with one byte of *)
(* payload and one with two.                                                  *)
EXTENDS McuFsm

MCPayloadSize == (0 :> 1) @@ (1 :> 2) @@ (2 :> 0) @@ (3 :> 0)

MCSum8(c, b) == (c + b) % ByteValues

=============================================================================
