--------------------------- MODULE MCSerialBridge ---------------------------
(* Instances of SerialBridge for TLC. *)
EXTENDS SerialBridge

CONSTANT A

\* Two messages of one id.
MCTwo == [k \in Ids |-> 2]
\* One.
MCOne == [k \in Ids |-> 1]

=============================================================================
