--------------------------- MODULE MCProtocolBuild ---------------------------
(* An instance of ProtocolBuild for TLC: two messages, edited one key at a   *)
(* time, among them keys that validation has to reject.                      *)
EXTENDS ProtocolBuild, TLC

MCNames == {"Pose", "POSE", "Twist", "ACK", "Ack"}

MCUpper == [Pose |-> "POSE", POSE |-> "POSE", Twist |-> "TWIST", Ack |-> "ACK", ACK |-> "ACK",
            Heartbeat |-> "HEARTBEAT", Handshake |-> "HANDSHAKE"]

\* Aliases of a field's type, of a type of the built-in Ack, and of that of
\* Heartbeat and Handshake: to a long type, to one whose length is not the
\* same at both ends, and to none that a compiler knows.
MCTypeMappings ==
  {[v |-> "uint32_t"], [v |-> "float"], [v |-> "double"],
   [v |-> "float", uint8_t |-> "uint16_t"],
   [v |-> "float", uint32_t |-> "double"],
   [v |-> "float", uint32_t |-> "long"],
   [v |-> "float", uint32_t |-> "u32"]}

MCSizeOf ==
  [end \in Ends |-> CTypeSizes @@ ("double" :> 8) @@ ("long" :> IF end = "ros" THEN 8 ELSE 4)]

\* With a limit of 8 bytes: some as long as that, too long only when
\* reliable, and too long.
MCFieldLists ==
  {<<>>, <<"v">>, <<"float">>, <<"uint16_t", "v", "uint8_t">>,
   <<"uint16_t", "v", "uint16_t">>, <<"v", "v", "uint8_t">>}

MCFirst ==
  [head |-> <<90, 165>>, checksum |-> "CRC8", require_handshake |-> TRUE,
   buffer_size |-> 13, type_mappings |-> [v |-> "uint32_t"],
   messages |-> <<
     [name |-> "Twist", id |-> 2, direction |-> "tx", reliable |-> TRUE,
      fields |-> <<"uint8_t", "v">>],
     [name |-> "Pose", id |-> 1, direction |-> "both", reliable |-> FALSE,
      fields |-> <<"v">>]>>]

MCFirstProtocols == {MCFirst}

=============================================================================
