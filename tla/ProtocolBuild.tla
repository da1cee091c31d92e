--------------------------- MODULE ProtocolBuild ---------------------------
(***************************************************************************)
(* One protocol.yaml, two builds of it: codegen.py validates the file,     *)
(* generates both ends and numbers them with the protocol hash; the ROS    *)
(* node and the firmware are then installed one at a time, so that they    *)
(* may come from different versions of the file.  The handshake has to     *)
(* find that out.                                                          *)
(*                                                                         *)
(* A protocol has the keys that reach the wire.  Names of fields, topics   *)
(* and message types, timing and QoS are left out, with their checks.  The *)
(* hash is its input: MD5, cut to 32 bits, is taken to tell inputs apart.  *)
(*                                                                         *)
(* A length has two sources.  codegen.py adds up its table of sizes for    *)
(* buffers and limits; the code it generates takes sizeof of the packed    *)
(* struct, which each end's compiler works out for itself.                 *)
(***************************************************************************)
EXTENDS Integers, Sequences, SequencesExt, FiniteSetsExt

CONSTANTS
  FirstProtocols,  \* versions to start from, valid ones
  Names,           \* names an edit gives to a message
  Upper,           \* name.upper()
  Ids,             \* ids an edit gives to a message
  FieldLists,      \* types of the fields an edit gives to a message
  TypeMappings,    \* type_mappings: from aliases to C types
  Checksums,
  HeadBytes,
  BufferSizes,
  SizeOf,          \* sizeof for the types that each end's compiler knows
  LengthLimit,     \* 255 in the code: the length is one byte
  MaxMessages,     \* bound: messages in the file
  MaxEdits         \* bound: edits of the file

VARIABLES
  yaml,   \* protocol.yaml
  built,  \* the version in the install directory: node and mcu_output
  ros,    \* the version the running node was built from
  mcu,    \* the version of the firmware
  edits   \* history: number of edits

vars == <<yaml, built, ros, mcu, edits>>

-----------------------------------------------------------------------------
(* Sizes and the built-in messages.                                        *)

CTypeSizes == [uint8_t |-> 1, uint16_t |-> 2, uint32_t |-> 4, int32_t |-> 4, float |-> 4]

Ends == {"ros", "mcu"}

\* No scalar is so large that two of them would outgrow the length byte.
ASSUME SizeOfAssumption ==
  /\ DOMAIN SizeOf = Ends /\ DOMAIN SizeOf["ros"] = DOMAIN SizeOf["mcu"]
  /\ \A end \in Ends :
       /\ \A t \in DOMAIN SizeOf[end] : SizeOf[end][t] \in 1 .. 127
       /\ \A t \in DOMAIN CTypeSizes :
            t \in DOMAIN SizeOf[end] /\ SizeOf[end][t] = CTypeSizes[t]

\* The built-in messages fit into the length byte with the types they have.
ASSUME LimitAssumption == LengthLimit \in Nat /\ LengthLimit >= 8

System(name, id, fields) ==
  [name |-> name, id |-> id, direction |-> "both", reliable |-> FALSE, fields |-> fields]

SYSTEM_MESSAGES ==
  <<System("Ack", 253, <<"uint8_t", "uint8_t">>),
    System("Heartbeat", 254, <<"uint32_t">>),
    System("Handshake", 255, <<"uint32_t">>)>>

ReservedIds     == {m.id : m \in Range(SYSTEM_MESSAGES)}
ReservedNames   == {m.name : m \in Range(SYSTEM_MESSAGES)}
ReservedSymbols == {"ACK", "HEARTBEAT", "HANDSHAKE"}

\* get_c_type: an alias, or a C type as it is.
CType(d, type) ==
  IF type \in DOMAIN d.type_mappings THEN d.type_mappings[type] ELSE type

CTypes(d, m) == [i \in DOMAIN m.fields |-> CType(d, m.fields[i])]

Total(sizes) == FoldLeft(LAMBDA sum, n : sum + n, 0, sizes)

\* The table; an unknown type counts for one byte.
Counted(types) ==
  [i \in DOMAIN types |-> IF types[i] \in DOMAIN CTypeSizes THEN CTypeSizes[types[i]] ELSE 1]

\* message_payload_size and message_wire_payload_size: what codegen.py counts
PayloadSize(d, m) == Total(Counted(CTypes(d, m)))
WireSize(d, m) == IF m.reliable THEN PayloadSize(d, m) + 1 ELSE PayloadSize(d, m)

\* sizeof(Packet_X) at one end, the struct being packed
StructSize(end, d, m) ==
  LET types == CTypes(d, m) IN Total([i \in DOMAIN types |-> SizeOf[end][types[i]]])

\* expected_payload_size: what the generated code sends and waits for
WireLength(end, d, m) ==
  IF m.reliable THEN StructSize(end, d, m) + 1 ELSE StructSize(end, d, m)

UnmergedMessages(d) == d.messages \o SYSTEM_MESSAGES

\* The place of s[k] when s is sorted by id; sorted() keeps equal ids in order.
Position(s, k) ==
  Cardinality({j \in DOMAIN s : \/ s[j].id < s[k].id
                                \/ s[j].id = s[k].id /\ j <= k})

\* Mutant of Merged: the messages in the order of the file.
MergedUnsorted(d) == UnmergedMessages(d)

\* merge_messages
Merged(d) ==
  LET s == UnmergedMessages(d) IN
    [i \in DOMAIN s |-> s[CHOOSE k \in DOMAIN s : Position(s, k) = i]]

AllMessages(d) == Range(UnmergedMessages(d))

\* MAX_PACKET_PAYLOAD_SIZE, and the size of the rx_buffer of the MCU
MaxPayload(d) == Max({WireSize(d, m) : m \in AllMessages(d)})

-----------------------------------------------------------------------------
(* validate_protocol                                                       *)

\* Mutant of MessageValid: any message may be reliable.
MessageValidAnyReliable(d, m) ==
  /\ m.direction \in {"tx", "rx", "both"}
  /\ m.reliable \in BOOLEAN
  /\ m.id \in 0 .. 255 \ ReservedIds
  /\ m.name \notin ReservedNames
  /\ Upper[m.name] \notin ReservedSymbols
  /\ m.fields \in Seq(Range(m.fields)) \ {<<>>}
  /\ Range(CTypes(d, m)) \subseteq DOMAIN CTypeSizes
  /\ WireSize(d, m) <= LengthLimit

MessageValid(d, m) ==
  /\ m.reliable => m.direction = "tx"
  /\ m.direction \in {"tx", "rx", "both"}
  /\ m.reliable \in BOOLEAN
  /\ m.id \in 0 .. 255 \ ReservedIds
  /\ m.name \notin ReservedNames
  /\ Upper[m.name] \notin ReservedSymbols
  /\ m.fields \in Seq(Range(m.fields)) \ {<<>>}
  /\ Range(CTypes(d, m)) \subseteq DOMAIN CTypeSizes
  /\ WireSize(d, m) <= LengthLimit

Valid(d) ==
  /\ d.checksum \in {"NONE", "SUM8", "XOR8", "CRC8"}
  /\ d.messages \in Seq(Range(d.messages))
  /\ \A i \in DOMAIN d.messages : MessageValid(d, d.messages[i])
  /\ \A i, j \in DOMAIN d.messages :
       i # j => /\ d.messages[i].id # d.messages[j].id
                /\ Upper[d.messages[i].name] # Upper[d.messages[j].name]
  /\ d.buffer_size \in Nat /\ d.buffer_size >= MaxPayload(d) + 5

\* The compilers know every type that the structs name.
Compiles(d) ==
  \A m \in AllMessages(d), end \in Ends : Range(CTypes(d, m)) \subseteq DOMAIN SizeOf[end]

ASSUME FirstAssumption == \A d \in FirstProtocols : Valid(d) /\ Compiles(d)
ASSUME EditsAssumption == MaxEdits \in Nat
ASSUME UpperAssumption ==
  Upper["Ack"] = "ACK" /\ Upper["Heartbeat"] = "HEARTBEAT" /\ Upper["Handshake"] = "HANDSHAKE"

-----------------------------------------------------------------------------
(* The protocol hash.                                                      *)

\* Mutant of HashedMessage: the types as they are written in the file.
HashedUnresolved(d, m) ==
  [id |-> m.id, direction |-> m.direction, reliable |-> m.reliable,
   field_types |-> m.fields]

HashedMessage(d, m) ==
  [id |-> m.id, direction |-> m.direction, reliable |-> m.reliable,
   field_types |-> CTypes(d, m)]

\* _protocol_hash_input
HashInput(d) ==
  LET list == Merged(d) IN
    [head |-> d.head, checksum |-> d.checksum, require_handshake |-> d.require_handshake,
     messages |-> [i \in DOMAIN list |-> HashedMessage(d, list[i])]]

\* classify_handshake_validation
HandshakeMatches == HashInput(ros) = HashInput(mcu)

-----------------------------------------------------------------------------
(* What each end of version d sends and takes.                             *)

Form(d, m, len, acked) ==
  [id |-> m.id, types |-> CTypes(d, m), len |-> len, acked |-> acked]

\* Packets that the node sends: subscriptions, probes and heartbeats.
RosSends(d) ==
  {Form(d, m, WireLength("ros", d, m), m.reliable) :
     m \in {n \in AllMessages(d) : n.direction \in {"tx", "both"} /\ n.name # "Ack"}}

\* Packets that it takes: not above MAX_PACKET_PAYLOAD_SIZE, as long as
\* expected_payload_size says, with a seq for a reliable one, and as long as
\* the struct for dispatch_packet.
RosTakes(d) ==
  LET limit == MaxPayload(d) IN
    {Form(d, m, StructSize("ros", d, m), FALSE) :
       m \in {n \in AllMessages(d) :
                /\ n.direction \in {"rx", "both"}
                /\ ~ n.reliable
                /\ StructSize("ros", d, n) <= limit}}

\* send_X for the directions that the MCU may use, and its replies.
McuSends(d) ==
  {Form(d, m, StructSize("mcu", d, m), FALSE) :
     m \in {n \in AllMessages(d) : n.direction \in {"rx", "both"}}}

\* The cases of protocol_fsm_feed, behind the test of the length byte
\* against rx_buffer.
McuTakes(d) ==
  LET rx_buffer == MaxPayload(d) IN
    {Form(d, m, WireLength("mcu", d, m), m.reliable) :
       m \in {n \in AllMessages(d) : WireLength("mcu", d, n) <= rx_buffer}}

\* The two ends of the line understand each other.
Compatible(r, m) ==
  /\ r.head = m.head /\ r.checksum = m.checksum
  /\ RosSends(r) \subseteq McuTakes(m)
  /\ McuSends(m) \subseteq RosTakes(r)

-----------------------------------------------------------------------------
Init ==
  /\ yaml \in FirstProtocols
  /\ built = yaml
  /\ ros = yaml
  /\ mcu = yaml
  /\ edits = 0

\* The file is saved after one change, good or bad.
EditedMessage(m) ==
  {[m EXCEPT !.name = n] : n \in Names}
    \cup {[m EXCEPT !.id = i] : i \in Ids}
    \cup {[m EXCEPT !.direction = dir] : dir \in {"tx", "rx", "both"}}
    \cup {[m EXCEPT !.reliable = b] : b \in BOOLEAN}
    \cup {[m EXCEPT !.fields = fs] : fs \in FieldLists}

Edited(d) ==
  {[d EXCEPT !.checksum = c] : c \in Checksums}
    \cup {[d EXCEPT !.head = <<a, b>>] : a, b \in HeadBytes}
    \cup {[d EXCEPT !.require_handshake = b] : b \in BOOLEAN}
    \cup {[d EXCEPT !.buffer_size = n] : n \in BufferSizes}
    \cup {[d EXCEPT !.type_mappings = t] : t \in TypeMappings}
    \cup {[d EXCEPT !.messages = Reverse(@)]}
    \cup {[d EXCEPT !.messages = RemoveAt(@, i)] : i \in DOMAIN d.messages}
    \cup UNION {{[d EXCEPT !.messages[i] = m] : m \in EditedMessage(d.messages[i])} :
                  i \in DOMAIN d.messages}
    \cup IF Len(d.messages) = MaxMessages THEN {}
         ELSE {[d EXCEPT !.messages = Append(@, [name |-> n, id |-> i,
                   direction |-> "rx", reliable |-> FALSE, fields |-> fs])] :
                 n \in Names, i \in Ids, fs \in FieldLists}

Edit ==
  /\ edits < MaxEdits
  /\ yaml' \in Edited(yaml) \ {yaml}
  /\ edits' = edits + 1
  /\ UNCHANGED <<built, ros, mcu>>

\* Mutant of Build: the file is not validated.
BuildAnything ==
  /\ built' = yaml
  /\ UNCHANGED <<yaml, ros, mcu, edits>>

\* main of codegen.py, then the compiler; a file that either of them rejects
\* fails the build and leaves the installed one.
Build ==
  /\ Valid(yaml)
  /\ Compiles(yaml)
  /\ built' = yaml
  /\ UNCHANGED <<yaml, ros, mcu, edits>>

StartNode ==
  /\ ros' = built
  /\ UNCHANGED <<yaml, built, mcu, edits>>

FlashFirmware ==
  /\ mcu' = built
  /\ UNCHANGED <<yaml, built, ros, edits>>

Next == Edit \/ Build \/ StartNode \/ FlashFirmware

Spec == Init /\ [][Next]_vars

-----------------------------------------------------------------------------
(* Properties                                                              *)

\* What has been built was valid.
TypeOK ==
  /\ Valid(built) /\ Valid(ros) /\ Valid(mcu)
  /\ edits \in 0 .. MaxEdits

\* Validation looks at the types of the messages in the file only, while
\* type_mappings also renames those of the built-in ones: to a type outside
\* the table, or one that is not fixed-width, which README.md asks for and
\* nothing enforces.
BuiltinsFit(d) ==
  \A m \in Range(SYSTEM_MESSAGES) :
    /\ StructSize("ros", d, m) = StructSize("mcu", d, m)
    /\ StructSize("mcu", d, m) <= MaxPayload(d)

\* When the handshake accepts the firmware, the two ends understand each
\* other: the same frames, the same packets with the same sizes and types,
\* the same ones acknowledged.  The hash leaves out nothing that matters.
\* The one exception are the protocols whose built-in messages do not fit
\* the generated buffers; there they never do (and the handshake itself is
\* among the messages that are lost).
MatchedIsCompatible == HandshakeMatches => (Compatible(ros, mcu) <=> BuiltinsFit(mcu))

\* The wire contract as README.md lists it, without the order of the file.
\* The built-in messages are part of it: an alias may rename their types.
Contract(d) ==
  [head |-> d.head, checksum |-> d.checksum, require_handshake |-> d.require_handshake,
   messages |-> {[id |-> m.id, direction |-> m.direction, reliable |-> m.reliable,
                  field_types |-> CTypes(d, m)] : m \in AllMessages(d)}]

\* And nothing else makes the handshake fail: neither the order of the
\* messages, nor names, nor aliases, nor the buffer size.
SameContractMatches == Contract(ros) = Contract(mcu) => HandshakeMatches

\* What both ends of an accepted protocol rely on (see WireFormat and
\* PacketHandler): they understand each other exactly if the built-in messages
\* fit, no id or symbol is generated twice, and what the generator counts
\* fits into a byte and, as a frame, into the ring.
BuiltIsSound ==
  /\ Compatible(built, built) <=> BuiltinsFit(built)
  /\ LET list == Merged(built) IN
       \A i, j \in DOMAIN list :
         i < j => list[i].id < list[j].id /\ Upper[list[i].name] # Upper[list[j].name]
  /\ MaxPayload(built) <= LengthLimit
  /\ \A capacity \in 1 .. 256 :
       capacity >= built.buffer_size + 1 => capacity > MaxPayload(built) + 5

=============================================================================
