----------------------------- MODULE RosBindings -----------------------------
(* The ROS side of one generated message (scripts/codegen.py): the           *)
(* subscription callback that register_all emits, which takes a ROS message, *)
(* checks that the arrays it is about to index are long enough and fills a   *)
(* packet, and the dispatch_packet case that turns a packet back into a ROS  *)
(* message.                                                                  *)
(*                                                                           *)
(* A field path such as  poses[1].covariance[0]  is a sequence of segments;  *)
(* the array it indexes at a segment (the code's base_expr) is the path up   *)
(* to there with the last index left out.  A ROS message is the length of    *)
(* each of its arrays and the values at the paths the fields name.  Packets  *)
(* carry one value per field: C++ has turned it into the wire type already.  *)
EXTENDS Integers, Sequences

CONSTANTS
    Paths,        \* the ROS field paths a protocol file may name
    Fixed,        \* capacity of the arrays that are std::array; others are vectors
    MaxLength,    \* bound: the longest array of an incoming message
    MaxFields,    \* bound: fields of the message
    Values,       \* bound: integers found in an incoming message
    ByteValues    \* 256 in the code: the number of values of a uint8_t

NoIndex == -1     \* a segment without [n]

-----------------------------------------------------------------------------
(* Paths and the arrays on the way.                                          *)

IndexedAt(path) == {k \in 1..Len(path) : path[k].index # NoIndex}

ArrayAt(path, k) == [SubSeq(path, 1, k) EXCEPT ![k].index = NoIndex]

ArraysOf(path) == {ArrayAt(path, k) : k \in IndexedAt(path)}

Arrays == UNION {ArraysOf(path) : path \in Paths}

(* The arrays that must be indexed to get at an expression. *)
Enclosing(expr) == ArraysOf(SubSeq(expr, 1, Len(expr) - 1))

ASSUME BindingsAssumption ==
    /\ \A path \in Paths :
          /\ path \in Seq([name : STRING, index : Nat \cup {NoIndex}])
          /\ path # <<>>
    /\ DOMAIN Fixed \subseteq Arrays
    /\ \A array \in DOMAIN Fixed : Fixed[array] \in Nat
    /\ MaxLength \in Nat /\ MaxFields \in Nat \ {0} /\ ByteValues \in Nat \ {0}
    /\ Values \subseteq Int

(* _analyze_ros_path: how long each array on the way must be. *)
AnalyzeRosPath(path) ==
    [array \in ArraysOf(path) |-> path[Len(array)].index + 1]

\* Mutant of MergeVectorRequirements: the smallest length asked for.
MergeSmallest(requirements) ==
    [array \in UNION {DOMAIN r : r \in requirements} |->
        LET asked == {r[array] : r \in {q \in requirements : array \in DOMAIN q}}
        IN  CHOOSE n \in asked : \A m \in asked : n <= m]

(* _merge_vector_requirements, for all the fields: one length per array, the *)
(* largest that any of them asks for.                                        *)
MergeVectorRequirements(requirements) ==
    [array \in UNION {DOMAIN r : r \in requirements} |->
        LET asked == {r[array] : r \in {q \in requirements : array \in DOMAIN q}}
        IN  CHOOSE n \in asked : \A m \in asked : m <= n]

VectorRequirements(fields) ==
    MergeVectorRequirements({AnalyzeRosPath(fields[i].path) : i \in DOMAIN fields})

(* The checks are emitted in the order of the expressions as strings.  All   *)
(* that is kept of that order is that a prefix comes before what extends it. *)
CheckedBefore(array) == Enclosing(array)

(* An array is as long as the message says: an element is there if its index *)
(* is below that, for each array on the way.                                 *)
Holds(length, array, index) == index < length[array]

IsThere(length, expr) ==
    \A k \in IndexedAt(expr) : Holds(length, ArrayAt(expr, k), expr[k].index)

-----------------------------------------------------------------------------
(* Conversions.                                                              *)

(* _needs_int32_multiarray_u8_range_guard. *)
NeedsRangeGuard(message, field) ==
    message.ros_msg = "Int32MultiArray" /\ field.type = "uint8_t"

\* Mutant of OutOfByteRange: negative values pass.
OutOfByteRangeAbove(value) == value > ByteValues - 1

OutOfByteRange(value) == value < 0 \/ value > ByteValues - 1

(* static_cast to the field's C type; int32_t holds every value in use. *)
StaticCast(type, value) == IF type = "uint8_t" THEN value % ByteValues ELSE value

-----------------------------------------------------------------------------
VARIABLES
    message,    \* the entry of the protocol file: ROS type and fields
    pc,         \* where the generated code is
    msg,        \* the ROS message the callback was given
    passed,     \* arrays whose size check is behind
    pkt,        \* the packet, field by field
    out         \* the ROS message dispatch_packet is building

bindingsVars == <<message, pc, msg, passed, pkt, out>>

Fields == [path : Paths, type : {"uint8_t", "int32_t"}]

Messages == [ros_msg : {"Int32MultiArray", "Other"},
             fields  : UNION {[1..n -> Fields] : n \in 1..MaxFields}]

PathsOf(fields) == {fields[i].path : i \in DOMAIN fields}

(* A std::array has its capacity, whatever the message. *)
Lengths == {length \in [Arrays -> 0..MaxLength \cup {Fixed[a] : a \in DOMAIN Fixed}] :
               \A array \in Arrays :
                  IF array \in DOMAIN Fixed THEN length[array] = Fixed[array]
                                            ELSE length[array] <= MaxLength}

(* A ROS message as constructed: vectors are empty, std::arrays have their   *)
(* capacity; nothing is written yet.                                         *)
NewMessage ==
    [length |-> [a \in Arrays |-> IF a \in DOMAIN Fixed THEN Fixed[a] ELSE 0],
     at     |-> <<>>]

Requirements == VectorRequirements(message.fields)

Unchecked == DOMAIN Requirements \ passed

(* The size checks that may come next. *)
NextChecks == {array \in Unchecked : CheckedBefore(array) \cap Unchecked = {}}

BindingsInit ==
    /\ message \in Messages
    /\ pc = "idle"
    /\ msg = NewMessage /\ out = NewMessage
    /\ passed = {} /\ pkt = <<>>

(* A message arrives on the topic.  The lengths of arrays that lie in an     *)
(* element the message does not have are what reading them out of bounds     *)
(* might give.                                                               *)
Callback ==
    /\ pc \in {"idle", "dropped", "ignored", "unfit", "published"}
    /\ \E length \in Lengths, at \in [PathsOf(message.fields) -> Values] :
          msg' = [length |-> length, at |-> at]
    /\ pc' = "checking"
    /\ passed' = {} /\ pkt' = <<>> /\ out' = NewMessage
    /\ UNCHANGED message

(* if (expr.size() < n) { ...; return; } *)
CheckLength ==
    /\ pc = "checking"
    /\ \E array \in NextChecks :
          \/ /\ msg.length[array] < Requirements[array]
             /\ pc' = "dropped"
             /\ UNCHANGED passed
          \/ /\ ~(msg.length[array] < Requirements[array])
             /\ passed' = passed \cup {array}
             /\ UNCHANGED pc
    /\ UNCHANGED <<message, msg, pkt, out>>

(* The next field: the range guard of uint8_t fields, then the cast. *)
FillField ==
    /\ pc = "checking" /\ Unchecked = {} /\ Len(pkt) < Len(message.fields)
    /\ LET field == message.fields[Len(pkt) + 1]
           value == msg.at[field.path]
       IN  \/ /\ NeedsRangeGuard(message, field) /\ OutOfByteRange(value)
              /\ pc' = "dropped"
              /\ UNCHANGED pkt
           \/ /\ ~(NeedsRangeGuard(message, field) /\ OutOfByteRange(value))
              /\ pkt' = Append(pkt, StaticCast(field.type, value))
              /\ UNCHANGED pc
    /\ UNCHANGED <<message, msg, passed, out>>

(* node->send_packet(id, pkt) or node->reliable_send(id, pkt). *)
SendPacket ==
    /\ pc = "checking" /\ Unchecked = {} /\ Len(pkt) = Len(message.fields)
    /\ pc' = "sent"
    /\ UNCHANGED <<message, msg, passed, pkt, out>>

-----------------------------------------------------------------------------
(* dispatch_packet, when the other end answers with the same packet.         *)

(* if (data.size() != sizeof(Packet_x)) break;  and the message is made. *)
Dispatch ==
    /\ pc = "sent"
    /\ \E sizeMatches \in BOOLEAN :
          pc' = IF sizeMatches THEN "resizing" ELSE "ignored"
    /\ passed' = {} /\ out' = NewMessage
    /\ UNCHANGED <<message, msg, pkt>>

(* detail::ensure_size(container, required): the length it leaves, and below *)
(* whether it returns true.                                                  *)
Resized(array, length, required) ==
    IF array \notin DOMAIN Fixed /\ length < required THEN required ELSE length

\* Mutant of EnsureSizeOk: a std::array that is just long enough is refused.
EnsureSizeStrictly(array, length, required) ==
    array \notin DOMAIN Fixed \/ length > required

EnsureSizeOk(array, length, required) ==
    array \notin DOMAIN Fixed \/ length >= required

EnsureSize ==
    /\ pc = "resizing"
    /\ \E array \in NextChecks :
          LET length == out.length[array]
              needed == Requirements[array]
          IN  \/ /\ EnsureSizeOk(array, length, needed)
                 /\ out' = [out EXCEPT !.length[array] = Resized(array, length, needed)]
                 /\ passed' = passed \cup {array}
                 /\ UNCHANGED pc
              \/ /\ ~EnsureSizeOk(array, length, needed)
                 /\ pc' = "unfit"
                 /\ UNCHANGED <<out, passed>>
    /\ UNCHANGED <<message, msg, pkt>>

(* The assignments in the order of the fields, then publish. *)
WriteAndPublish ==
    /\ pc = "resizing" /\ Unchecked = {}
    /\ out' = [out EXCEPT !.at =
                 [path \in PathsOf(message.fields) |->
                    pkt[CHOOSE i \in DOMAIN pkt :
                          /\ message.fields[i].path = path
                          /\ \A j \in DOMAIN pkt :
                                message.fields[j].path = path => j <= i]]]
    /\ pc' = "published"
    /\ UNCHANGED <<message, msg, passed, pkt>>

BindingsNext ==
    Callback \/ CheckLength \/ FillField \/ SendPacket
    \/ Dispatch \/ EnsureSize \/ WriteAndPublish

BindingsSpec == BindingsInit /\ [][BindingsNext]_bindingsVars

-----------------------------------------------------------------------------
(* The generated code never indexes an array beyond its end: not when it     *)
(* asks an array inside another one for its size, not when it reads the      *)
(* fields, and not when dispatch_packet resizes and writes them.  The checks *)
(* are all that stands between a short ROS message and undefined behaviour.  *)
NeverOutOfBounds ==
    /\ pc = "checking" => \A array \in NextChecks : IsThere(msg.length, array)
    /\ pc = "checking" /\ Unchecked = {} =>
          \A path \in PathsOf(message.fields) : IsThere(msg.length, path)
    /\ pc = "resizing" => \A array \in NextChecks : IsThere(out.length, array)
    /\ pc = "resizing" /\ Unchecked = {} =>
          \A path \in PathsOf(message.fields) : IsThere(out.length, path)

(* The checks ask for no more than the fields need: a message that has every *)
(* element the fields name, with guarded values in range, is sent; and a     *)
(* packet of the right size is published unless a std::array of the ROS type *)
(* can never hold one of the fields.                                         *)
DroppedForCause ==
    /\ pc = "dropped" =>
          \/ \E path \in PathsOf(message.fields) : ~IsThere(msg.length, path)
          \/ \E i \in DOMAIN message.fields :
                /\ NeedsRangeGuard(message, message.fields[i])
                /\ msg.at[message.fields[i].path] \notin 0..ByteValues - 1
    /\ pc = "unfit" =>
          \E path \in PathsOf(message.fields) : \E k \in IndexedAt(path) :
             /\ ArrayAt(path, k) \in DOMAIN Fixed
             /\ Fixed[ArrayAt(path, k)] <= path[k].index

(* A value that is guarded, or whose wire type is as wide as the ROS field,  *)
(* is published at the other end as it was received, at its own path.        *)
RoundTrips ==
    pc = "published" =>
       \A path \in PathsOf(message.fields) :
          (\A i \in DOMAIN message.fields :
              message.fields[i].path = path =>
                 \/ message.fields[i].type = "int32_t"
                 \/ NeedsRangeGuard(message, message.fields[i]))
          => out.at[path] = msg.at[path]

==============================================================================
