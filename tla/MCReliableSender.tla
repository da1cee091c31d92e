-------------------------- MODULE MCReliableSender --------------------------
(* Instances of ReliableSender for TLC. *)
EXTENDS ReliableSender, TLC

CONSTANTS A, B

\* Two ids, two messages of one and one of the other.
MCMaxSend == [k \in Ids |-> IF k = A THEN 2 ELSE 1]

\* Every seq value other than A's first goes to a message of B.
MCWrapSend == [k \in Ids |-> IF k = A THEN 2 ELSE SeqValues - 1]

\* Part of the state space that already holds the wrap of the full 8-bit
\* counter: B is answered before its retry interval is over, and A's frames
\* do not reach the line until every other seq value has been used.
WrapScenario ==
  /\ ~closed
  /\ \A t \in timeouts : t[1] = A
  /\ sent[B] < SeqValues - 1 =>
       \A i \in 1 .. Len(tx_queue) : tx_queue[i].id = B
=============================================================================
