-------------------------- MODULE AtLeastOnceFifo --------------------------
(***************************************************************************)
(* What the reliable channel promises its users (README.md, "config"): the *)
(* messages of one id are delivered in the order in which they were        *)
(* submitted, each at least once, and the next one is not delivered before *)
(* the previous one is known to have arrived.  Delivering the current      *)
(* message once more is a stuttering step.                                 *)
(***************************************************************************)
EXTENDS Naturals

CONSTANT Ids

VARIABLES submitted, delivered, completed, stopped

vars == <<submitted, delivered, completed, stopped>>

Init ==
  /\ submitted = [k \in Ids |-> 0]
  /\ delivered = [k \in Ids |-> 0]
  /\ completed = [k \in Ids |-> 0]
  /\ stopped = FALSE

Submit(k) ==
  /\ ~stopped
  /\ submitted' = [submitted EXCEPT ![k] = @ + 1]
  /\ UNCHANGED <<delivered, completed, stopped>>

\* The receiver gets message completed[k] + 1 for the first time.
Deliver(k) ==
  /\ delivered[k] = completed[k]
  /\ delivered[k] < submitted[k]
  /\ delivered' = [delivered EXCEPT ![k] = @ + 1]
  /\ UNCHANGED <<submitted, completed, stopped>>

\* The sender learns that message delivered[k] has arrived.
Complete(k) ==
  /\ ~stopped
  /\ completed[k] < delivered[k]
  /\ completed' = [completed EXCEPT ![k] = @ + 1]
  /\ UNCHANGED <<submitted, delivered, stopped>>

\* The sender gives up everything it holds: the process ends.
Stop ==
  /\ stopped' = TRUE
  /\ UNCHANGED <<submitted, delivered, completed>>

Next ==
  \/ \E k \in Ids : Submit(k) \/ Deliver(k) \/ Complete(k)
  \/ Stop

Spec == Init /\ [][Next]_vars

=============================================================================
