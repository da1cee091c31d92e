--------------------------- MODULE ReliableSender ---------------------------
(***************************************************************************)
(* The reliable channel: ReliableSender (reliable_sender.hpp), the part of *)
(* the SerialController transmit queue it writes through, the serial line, *)
(* and the generated MCU code that delivers a reliable packet and sends    *)
(* back its ACK.                                                           *)
(*                                                                         *)
(* Messages of one packet id are numbered 1, 2, ... in the order in which  *)
(* they are submitted; the number stands for the payload.  All handlers of *)
(* the sender run on one strand, so each handler is one action.            *)
(***************************************************************************)
EXTENDS Naturals, Sequences, FiniteSets, SequencesExt

CONSTANTS
  Ids,            \* packet ids declared reliable in the protocol
  MaxSend,        \* bound: how many messages of each id are submitted
  MaxPending,     \* bound: messages of one id queued at a time
  SeqValues,      \* 2^8 in the code: seq_counter_ is a uint8_t
  GenValues,      \* 2^64 in the code: send_generation is a uint64_t
  WarnThreshold,  \* config::RELIABLE_MAX_RETRIES
  TxCapacity,     \* MAX_TX_QUEUE_SIZE
  ChannelCap,     \* bound: frames (ACKs) the line holds in each direction
  MaxTimeouts,    \* bound: retry handlers waiting for the strand
  MaxFaults,      \* bound: lost frames, lost ACKs and disconnections
  TimerOutlastsRoundTrip  \* the retry interval exceeds a round trip

ASSUME IdsAssumption == MaxSend \in [Ids -> Nat]
ASSUME CounterAssumption == SeqValues \in Nat \ {0} /\ GenValues \in Nat \ {0}
ASSUME ThresholdAssumption == WarnThreshold \in Nat \ {0}
ASSUME BoundAssumption ==
  /\ MaxPending \in Nat
  /\ TxCapacity \in Nat
  /\ ChannelCap \in Nat
  /\ MaxTimeouts \in Nat
  /\ MaxFaults \in Nat
  /\ TimerOutlastsRoundTrip \in BOOLEAN

VARIABLES
  pending,      \* pending_: per id, the deque of PendingEntry
  seq_counter,  \* seq_counter_: one counter for all ids
  timeouts,     \* retry timers that have fired and wait for the strand
  tx_queue,     \* tx_queue_: reliable writes handed to the controller
  front_out,    \* the bytes of the first write have reached the line
  link_up,      \* async_send_impl accepts a reliable frame
  closed,       \* clear_all has run: the node is shutting down
  wire,         \* frames travelling to the MCU
  acks,         \* ACKs travelling back
  last,         \* MCU: number of the last message passed to on_receive_
  sent,         \* history: messages submitted
  popped,       \* history: messages removed after their ACK
  reused,       \* history: a seq was assigned while its own earlier use
                \*          was still in flight
  faults        \* history: how much of MaxFaults is used up

senderVars == <<pending, seq_counter, timeouts, reused>>
txVars == <<tx_queue, front_out, link_up, closed>>
lineVars == <<wire, acks, last>>
countVars == <<sent, popped, faults>>
vars == <<senderVars, txVars, lineVars, countVars>>

Seqs == 0 .. SeqValues - 1
Gens == 0 .. GenValues - 1

Entry == [msg : Nat, expected_seq : Seqs, seq_assigned : BOOLEAN,
          send_generation : Gens, retries_since_warning : 0 .. WarnThreshold - 1,
          send_in_progress : BOOLEAN, awaiting_ack : BOOLEAN,
          timer_armed : BOOLEAN]

NewEntry(m) ==
  [msg |-> m, expected_seq |-> 0, seq_assigned |-> FALSE,
   send_generation |-> 0, retries_since_warning |-> 0,
   send_in_progress |-> FALSE, awaiting_ack |-> FALSE, timer_armed |-> FALSE]

Write == [id : Ids, seq : Seqs, gen : Gens, msg : Nat]
Frame == [id : Ids, seq : Seqs, msg : Nat]
Ack   == [id : Ids, seq : Seqs]

-----------------------------------------------------------------------------
(* What the handlers do to one entry.                                      *)

\* attempt_send up to the call of send_callback_: the seq is assigned once.
Launched(e) ==
  [e EXCEPT !.expected_seq = IF e.seq_assigned THEN @ ELSE seq_counter,
            !.seq_assigned = TRUE,
            !.send_in_progress = TRUE,
            !.send_generation = (@ + 1) % GenValues]

\* Mutant of Completed: no retry is scheduled for a send that failed.
CompletedNoRetry(e, success) ==
  [e EXCEPT !.send_in_progress = FALSE,
            !.awaiting_ack = success,
            !.timer_armed = success]

\* handle_send_completion and schedule_retry, for a completion that is current.
Completed(e, success) ==
  [e EXCEPT !.send_in_progress = FALSE,
            !.awaiting_ack = success,
            !.timer_armed = TRUE]

\* The timer of the entry is no longer armed.
Fired(e) == [e EXCEPT !.timer_armed = FALSE]

\* Mutant of TimedOut: the count of retries is not started again.
TimedOutUncounted(e) ==
  [e EXCEPT !.awaiting_ack = FALSE, !.retries_since_warning = @ + 1]

\* handle_retry_timeout up to its call of attempt_send.
TimedOut(e) ==
  [e EXCEPT !.awaiting_ack = FALSE,
            !.retries_since_warning =
               IF @ + 1 >= WarnThreshold THEN 0 ELSE @ + 1]

\* The queue q with its first entry replaced.
WithFront(q, e) == [q EXCEPT ![1] = e]

\* The completion of write w is current for the queue q of its id.
IsCurrent(w, q) ==
  /\ q # <<>>
  /\ q[1].expected_seq = w.seq
  /\ q[1].send_generation = w.gen

\* Mutant of Accepts: any ACK of the id will do.
AcceptsAnySeq(a, q) == q # <<>> /\ q[1].awaiting_ack

\* Mutant of Accepts: an ACK is taken before the write has completed.
AcceptsEarly(a, q) == q # <<>> /\ q[1].expected_seq = a.seq

\* ACK a matches the first entry of queue q, which waits for it.
Accepts(a, q) ==
  /\ q # <<>>
  /\ q[1].expected_seq = a.seq
  /\ q[1].awaiting_ack

WriteOf(k, e) ==
  [id |-> k, seq |-> e.expected_seq, gen |-> e.send_generation, msg |-> e.msg]

CopyInFlight(k, s, ackq) ==
  \/ \E i \in 1 .. Len(wire) : wire[i].id = k /\ wire[i].seq = s
  \/ \E i \in 1 .. Len(ackq) : ackq[i].id = k /\ ackq[i].seq = s

-----------------------------------------------------------------------------
(* attempt_send on queue q of id k, with ackq the ACKs still travelling.   *)
(* send_callback_ is async_send_impl: it queues the frame, or calls the    *)
(* completion with false before it returns.                                *)

\* Neither of the early returns of attempt_send applies to queue q.
CanAttempt(q) == q # <<>> /\ ~q[1].send_in_progress

NumberFront(k, e, ackq) ==
  /\ seq_counter' = IF e.seq_assigned THEN seq_counter
                                      ELSE (seq_counter + 1) % SeqValues
  /\ reused' = (reused \/ (~e.seq_assigned /\ CopyInFlight(k, seq_counter, ackq)))

QueueAccepts == link_up /\ Len(tx_queue) < TxCapacity

AttemptAccepted(k, q, ackq) ==
  /\ CanAttempt(q)
  /\ QueueAccepts
  /\ NumberFront(k, q[1], ackq)
  /\ pending' = [pending EXCEPT ![k] = WithFront(q, Launched(q[1]))]
  /\ tx_queue' = Append(tx_queue, WriteOf(k, Launched(q[1])))

AttemptRejected(k, q, ackq) ==
  /\ CanAttempt(q)
  /\ ~QueueAccepts
  /\ NumberFront(k, q[1], ackq)
  /\ pending' = [pending EXCEPT
                   ![k] = WithFront(q, Completed(Launched(q[1]), FALSE))]
  /\ UNCHANGED tx_queue

\* Mutant of AttemptSkipped: what the caller did to the queue is lost.
AttemptSkippedEarly(k, q) ==
  /\ ~CanAttempt(q)
  /\ UNCHANGED <<pending, seq_counter, reused, tx_queue>>

AttemptSkipped(k, q) ==
  /\ ~CanAttempt(q)
  /\ pending' = [pending EXCEPT ![k] = q]
  /\ UNCHANGED <<seq_counter, reused, tx_queue>>

AttemptSend(k, q, ackq) ==
  \/ AttemptAccepted(k, q, ackq)
  \/ AttemptRejected(k, q, ackq)
  \/ AttemptSkipped(k, q)

-----------------------------------------------------------------------------
Init ==
  /\ pending = [k \in Ids |-> <<>>]
  /\ seq_counter = 0
  /\ timeouts = {}
  /\ tx_queue = <<>>
  /\ front_out = FALSE
  /\ link_up = FALSE
  /\ closed = FALSE
  /\ wire = <<>>
  /\ acks = <<>>
  /\ last = [k \in Ids |-> 0]
  /\ sent = [k \in Ids |-> 0]
  /\ popped = [k \in Ids |-> 0]
  /\ reused = FALSE
  /\ faults = 0

\* Mutant of Send: the newest message goes first.
SendNewestFirst(k) ==
  /\ ~closed
  /\ sent[k] < MaxSend[k] /\ Len(pending[k]) < MaxPending
  /\ sent' = [sent EXCEPT ![k] = @ + 1]
  /\ AttemptSend(k, <<NewEntry(sent[k] + 1)>> \o pending[k], acks)
  /\ UNCHANGED <<timeouts, front_out, link_up, closed, lineVars, popped, faults>>

\* send: the first entry of a queue is attempted at once, others wait.
Send(k) ==
  /\ ~closed
  /\ sent[k] < MaxSend[k] /\ Len(pending[k]) < MaxPending
  /\ sent' = [sent EXCEPT ![k] = @ + 1]
  /\ LET q == Append(pending[k], NewEntry(sent[k] + 1)) IN
       IF Len(q) = 1
       THEN AttemptSend(k, q, acks)
       ELSE /\ pending' = [pending EXCEPT ![k] = q]
            /\ UNCHANGED <<seq_counter, reused, tx_queue>>
  /\ UNCHANGED <<timeouts, front_out, link_up, closed, lineVars, popped, faults>>

\* The retry timer of the first entry fires: its handler is posted to the
\* strand, from where cancel() can no longer withdraw it.
TimerExpires(k) ==
  /\ pending[k] # <<>>
  /\ pending[k][1].timer_armed
  /\ Cardinality(timeouts) < MaxTimeouts
  /\ TimerOutlastsRoundTrip =>
       ~CopyInFlight(k, pending[k][1].expected_seq, acks)
  /\ timeouts' = timeouts \cup {<<k, pending[k][1].expected_seq>>}
  /\ pending' = [pending EXCEPT ![k] = WithFront(pending[k], Fired(pending[k][1]))]
  /\ UNCHANGED <<seq_counter, reused, txVars, lineVars, countVars>>

\* handle_retry_timeout
RetryTimeout(k, s) ==
  /\ <<k, s>> \in timeouts
  /\ timeouts' = timeouts \ {<<k, s>>}
  /\ IF pending[k] # <<>> /\ pending[k][1].expected_seq = s
     THEN AttemptSend(k, WithFront(pending[k], TimedOut(pending[k][1])), acks)
     ELSE UNCHANGED <<pending, seq_counter, reused, tx_queue>>
  /\ UNCHANGED <<front_out, link_up, closed, lineVars, countVars>>

\* The line takes the bytes of the first write; its completion comes later.
Transmit ==
  /\ tx_queue # <<>> /\ ~front_out
  /\ Len(wire) < ChannelCap
  /\ front_out' = TRUE
  /\ LET w == tx_queue[1] IN
       wire' = Append(wire, [id |-> w.id, seq |-> w.seq, msg |-> w.msg])
  /\ UNCHANGED <<senderVars, tx_queue, link_up, closed, acks, last, countVars>>

\* handle_write without error, and the completion it calls.
WriteDone ==
  /\ tx_queue # <<>> /\ front_out
  /\ LET w == tx_queue[1]
         q == pending[w.id]
     IN  pending' = IF IsCurrent(w, q)
                    THEN [pending EXCEPT
                            ![w.id] = WithFront(q, Completed(q[1], TRUE))]
                    ELSE pending
  /\ tx_queue' = Tail(tx_queue)
  /\ front_out' = FALSE
  /\ UNCHANGED <<seq_counter, timeouts, reused, link_up, closed, lineVars, countVars>>

\* The generated FSM passes the message to the callback, then sends the ACK.
McuReceive ==
  /\ wire # <<>>
  /\ Len(acks) < ChannelCap
  /\ LET f == wire[1] IN
       /\ last' = [last EXCEPT ![f.id] = f.msg]
       /\ acks' = Append(acks, [id |-> f.id, seq |-> f.seq])
  /\ wire' = Tail(wire)
  /\ UNCHANGED <<senderVars, txVars, countVars>>

\* on_ack_received: the matching ACK of a completed write removes the message
\* and starts the next one.
AckAccepted ==
  /\ acks # <<>>
  /\ LET k == acks[1].id IN
       /\ Accepts(acks[1], pending[k])
       /\ popped' = [popped EXCEPT ![k] = @ + 1]
       /\ AttemptSend(k, Tail(pending[k]), Tail(acks))
  /\ acks' = Tail(acks)
  /\ UNCHANGED <<timeouts, front_out, link_up, closed, wire, last, sent, faults>>

AckIgnored ==
  /\ acks # <<>>
  /\ ~Accepts(acks[1], pending[acks[1].id])
  /\ acks' = Tail(acks)
  /\ UNCHANGED <<senderVars, txVars, wire, last, countVars>>

LoseFrame ==
  /\ faults < MaxFaults
  /\ faults' = faults + 1
  /\ \E i \in 1 .. Len(wire) : wire' = RemoveAt(wire, i)
  /\ UNCHANGED <<senderVars, txVars, acks, last, sent, popped>>

LoseAck ==
  /\ faults < MaxFaults
  /\ faults' = faults + 1
  /\ \E i \in 1 .. Len(acks) : acks' = RemoveAt(acks, i)
  /\ UNCHANGED <<senderVars, txVars, wire, last, sent, popped>>

\* Mutant of Failed: reset_serial drops its queue without a word.
FailedSilently(k) == pending[k]

\* The queue of id k after reset_serial has called completion(false) for
\* every write still queued.
Failed(k) ==
  IF \E i \in 1 .. Len(tx_queue) :
        tx_queue[i].id = k /\ IsCurrent(tx_queue[i], pending[k])
  THEN WithFront(pending[k], Completed(pending[k][1], FALSE))
  ELSE pending[k]

\* reset_serial while the node lives: the queues of the sender survive.
LinkDown ==
  /\ link_up
  /\ faults < MaxFaults
  /\ faults' = faults + 1
  /\ link_up' = FALSE
  /\ pending' = [k \in Ids |-> Failed(k)]
  /\ tx_queue' = <<>>
  /\ front_out' = FALSE
  /\ UNCHANGED <<seq_counter, timeouts, reused, closed, lineVars, sent, popped>>

\* Reconnected and, if required, handshake done.
LinkUp ==
  /\ ~link_up /\ ~closed
  /\ link_up' = TRUE
  /\ UNCHANGED <<senderVars, tx_queue, front_out, closed, lineVars, countVars>>

\* Mutant of Shutdown: clear_all is not called.
ShutdownUncleared ==
  /\ ~closed
  /\ closed' = TRUE
  /\ link_up' = FALSE
  /\ pending' = [k \in Ids |-> Failed(k)]
  /\ tx_queue' = <<>>
  /\ front_out' = FALSE
  /\ UNCHANGED <<seq_counter, timeouts, reused, lineVars, countVars>>

\* reset_serial in the destructor: clear_all first, then the completions,
\* which find no entry.
Shutdown ==
  /\ ~closed
  /\ closed' = TRUE
  /\ link_up' = FALSE
  /\ pending' = [k \in Ids |-> <<>>]
  /\ tx_queue' = <<>>
  /\ front_out' = FALSE
  /\ UNCHANGED <<seq_counter, timeouts, reused, lineVars, countVars>>

Next ==
  \/ \E k \in Ids : Send(k)
  \/ \E k \in Ids : TimerExpires(k)
  \/ \E k \in Ids, s \in Seqs : RetryTimeout(k, s)
  \/ Transmit
  \/ WriteDone
  \/ McuReceive
  \/ AckAccepted
  \/ AckIgnored
  \/ LoseFrame
  \/ LoseAck
  \/ LinkDown
  \/ LinkUp
  \/ Shutdown

Spec == Init /\ [][Next]_vars

-----------------------------------------------------------------------------
(* Fairness.  The strand runs every posted handler, the operating system   *)
(* completes every write and fires every timer, the MCU reads its input.   *)
(* A write completes when its last byte is in the driver's buffer, so it   *)
(* cannot come after its frame has left the line for ever.                 *)

WriteDoneFirst(k) ==
  /\ WriteDone
  /\ tx_queue[1].id = k
  /\ CopyInFlight(k, tx_queue[1].seq, acks)

Fairness ==
  /\ WF_vars(Transmit)
  /\ WF_vars(WriteDone)
  /\ WF_vars(McuReceive)
  /\ WF_vars(AckAccepted \/ AckIgnored)
  /\ WF_vars(LinkUp)
  /\ \A k \in Ids : /\ WF_vars(TimerExpires(k))
                    /\ WF_vars(\E s \in Seqs : RetryTimeout(k, s))
                    /\ SF_vars(WriteDoneFirst(k))

FairSpec == Spec /\ Fairness

-----------------------------------------------------------------------------
(* Properties                                                              *)

\* Types of the state; `last', `sent' and `popped' count messages of an id.
TypeOK ==
  /\ pending \in [Ids -> Seq(Entry)]
  /\ seq_counter \in Seqs
  /\ timeouts \subseteq Ids \X Seqs
  /\ tx_queue \in Seq(Write)
  /\ front_out \in BOOLEAN
  /\ link_up \in BOOLEAN
  /\ closed \in BOOLEAN
  /\ wire \in Seq(Frame)
  /\ acks \in Seq(Ack)
  /\ last \in [Ids -> Nat]
  /\ sent \in [Ids -> Nat]
  /\ popped \in [Ids -> Nat]
  /\ reused \in BOOLEAN
  /\ faults \in Nat

\* The promise of README.md ("link-level at-least-once"): a message leaves its
\* queue only after the MCU callback has had it, unless the 8-bit seq has
\* come round to a value that is still in flight for the same id.
AtLeastOnce == ~reused => \A k \in Ids : popped[k] <= last[k]

\* The same promise without the exception, which the wrap of seq_counter_
\* breaks.
AtLeastOnceAlways == \A k \in Ids : popped[k] <= last[k]

\* The first entry of q, the queue of id k, has a write in txq that will call
\* its completion, or a retry that will come (fired: the handlers posted).
HasFuture(k, q, txq, fired) ==
  q # <<>> =>
    IF q[1].send_in_progress
    THEN \E i \in 1 .. Len(txq) : txq[i] = WriteOf(k, q[1])
    ELSE q[1].timer_armed \/ <<k, q[1].expected_seq>> \in fired

\* No message is stranded: neither an early return of a handler nor a
\* completion taken for out of date leaves a queue with nothing to wake it.
NeverStranded == \A k \in Ids : HasFuture(k, pending[k], tx_queue, timeouts)

\* Write w is the latest attempt of the first entry of q, the queue of its id.
IsLatestWrite(w, q) ==
  /\ q # <<>>
  /\ q[1].send_in_progress
  /\ ~q[1].awaiting_ack
  /\ WriteOf(w.id, q[1]) = w

\* Every queued write is current and is the only one of its id: no completion
\* is ever out of date, and no message leaves its queue, or is written a
\* second time, while a write of it is outstanding.
OneCurrentWrite ==
  /\ \A i \in 1 .. Len(tx_queue) :
       IsLatestWrite(tx_queue[i], pending[tx_queue[i].id])
  /\ \A i, j \in 1 .. Len(tx_queue) :
       tx_queue[i].id = tx_queue[j].id => i = j

\* The MCU callback of an id never sees an older message after a newer one:
\* same-id messages are sent one at a time, so retransmissions cannot
\* overtake.
InOrder == [][\A k \in Ids : last'[k] >= last[k]]_vars

\* Every submitted message is in the end acknowledged, across losses and
\* disconnections, unless the node shuts down.
EventuallyAcked ==
  \A k \in Ids : \A n \in 1 .. MaxSend[k] :
    (sent[k] >= n) ~> (closed \/ popped[k] >= n)

-----------------------------------------------------------------------------
(* The inductive invariant behind the safety properties.                   *)

\* The queue of an id holds its unacknowledged messages in order, and only
\* the first has been touched by attempt_send.
QueueShapeOf(k) ==
  /\ popped[k] + Len(pending[k]) <= sent[k]
  /\ ~closed => popped[k] + Len(pending[k]) = sent[k]
  /\ \A i \in 1 .. Len(pending[k]) : pending[k][i].msg = popped[k] + i
  /\ \A i \in 2 .. Len(pending[k]) :
       /\ ~pending[k][i].seq_assigned
       /\ ~pending[k][i].send_in_progress
       /\ ~pending[k][i].awaiting_ack
  /\ pending[k] # <<>> => pending[k][1].seq_assigned

QueueShape == \A k \in Ids : QueueShapeOf(k)

\* The frames of an id on the line carry messages in order, none older than
\* the last one delivered and none beyond the one being sent.
FramesInOrder ==
  /\ \A k \in Ids : last[k] <= popped[k] + 1 /\ last[k] <= sent[k]
  /\ \A i \in 1 .. Len(wire) :
       LET f == wire[i] IN
         /\ last[f.id] <= f.msg
         /\ f.msg <= popped[f.id] + 1
         /\ f.msg <= sent[f.id]
  /\ \A i, j \in 1 .. Len(wire) :
       i < j /\ wire[i].id = wire[j].id => wire[i].msg <= wire[j].msg

\* A frame or an ACK that the first entry of its id takes for its own is one.
SeqsIdentify ==
  ~reused =>
    /\ \A i \in 1 .. Len(wire) :
         LET f == wire[i] IN
           pending[f.id] # <<>> /\ pending[f.id][1].expected_seq = f.seq
             => f.msg = popped[f.id] + 1
    /\ \A i \in 1 .. Len(acks) :
         LET a == acks[i] IN
           pending[a.id] # <<>> /\ pending[a.id][1].expected_seq = a.seq
             => last[a.id] >= popped[a.id] + 1

\* All that is needed to show AtLeastOnce, InOrder, OneCurrentWrite and
\* NeverStranded of the next state.
IndInv ==
  /\ TypeOK
  /\ QueueShape
  /\ OneCurrentWrite
  /\ NeverStranded
  /\ FramesInOrder
  /\ SeqsIdentify
  /\ AtLeastOnce

-----------------------------------------------------------------------------
\* The channel implements its abstract promise as long as no seq is reused
\* while in flight; with more seq values than messages it always does.
Promise == INSTANCE AtLeastOnceFifo WITH
  submitted <- sent, delivered <- last, completed <- popped, stopped <- closed

ImplementsPromise == Promise!Spec

=============================================================================
