------------------------ MODULE ReliableSenderProofs ------------------------
(***************************************************************************)
(* Theorems about ReliableSender, for every set of ids, every width of the *)
(* sequence number and of the generation, and every bound: its types, and  *)
(* the inductive invariant with the safety properties that follow from it, *)
(* at-least-once delivery, in order, one write at a time, no message       *)
(* stranded.                                                               *)
(***************************************************************************)
EXTENDS ReliableSender, SequenceTheorems, TLAPS

-----------------------------------------------------------------------------
(* The operators on entries and queues.                                    *)

\* A counter that wraps stays within its width.
LEMMA ModRange ==
  ASSUME NEW n \in Nat, NEW m \in Nat \ {0}
  PROVE  n % m \in 0 .. m - 1
  OBVIOUS

\* Counting one message more on either side.
LEMMA CountOne ==
  ASSUME NEW a \in Nat, NEW b \in Nat
  PROVE  /\ a + (b + 1) = a + 1 + b
         /\ a + (b + 1) = a + b + 1
  OBVIOUS

\* Only the empty sequence has length 0.
LEMMA LenZero ==
  ASSUME NEW S, NEW s \in Seq(S)
  PROVE  Len(s) \in Nat /\ (Len(s) = 0 <=> s = <<>>)
  BY EmptySeq

\* A property of the first entry and of all others is one of every entry.
LEMMA FrontOrRest ==
  ASSUME NEW n \in Nat, NEW i \in 1 .. n
  PROVE  i = 1 \/ i \in 2 .. n
  OBVIOUS

\* A freshly submitted entry is well-typed (PendingEntry's initializers).
LEMMA NewEntryType ==
  ASSUME NEW m \in Nat
  PROVE  /\ NewEntry(m) \in Entry
         /\ NewEntry(m).msg = m
         /\ ~NewEntry(m).seq_assigned
         /\ ~NewEntry(m).send_in_progress
         /\ ~NewEntry(m).awaiting_ack
         /\ ~NewEntry(m).timer_armed
  BY CounterAssumption, ThresholdAssumption DEF NewEntry, Entry, Seqs, Gens

\* attempt_send marks the entry as being written and numbers it once.
LEMMA LaunchedProperties ==
  ASSUME NEW e \in Entry, seq_counter \in Seqs
  PROVE  /\ Launched(e) \in Entry
         /\ Launched(e).msg = e.msg
         /\ Launched(e).seq_assigned
         /\ Launched(e).expected_seq
              = IF e.seq_assigned THEN e.expected_seq ELSE seq_counter
         /\ Launched(e).send_in_progress
         /\ Launched(e).awaiting_ack = e.awaiting_ack
  <1> DEFINE g == (e.send_generation + 1) % GenValues
  <1>1. g \in Gens
    <2>1. e.send_generation + 1 \in Nat
      BY CounterAssumption DEF Entry, Gens
    <2> QED
      BY <2>1, ModRange, CounterAssumption DEF Gens
  <1>2. Launched(e) =
          [e EXCEPT !.expected_seq = IF e.seq_assigned THEN @ ELSE seq_counter,
                    !.seq_assigned = TRUE, !.send_in_progress = TRUE,
                    !.send_generation = g]
    BY DEF Launched
  <1> HIDE DEF g
  <1> QED
    BY <1>1, <1>2 DEF Entry

\* A completion ends the write, sets awaiting_ack and arms the timer.
LEMMA CompletedProperties ==
  ASSUME NEW e \in Entry, NEW success \in BOOLEAN
  PROVE  /\ Completed(e, success) \in Entry
         /\ Completed(e, success).msg = e.msg
         /\ Completed(e, success).seq_assigned = e.seq_assigned
         /\ Completed(e, success).expected_seq = e.expected_seq
         /\ Completed(e, success).send_generation = e.send_generation
         /\ ~Completed(e, success).send_in_progress
         /\ Completed(e, success).awaiting_ack = success
         /\ Completed(e, success).timer_armed
  BY DEF Completed, Entry

\* A retry timeout only clears awaiting_ack and counts the retry.
LEMMA TimedOutProperties ==
  ASSUME NEW e \in Entry
  PROVE  /\ TimedOut(e) \in Entry
         /\ TimedOut(e).msg = e.msg
         /\ TimedOut(e).seq_assigned = e.seq_assigned
         /\ TimedOut(e).expected_seq = e.expected_seq
         /\ TimedOut(e).send_generation = e.send_generation
         /\ TimedOut(e).send_in_progress = e.send_in_progress
         /\ TimedOut(e).timer_armed = e.timer_armed
         /\ ~TimedOut(e).awaiting_ack
  <1> DEFINE r == IF e.retries_since_warning + 1 >= WarnThreshold
                    THEN 0 ELSE e.retries_since_warning + 1
  <1>1. r \in 0 .. WarnThreshold - 1
    BY ThresholdAssumption DEF Entry
  <1>2. TimedOut(e) = [e EXCEPT !.awaiting_ack = FALSE,
                                !.retries_since_warning = r]
    BY DEF TimedOut
  <1> HIDE DEF r
  <1> QED
    BY <1>1, <1>2 DEF Entry

\* Replacing the first entry leaves the rest of the queue alone.
LEMMA WithFrontProperties ==
  ASSUME NEW q \in Seq(Entry), q # <<>>, NEW e \in Entry
  PROVE  /\ WithFront(q, e) \in Seq(Entry)
         /\ WithFront(q, e) # <<>>
         /\ Len(WithFront(q, e)) = Len(q)
         /\ WithFront(q, e)[1] = e
         /\ \A i \in 2 .. Len(q) : WithFront(q, e)[i] = q[i]
  BY DEF WithFront

\* A frame, a write or an ACK of a well-typed entry is well-typed.
LEMMA WriteOfType ==
  ASSUME NEW k \in Ids, NEW e \in Entry
  PROVE  WriteOf(k, e) \in Write
  BY DEF WriteOf, Write, Entry

\* The timer firing changes nothing else in the entry.
LEMMA FiredProperties ==
  ASSUME NEW e \in Entry
  PROVE  /\ Fired(e) \in Entry
         /\ Fired(e).msg = e.msg
         /\ Fired(e).seq_assigned = e.seq_assigned
         /\ Fired(e).expected_seq = e.expected_seq
         /\ Fired(e).send_generation = e.send_generation
         /\ Fired(e).send_in_progress = e.send_in_progress
         /\ Fired(e).awaiting_ack = e.awaiting_ack
  BY DEF Fired, Entry

\* Losing element i of a channel keeps the others in their order.
LEMMA RemoveAtProperties ==
  ASSUME NEW S, NEW s \in Seq(S), NEW i \in 1 .. Len(s)
  PROVE  /\ RemoveAt(s, i) \in Seq(S)
         /\ Len(RemoveAt(s, i)) = Len(s) - 1
         /\ \A j \in 1 .. Len(s) - 1 :
              RemoveAt(s, i)[j] = IF j < i THEN s[j] ELSE s[j + 1]
  <1> DEFINE a == SubSeq(s, 1, i - 1)
             b == SubSeq(s, i + 1, Len(s))
  <1>1. /\ a \in Seq(S) /\ Len(a) = i - 1
        /\ \A j \in 1 .. i - 1 : a[j] = s[j]
    BY SubSeqProperties
  <1>2. /\ b \in Seq(S) /\ Len(b) = Len(s) - i
        /\ \A j \in 1 .. Len(s) - i : b[j] = s[i + j]
    BY SubSeqProperties
  <1>3. RemoveAt(s, i) = a \o b
    BY DEF RemoveAt
  <1> HIDE DEF a, b
  <1>4. /\ a \o b \in Seq(S) /\ Len(a \o b) = Len(a) + Len(b)
        /\ \A j \in 1 .. Len(a) + Len(b) :
             (a \o b)[j] = IF j <= Len(a) THEN a[j] ELSE b[j - Len(a)]
    BY <1>1, <1>2, ConcatProperties
  <1>5. Len(a) + Len(b) = Len(s) - 1
    BY <1>1, <1>2
  <1>6. ASSUME NEW j \in 1 .. Len(s) - 1
        PROVE  (a \o b)[j] = IF j < i THEN s[j] ELSE s[j + 1]
    <2>1. CASE j < i
      BY <1>1, <1>4, <1>5, <2>1
    <2>2. CASE ~(j < i)
      <3>1. j - (i - 1) \in 1 .. Len(s) - i
        BY <2>2
      <3>2. b[j - (i - 1)] = s[i + (j - (i - 1))]
        BY <1>2, <3>1
      <3> QED
        BY <1>1, <1>4, <1>5, <2>2, <3>2
    <2> QED
      BY <2>1, <2>2
  <1> QED
    BY <1>3, <1>4, <1>5, <1>6

\* Failing the queued writes changes at most the first entry of a queue.
LEMMA FailedProperties ==
  ASSUME TypeOK, NEW k \in Ids
  PROVE  /\ Failed(k) \in Seq(Entry)
         /\ Len(Failed(k)) = Len(pending[k])
         /\ \A i \in 2 .. Len(pending[k]) : Failed(k)[i] = pending[k][i]
         /\ pending[k] # <<>> =>
              \/ Failed(k)[1] = pending[k][1]
              \/ Failed(k)[1] = Completed(pending[k][1], FALSE)
  <1>1. CASE \E i \in 1 .. Len(tx_queue) :
                tx_queue[i].id = k /\ IsCurrent(tx_queue[i], pending[k])
    <2>1. pending[k] # <<>> /\ pending[k][1] \in Entry
      BY <1>1 DEF IsCurrent, TypeOK
    <2>2. Completed(pending[k][1], FALSE) \in Entry
      BY <2>1, CompletedProperties
    <2>3. Failed(k) = WithFront(pending[k], Completed(pending[k][1], FALSE))
      BY <1>1 DEF Failed
    <2> DEFINE e == Completed(pending[k][1], FALSE)
    <2> HIDE DEF e
    <2>4. /\ WithFront(pending[k], e) \in Seq(Entry)
          /\ Len(WithFront(pending[k], e)) = Len(pending[k])
          /\ WithFront(pending[k], e)[1] = e
          /\ \A i \in 2 .. Len(pending[k]) :
               WithFront(pending[k], e)[i] = pending[k][i]
      BY <2>1, <2>2, WithFrontProperties DEF TypeOK, e
    <2> QED
      BY <2>3, <2>4 DEF e
  <1>2. CASE ~\E i \in 1 .. Len(tx_queue) :
                tx_queue[i].id = k /\ IsCurrent(tx_queue[i], pending[k])
    BY <1>2 DEF Failed, TypeOK
  <1> QED
    BY <1>1, <1>2

-----------------------------------------------------------------------------
(* attempt_send.                                                           *)

\* Numbering the first entry keeps the counter within its width.
LEMMA NumberFrontType ==
  ASSUME TypeOK, NEW k \in Ids, NEW e, NEW ackq, NumberFront(k, e, ackq)
  PROVE  seq_counter' \in Seqs /\ reused' \in BOOLEAN
  <1>1. (seq_counter + 1) % SeqValues \in Seqs
    <2>1. seq_counter + 1 \in Nat
      BY CounterAssumption DEF TypeOK, Seqs
    <2> QED
      BY <2>1, ModRange, CounterAssumption DEF Seqs
  <1>2. seq_counter' \in Seqs
    BY <1>1 DEF NumberFront, TypeOK
  <1>3. reused' \in BOOLEAN
    BY Zenon DEF NumberFront
  <1> QED
    BY <1>2, <1>3

\* Putting a queue in the place of the queue of id k.
LEMMA QueueUpdate ==
  ASSUME pending \in [Ids -> Seq(Entry)], NEW k \in Ids,
         NEW q \in Seq(Entry), pending' = [pending EXCEPT ![k] = q]
  PROVE  /\ pending' \in [Ids -> Seq(Entry)]
         /\ pending'[k] = q
         /\ \A j \in Ids \ {k} : pending'[j] = pending[j]
  OBVIOUS

\* What every outcome of attempt_send has in common: only the first entry of
\* the queue it is called on may change, and that keeps its message.
LEMMA AttemptEffect ==
  ASSUME TypeOK, NEW k \in Ids, NEW q \in Seq(Entry), NEW ackq,
         AttemptSend(k, q, ackq)
  PROVE  /\ pending' \in [Ids -> Seq(Entry)]
         /\ \A j \in Ids \ {k} : pending'[j] = pending[j]
         /\ Len(pending'[k]) = Len(q)
         /\ \A i \in 1 .. Len(q) : pending'[k][i].msg = q[i].msg
         /\ \A i \in 2 .. Len(q) : pending'[k][i] = q[i]
         /\ seq_counter' \in Seqs
         /\ reused' \in BOOLEAN
         /\ tx_queue' \in Seq(Write)
  <1>1. CASE AttemptAccepted(k, q, ackq)
    <2>1. q # <<>> /\ q[1] \in Entry
      BY <1>1 DEF AttemptAccepted, CanAttempt
    <2> DEFINE e == Launched(q[1])
    <2>2. e \in Entry /\ e.msg = q[1].msg
      BY <2>1, LaunchedProperties DEF TypeOK
    <2>3. seq_counter' \in Seqs /\ reused' \in BOOLEAN
      BY <1>1, NumberFrontType DEF AttemptAccepted
    <2>4. tx_queue' \in Seq(Write)
      BY <1>1, <2>2, WriteOfType DEF AttemptAccepted, TypeOK
    <2>5. pending' = [pending EXCEPT ![k] = WithFront(q, e)]
      BY <1>1 DEF AttemptAccepted
    <2> HIDE DEF e
    <2>6. /\ WithFront(q, e) \in Seq(Entry)
          /\ Len(WithFront(q, e)) = Len(q)
          /\ WithFront(q, e)[1] = e
          /\ \A i \in 2 .. Len(q) : WithFront(q, e)[i] = q[i]
      BY <2>1, <2>2, WithFrontProperties
    <2>7. \A i \in 1 .. Len(q) : WithFront(q, e)[i].msg = q[i].msg
      BY <2>2, <2>6
    <2> QED
      BY <2>3, <2>4, <2>5, <2>6, <2>7, QueueUpdate DEF TypeOK
  <1>2. CASE AttemptRejected(k, q, ackq)
    <2>1. q # <<>> /\ q[1] \in Entry
      BY <1>2 DEF AttemptRejected, CanAttempt
    <2> DEFINE e == Completed(Launched(q[1]), FALSE)
    <2>2. e \in Entry /\ e.msg = q[1].msg
      <3>1. /\ Launched(q[1]) \in Entry
            /\ Launched(q[1]).msg = q[1].msg
        BY <2>1, LaunchedProperties DEF TypeOK
      <3> QED
        BY <3>1, CompletedProperties
    <2>3. seq_counter' \in Seqs /\ reused' \in BOOLEAN
      BY <1>2, NumberFrontType DEF AttemptRejected
    <2>4. tx_queue' \in Seq(Write)
      BY <1>2 DEF AttemptRejected, TypeOK
    <2>5. pending' = [pending EXCEPT ![k] = WithFront(q, e)]
      BY <1>2 DEF AttemptRejected
    <2> HIDE DEF e
    <2>6. /\ WithFront(q, e) \in Seq(Entry)
          /\ Len(WithFront(q, e)) = Len(q)
          /\ WithFront(q, e)[1] = e
          /\ \A i \in 2 .. Len(q) : WithFront(q, e)[i] = q[i]
      BY <2>1, <2>2, WithFrontProperties
    <2>7. \A i \in 1 .. Len(q) : WithFront(q, e)[i].msg = q[i].msg
      BY <2>2, <2>6
    <2> QED
      BY <2>3, <2>4, <2>5, <2>6, <2>7, QueueUpdate DEF TypeOK
  <1>3. CASE AttemptSkipped(k, q)
    BY <1>3 DEF AttemptSkipped, TypeOK
  <1> QED
    BY <1>1, <1>2, <1>3 DEF AttemptSend

-----------------------------------------------------------------------------
(* Type correctness.                                                       *)

\* The state keeps its types, whatever the handlers and the line do.
THEOREM TypeCorrect == Spec => []TypeOK
  <1>1. Init => TypeOK
    <2>1. /\ <<>> \in Seq(Entry) /\ <<>> \in Seq(Write)
          /\ <<>> \in Seq(Frame) /\ <<>> \in Seq(Ack)
      BY EmptySeq
    <2>2. 0 \in Seqs
      BY CounterAssumption DEF Seqs
    <2> SUFFICES ASSUME Init PROVE TypeOK
      OBVIOUS
    <2>3. /\ pending \in [Ids -> Seq(Entry)]
          /\ tx_queue \in Seq(Write)
          /\ wire \in Seq(Frame)
          /\ acks \in Seq(Ack)
      BY <2>1 DEF Init
    <2>4. /\ last \in [Ids -> Nat]
          /\ sent \in [Ids -> Nat]
          /\ popped \in [Ids -> Nat]
      BY DEF Init
    <2> QED
      BY <2>2, <2>3, <2>4 DEF Init, TypeOK
  <1>2. TypeOK /\ [Next]_vars => TypeOK'
    <2> SUFFICES ASSUME TypeOK, [Next]_vars
                 PROVE  TypeOK'
      OBVIOUS
    <2>1. ASSUME NEW k \in Ids, Send(k)
          PROVE  TypeOK'
      <3> DEFINE q == Append(pending[k], NewEntry(sent[k] + 1))
      <3>1. NewEntry(sent[k] + 1) \in Entry
        BY NewEntryType DEF TypeOK
      <3>2. q \in Seq(Entry)
        BY <3>1 DEF TypeOK
      <3>3. CASE Len(q) = 1
        <4>1. AttemptSend(k, q, acks)
          BY <2>1, <3>3 DEF Send
        <4> HIDE DEF q
        <4> QED
          BY <2>1, <3>2, <4>1, AttemptEffect
          DEF Send, TypeOK, lineVars
      <3>4. CASE Len(q) # 1
        <4>1. /\ pending' = [pending EXCEPT ![k] = q]
              /\ UNCHANGED <<seq_counter, reused, tx_queue>>
          BY <2>1, <3>4 DEF Send
        <4> HIDE DEF q
        <4> QED
          BY <2>1, <3>2, <4>1 DEF Send, TypeOK, lineVars
      <3> QED
        BY <3>3, <3>4
    <2>2. ASSUME NEW k \in Ids, TimerExpires(k)
          PROVE  TypeOK'
      <3>1. pending[k] # <<>> /\ pending[k][1] \in Entry
        BY <2>2 DEF TimerExpires, TypeOK
      <3>2. WithFront(pending[k], Fired(pending[k][1])) \in Seq(Entry)
        BY <3>1, FiredProperties, WithFrontProperties DEF TypeOK
      <3>3. <<k, pending[k][1].expected_seq>> \in Ids \X Seqs
        BY <3>1 DEF Entry
      <3> QED
        BY <2>2, <3>2, <3>3
        DEF TimerExpires, TypeOK, txVars, lineVars, countVars
    <2>3. ASSUME NEW k \in Ids, NEW s \in Seqs, RetryTimeout(k, s)
          PROVE  TypeOK'
      <3>1. timeouts' \subseteq Ids \X Seqs
        BY <2>3 DEF RetryTimeout, TypeOK
      <3>2. CASE pending[k] # <<>> /\ pending[k][1].expected_seq = s
        <4> DEFINE q == WithFront(pending[k], TimedOut(pending[k][1]))
        <4>1. pending[k][1] \in Entry
          BY <3>2 DEF TypeOK
        <4>2. q \in Seq(Entry)
          BY <3>2, <4>1, TimedOutProperties, WithFrontProperties DEF TypeOK
        <4>3. AttemptSend(k, q, acks)
          BY <2>3, <3>2 DEF RetryTimeout
        <4> HIDE DEF q
        <4> QED
          BY <2>3, <3>1, <4>2, <4>3, AttemptEffect
          DEF RetryTimeout, TypeOK, lineVars, countVars
      <3>3. CASE ~(pending[k] # <<>> /\ pending[k][1].expected_seq = s)
        BY <2>3, <3>1, <3>3 DEF RetryTimeout, TypeOK, lineVars, countVars
      <3> QED
        BY <3>2, <3>3
    <2>4. CASE Transmit
      <3>1. tx_queue[1] \in Write
        BY <2>4 DEF Transmit, TypeOK
      <3>2. [id |-> tx_queue[1].id, seq |-> tx_queue[1].seq,
             msg |-> tx_queue[1].msg] \in Frame
        BY <3>1 DEF Write, Frame
      <3> QED
        BY <2>4, <3>2 DEF Transmit, TypeOK, senderVars, countVars
    <2>5. CASE WriteDone
      <3> DEFINE w == tx_queue[1]
                 q == pending[w.id]
      <3>1. w \in Write
        BY <2>5 DEF WriteDone, TypeOK
      <3>1a. w.id \in Ids
        BY <3>1 DEF Write
      <3>1b. q \in Seq(Entry)
        BY <3>1a DEF TypeOK
      <3>2. pending' \in [Ids -> Seq(Entry)]
        <4>1. CASE IsCurrent(w, q)
          <5>1. q # <<>> /\ q[1] \in Entry
            BY <3>1b, <4>1 DEF IsCurrent
          <5>2. WithFront(q, Completed(q[1], TRUE)) \in Seq(Entry)
            BY <3>1b, <5>1, CompletedProperties, WithFrontProperties
          <5> QED
            BY <2>5, <3>1a, <4>1, <5>2 DEF WriteDone, TypeOK
        <4>2. CASE ~IsCurrent(w, q)
          BY <2>5, <4>2 DEF WriteDone, TypeOK
        <4> QED
          BY <4>1, <4>2
      <3>4. tx_queue' \in Seq(Write)
        BY <2>5 DEF WriteDone, TypeOK
      <3> QED
        BY <2>5, <3>2, <3>4 DEF WriteDone, TypeOK, lineVars, countVars
    <2>6. CASE McuReceive
      <3>1. wire[1] \in Frame
        BY <2>6 DEF McuReceive, TypeOK
      <3>2. /\ wire[1].id \in Ids
            /\ wire[1].msg \in Nat
            /\ [id |-> wire[1].id, seq |-> wire[1].seq] \in Ack
        BY <3>1 DEF Frame, Ack
      <3> QED
        BY <2>6, <3>2 DEF McuReceive, TypeOK, senderVars, txVars, countVars
    <2>7. CASE AckAccepted
      <3> DEFINE k == acks[1].id
                 q == Tail(pending[k])
      <3>1. k \in Ids
        <4>1. acks[1] \in Ack
          BY <2>7 DEF AckAccepted, TypeOK
        <4> QED
          BY <4>1 DEF Ack
      <3>2. pending[k] # <<>>
        BY <2>7 DEF AckAccepted, Accepts
      <3>3. q \in Seq(Entry)
        BY <3>1, <3>2 DEF TypeOK
      <3>4. AttemptSend(k, q, Tail(acks))
        BY <2>7 DEF AckAccepted
      <3>5. acks' \in Seq(Ack) /\ popped' \in [Ids -> Nat]
        BY <2>7, <3>1 DEF AckAccepted, TypeOK
      <3>6. /\ pending' \in [Ids -> Seq(Entry)]
            /\ seq_counter' \in Seqs
            /\ reused' \in BOOLEAN
            /\ tx_queue' \in Seq(Write)
        <4> HIDE DEF k, q
        <4> QED
          BY <3>1, <3>3, <3>4, AttemptEffect
      <3> QED
        BY <2>7, <3>5, <3>6 DEF AckAccepted, TypeOK
    <2>8. CASE AckIgnored
      BY <2>8 DEF AckIgnored, TypeOK, senderVars, txVars, countVars
    <2>9. CASE LoseFrame
      <3>1. PICK i \in 1 .. Len(wire) : wire' = RemoveAt(wire, i)
        BY <2>9 DEF LoseFrame
      <3>2. wire' \in Seq(Frame)
        BY <3>1, RemoveAtProperties DEF TypeOK
      <3> QED
        BY <2>9, <3>2 DEF LoseFrame, TypeOK, senderVars, txVars
    <2>10. CASE LoseAck
      <3>1. PICK i \in 1 .. Len(acks) : acks' = RemoveAt(acks, i)
        BY <2>10 DEF LoseAck
      <3>2. acks' \in Seq(Ack)
        BY <3>1, RemoveAtProperties DEF TypeOK
      <3> QED
        BY <2>10, <3>2 DEF LoseAck, TypeOK, senderVars, txVars
    <2>11. CASE LinkDown
      <3>1. ASSUME NEW k \in Ids
            PROVE  Failed(k) \in Seq(Entry)
        BY FailedProperties
      <3>2. pending' \in [Ids -> Seq(Entry)]
        BY <2>11, <3>1 DEF LinkDown
      <3>3. tx_queue' \in Seq(Write)
        BY <2>11, EmptySeq DEF LinkDown
      <3>4. UNCHANGED <<seq_counter, timeouts, reused, closed, wire, acks, last,
                        sent, popped>>
        BY <2>11 DEF LinkDown, lineVars
      <3>5. faults' \in Nat
        <4>1. faults' = faults + 1
          BY <2>11 DEF LinkDown
        <4> QED
          BY <4>1 DEF TypeOK
      <3>6. link_up' = FALSE /\ front_out' = FALSE
        BY <2>11 DEF LinkDown
      <3> QED
        BY <3>2, <3>3, <3>4, <3>5, <3>6 DEF TypeOK
    <2>12. CASE LinkUp
      BY <2>12 DEF LinkUp, TypeOK, senderVars, lineVars, countVars
    <2>13. CASE Shutdown
      <3>1. <<>> \in Seq(Entry) /\ <<>> \in Seq(Write)
        BY EmptySeq
      <3> QED
        BY <2>13, <3>1 DEF Shutdown, TypeOK, lineVars, countVars
    <2>14. CASE UNCHANGED vars
      BY <2>14 DEF vars, senderVars, txVars, lineVars, countVars, TypeOK
    <2> QED
      BY <2>1, <2>2, <2>3, <2>4, <2>5, <2>6, <2>7, <2>8, <2>9, <2>10, <2>11,
         <2>12, <2>13, <2>14 DEF Next
  <1> QED
    BY <1>1, <1>2, PTL DEF Spec

-----------------------------------------------------------------------------
(* The inductive invariant.                                                *)

\* What attempt_send does to the first entry when it really attempts: it
\* keeps the message, numbers it if it had no seq, and either queues a write
\* for it or completes the attempt with failure and arms the timer.
Attempted(k, q, ackq) ==
  LET e == pending'[k][1] IN
    /\ e.msg = q[1].msg
    /\ e.seq_assigned
    /\ q[1].seq_assigned => e.expected_seq = q[1].expected_seq /\ reused' = reused
    /\ ~q[1].seq_assigned /\ ~reused' =>
         ~reused /\ ~CopyInFlight(k, e.expected_seq, ackq)
    /\ \/ /\ tx_queue' = Append(tx_queue, WriteOf(k, e))
          /\ e.send_in_progress
          /\ e.awaiting_ack = q[1].awaiting_ack
       \/ /\ tx_queue' = tx_queue
          /\ ~e.send_in_progress
          /\ ~e.awaiting_ack
          /\ e.timer_armed

\* attempt_send either returns early or attempts the first entry.
LEMMA AttemptOutcome ==
  ASSUME TypeOK, NEW k \in Ids, NEW q \in Seq(Entry), NEW ackq,
         AttemptSend(k, q, ackq)
  PROVE  \/ /\ ~CanAttempt(q)
            /\ pending'[k] = q
            /\ UNCHANGED <<seq_counter, reused, tx_queue>>
         \/ /\ CanAttempt(q)
            /\ Attempted(k, q, ackq)
  <1>1. CASE AttemptAccepted(k, q, ackq)
    <2>1. CanAttempt(q) /\ q # <<>> /\ q[1] \in Entry
      BY <1>1 DEF AttemptAccepted, CanAttempt
    <2> DEFINE e == Launched(q[1])
    <2>2. /\ e \in Entry /\ e.msg = q[1].msg /\ e.seq_assigned
          /\ e.expected_seq = IF q[1].seq_assigned THEN q[1].expected_seq
                                                   ELSE seq_counter
          /\ e.send_in_progress
          /\ e.awaiting_ack = q[1].awaiting_ack
      BY <2>1, LaunchedProperties DEF TypeOK
    <2>3. /\ NumberFront(k, q[1], ackq)
          /\ pending' = [pending EXCEPT ![k] = WithFront(q, e)]
          /\ tx_queue' = Append(tx_queue, WriteOf(k, e))
      BY <1>1 DEF AttemptAccepted
    <2> HIDE DEF e
    <2>4. WithFront(q, e)[1] = e /\ WithFront(q, e) \in Seq(Entry)
      BY <2>1, <2>2, WithFrontProperties
    <2>5. pending'[k][1] = e
      BY <2>3, <2>4, QueueUpdate DEF TypeOK
    <2>6. /\ q[1].seq_assigned => reused' = reused
          /\ ~q[1].seq_assigned /\ ~reused' =>
               ~reused /\ ~CopyInFlight(k, seq_counter, ackq)
      <3>1. reused' = (reused \/ (~q[1].seq_assigned
                                   /\ CopyInFlight(k, seq_counter, ackq)))
        BY <2>3 DEF NumberFront
      <3>2. reused \in BOOLEAN
        BY DEF TypeOK
      <3> QED
        BY <3>1, <3>2, Zenon
    <2> QED
      BY <2>1, <2>2, <2>3, <2>5, <2>6 DEF Attempted
  <1>2. CASE AttemptRejected(k, q, ackq)
    <2>1. CanAttempt(q) /\ q # <<>> /\ q[1] \in Entry
      BY <1>2 DEF AttemptRejected, CanAttempt
    <2> DEFINE e == Completed(Launched(q[1]), FALSE)
    <2>2. /\ e \in Entry /\ e.msg = q[1].msg /\ e.seq_assigned
          /\ e.expected_seq = IF q[1].seq_assigned THEN q[1].expected_seq
                                                   ELSE seq_counter
          /\ ~e.send_in_progress
          /\ ~e.awaiting_ack
          /\ e.timer_armed
      <3>1. /\ Launched(q[1]) \in Entry
            /\ Launched(q[1]).msg = q[1].msg
            /\ Launched(q[1]).seq_assigned
            /\ Launched(q[1]).expected_seq
                 = IF q[1].seq_assigned THEN q[1].expected_seq ELSE seq_counter
        BY <2>1, LaunchedProperties DEF TypeOK
      <3> QED
        BY <3>1, CompletedProperties
    <2>3. /\ NumberFront(k, q[1], ackq)
          /\ pending' = [pending EXCEPT ![k] = WithFront(q, e)]
          /\ tx_queue' = tx_queue
      BY <1>2 DEF AttemptRejected
    <2> HIDE DEF e
    <2>4. WithFront(q, e)[1] = e /\ WithFront(q, e) \in Seq(Entry)
      BY <2>1, <2>2, WithFrontProperties
    <2>5. pending'[k][1] = e
      BY <2>3, <2>4, QueueUpdate DEF TypeOK
    <2>6. /\ q[1].seq_assigned => reused' = reused
          /\ ~q[1].seq_assigned /\ ~reused' =>
               ~reused /\ ~CopyInFlight(k, seq_counter, ackq)
      <3>1. reused' = (reused \/ (~q[1].seq_assigned
                                   /\ CopyInFlight(k, seq_counter, ackq)))
        BY <2>3 DEF NumberFront
      <3>2. reused \in BOOLEAN
        BY DEF TypeOK
      <3> QED
        BY <3>1, <3>2, Zenon
    <2> QED
      BY <2>1, <2>2, <2>3, <2>5, <2>6 DEF Attempted
  <1>3. CASE AttemptSkipped(k, q)
    BY <1>3 DEF AttemptSkipped, TypeOK
  <1> QED
    BY <1>1, <1>2, <1>3 DEF AttemptSend

\* The steps of a handler that only touch the first entry of queue k.
LEMMA FrontKeepsShape ==
  ASSUME TypeOK, TypeOK', NEW k \in Ids, QueueShapeOf(k),
         Len(pending'[k]) = Len(pending[k]),
         \A i \in 1 .. Len(pending[k]) : pending'[k][i].msg = pending[k][i].msg,
         \A i \in 2 .. Len(pending[k]) : pending'[k][i] = pending[k][i],
         pending[k] # <<>> => pending'[k][1].seq_assigned,
         UNCHANGED <<popped, sent, closed>>
  PROVE  QueueShapeOf(k)'
  <1>1. pending[k] \in Seq(Entry) /\ pending'[k] \in Seq(Entry)
    BY DEF TypeOK
  <1>2. (pending[k] # <<>>)' => pending[k] # <<>>
    BY <1>1
  <1> QED
    BY <1>1, <1>2 DEF QueueShapeOf

\* The queue that the new message of id k joins.
LEMMA AppendKeepsShape ==
  ASSUME TypeOK, NEW k \in Ids, QueueShapeOf(k), ~closed,
         NEW q, q = Append(pending[k], NewEntry(sent[k] + 1))
  PROVE  /\ q \in Seq(Entry)
         /\ Len(q) = Len(pending[k]) + 1
         /\ popped[k] + Len(q) = sent[k] + 1
         /\ \A i \in 1 .. Len(q) : q[i].msg = popped[k] + i
         /\ \A i \in 2 .. Len(q) :
              ~q[i].seq_assigned /\ ~q[i].send_in_progress /\ ~q[i].awaiting_ack
         /\ pending[k] # <<>> => q[1] = pending[k][1]
         /\ pending[k] = <<>> => q[1] = NewEntry(sent[k] + 1)
  <1> DEFINE n == NewEntry(sent[k] + 1)
  <1>1. /\ pending[k] \in Seq(Entry)
        /\ sent[k] \in Nat
        /\ popped[k] \in Nat
    BY DEF TypeOK
  <1>2. /\ n \in Entry /\ n.msg = sent[k] + 1
        /\ ~n.seq_assigned /\ ~n.send_in_progress /\ ~n.awaiting_ack
    BY <1>1, NewEntryType
  <1>3. /\ q \in Seq(Entry)
        /\ Len(q) = Len(pending[k]) + 1
        /\ \A i \in 1 .. Len(pending[k]) : q[i] = pending[k][i]
        /\ q[Len(pending[k]) + 1] = n
    BY <1>1, <1>2, AppendProperties
  <1> HIDE DEF n
  <1>4. popped[k] + Len(pending[k]) = sent[k]
    BY DEF QueueShapeOf
  <1>5. Len(pending[k]) \in Nat
    BY <1>1
  <1>6. ASSUME NEW i \in 1 .. Len(q)
        PROVE  q[i].msg = popped[k] + i
    <2>1. CASE i = Len(pending[k]) + 1
      <3>1. popped[k] + (Len(pending[k]) + 1) = sent[k] + 1
        BY <1>1, <1>4, <1>5
      <3>2. q[i].msg = sent[k] + 1
        BY <1>2, <1>3, <2>1
      <3> QED
        BY <2>1, <3>1, <3>2
    <2>2. CASE i # Len(pending[k]) + 1
      <3>1. i \in 1 .. Len(pending[k])
        BY <1>3, <1>5, <2>2
      <3> QED
        BY <1>3, <3>1 DEF QueueShapeOf
    <2> QED
      BY <2>1, <2>2
  <1>7. ASSUME NEW i \in 2 .. Len(q)
        PROVE  ~q[i].seq_assigned /\ ~q[i].send_in_progress /\ ~q[i].awaiting_ack
    <2>1. CASE i = Len(pending[k]) + 1
      BY <1>2, <1>3, <2>1
    <2>2. CASE i # Len(pending[k]) + 1
      <3>1. i \in 2 .. Len(pending[k])
        BY <1>3, <1>5, <2>2
      <3> QED
        BY <1>3, <3>1 DEF QueueShapeOf
    <2> QED
      BY <2>1, <2>2
  <1>8. /\ pending[k] # <<>> => q[1] = pending[k][1]
        /\ pending[k] = <<>> => q[1] = n
    BY <1>1, <1>3
  <1>9. popped[k] + Len(q) = sent[k] + 1
    <2>1. popped[k] + (Len(pending[k]) + 1) = popped[k] + Len(pending[k]) + 1
      BY <1>1, <1>5, CountOne
    <2> QED
      BY <1>3, <1>4, <2>1
  <1> HIDE DEF n
  <1>10. /\ q \in Seq(Entry)
         /\ Len(q) = Len(pending[k]) + 1
    BY <1>3
  <1>11. /\ pending[k] # <<>> => q[1] = pending[k][1]
         /\ pending[k] = <<>> => q[1] = NewEntry(sent[k] + 1)
    BY <1>8 DEF n
  <1> QED
    BY <1>6, <1>7, <1>9, <1>10, <1>11

\* The queue that is left when the first message of id k is acknowledged.
LEMMA TailKeepsShape ==
  ASSUME TypeOK, NEW k \in Ids, QueueShapeOf(k), pending[k] # <<>>,
         NEW q, q = Tail(pending[k])
  PROVE  /\ q \in Seq(Entry)
         /\ Len(q) = Len(pending[k]) - 1
         /\ \A i \in 1 .. Len(q) : q[i].msg = popped[k] + 1 + i
         /\ \A i \in 1 .. Len(q) :
              ~q[i].seq_assigned /\ ~q[i].send_in_progress /\ ~q[i].awaiting_ack
  <1>1. pending[k] \in Seq(Entry) /\ popped[k] \in Nat
    BY DEF TypeOK
  <1>2. /\ q \in Seq(Entry)
        /\ Len(q) = Len(pending[k]) - 1
        /\ \A i \in 1 .. Len(q) : q[i] = pending[k][i + 1]
    BY <1>1, HeadTailProperties
  <1>3. ASSUME NEW i \in 1 .. Len(q)
        PROVE  /\ i + 1 \in 2 .. Len(pending[k])
               /\ i + 1 \in 1 .. Len(pending[k])
               /\ popped[k] + (i + 1) = popped[k] + 1 + i
    <2>1. Len(pending[k]) \in Nat /\ i \in Nat
      BY <1>1, <1>2
    <2>2. Len(q) = Len(pending[k]) - 1 /\ i <= Len(q) /\ 1 <= i
      BY <1>2, <2>1
    <2>3. i + 1 \in 2 .. Len(pending[k]) /\ i + 1 \in 1 .. Len(pending[k])
      BY <2>1, <2>2
    <2>4. popped[k] + (i + 1) = popped[k] + 1 + i
      BY <1>1, <2>1, CountOne
    <2> QED
      BY <2>3, <2>4
  <1> QED
    BY <1>2, <1>3 DEF QueueShapeOf

\* A queue that a step does not concern.
LEMMA OtherKeepsShape ==
  ASSUME NEW k \in Ids, QueueShapeOf(k),
         pending'[k] = pending[k], popped'[k] = popped[k], sent'[k] = sent[k],
         UNCHANGED closed
  PROVE  QueueShapeOf(k)'
  BY DEF QueueShapeOf

\* send, with the attempt that follows when the queue was empty.
LEMMA SendShape ==
  ASSUME TypeOK, TypeOK', QueueShape, NEW k \in Ids, Send(k)
  PROVE  QueueShape'
  <1> DEFINE q == Append(pending[k], NewEntry(sent[k] + 1))
  <1>1. /\ ~closed
        /\ sent' = [sent EXCEPT ![k] = @ + 1]
        /\ UNCHANGED <<popped, closed>>
    BY DEF Send
  <1>2. /\ q \in Seq(Entry)
        /\ Len(q) = Len(pending[k]) + 1
        /\ popped[k] + Len(q) = sent[k] + 1
        /\ \A i \in 1 .. Len(q) : q[i].msg = popped[k] + i
        /\ \A i \in 2 .. Len(q) :
             ~q[i].seq_assigned /\ ~q[i].send_in_progress /\ ~q[i].awaiting_ack
        /\ pending[k] # <<>> => q[1] = pending[k][1]
        /\ pending[k] = <<>> => q[1] = NewEntry(sent[k] + 1)
    BY <1>1, AppendKeepsShape DEF QueueShape
  <1>3. IF Len(q) = 1
        THEN AttemptSend(k, q, acks)
        ELSE /\ pending' = [pending EXCEPT ![k] = q]
             /\ UNCHANGED <<seq_counter, reused, tx_queue>>
    BY DEF Send
  <1>4. NewEntry(sent[k] + 1).send_in_progress = FALSE
    BY DEF NewEntry
  <1>5. Len(pending[k]) \in Nat
    BY DEF TypeOK
  <1> HIDE DEF q
  <1>6. /\ \A j \in Ids \ {k} : pending'[j] = pending[j]
        /\ Len(pending'[k]) = Len(q)
        /\ \A i \in 1 .. Len(q) : pending'[k][i].msg = q[i].msg
        /\ \A i \in 2 .. Len(q) : pending'[k][i] = q[i]
        /\ pending'[k][1].seq_assigned
    <2>1. CASE Len(q) = 1
      <3>1. /\ \A j \in Ids \ {k} : pending'[j] = pending[j]
            /\ Len(pending'[k]) = Len(q)
            /\ \A i \in 1 .. Len(q) : pending'[k][i].msg = q[i].msg
            /\ \A i \in 2 .. Len(q) : pending'[k][i] = q[i]
        BY <1>2, <1>3, <2>1, AttemptEffect
      <3>2. CanAttempt(q)
        <4>1. q # <<>>
          BY <2>1, <1>2, LenZero
        <4>2. pending[k] = <<>>
          <5>1. Len(pending[k]) = 0
            BY <1>2, <1>5, <2>1
          <5> QED
            BY <5>1, LenZero DEF TypeOK
        <4> QED
          BY <4>1, <4>2, <1>2, <1>4 DEF CanAttempt
      <3>3. Attempted(k, q, acks)
        BY <1>2, <1>3, <2>1, <3>2, AttemptOutcome
      <3> QED
        BY <3>1, <3>3 DEF Attempted
    <2>2. CASE Len(q) # 1
      <3>1. pending' = [pending EXCEPT ![k] = q]
        BY <1>3, <2>2
      <3>2. pending[k] # <<>>
        <4>1. Len(pending[k]) # 0
          BY <1>2, <2>2
        <4> QED
          BY <4>1, EmptySeq
      <3>3. pending'[k] = q /\ \A j \in Ids \ {k} : pending'[j] = pending[j]
        BY <3>1, <1>2, QueueUpdate DEF TypeOK
      <3>4. q[1].seq_assigned
        BY <3>2, <1>2 DEF QueueShape, QueueShapeOf
      <3> QED
        BY <3>3, <3>4
    <2> QED
      BY <2>1, <2>2
  <1>7. QueueShapeOf(k)'
    <2>1. sent'[k] = sent[k] + 1 /\ popped'[k] = popped[k] /\ closed' = closed
      BY <1>1 DEF TypeOK
    <2>2. popped[k] + Len(pending'[k]) = sent'[k]
      BY <1>2, <1>6, <2>1
    <2>3. sent'[k] \in Nat
      BY DEF TypeOK
    <2>4. \A i \in 1 .. Len(pending'[k]) : pending'[k][i].msg = popped[k] + i
      BY <1>2, <1>6
    <2>5. \A i \in 2 .. Len(pending'[k]) :
             /\ ~pending'[k][i].seq_assigned
             /\ ~pending'[k][i].send_in_progress
             /\ ~pending'[k][i].awaiting_ack
      BY <1>2, <1>6
    <2> QED
      BY <1>6, <2>1, <2>2, <2>3, <2>4, <2>5 DEF QueueShapeOf
  <1>8. ASSUME NEW j \in Ids \ {k}
        PROVE  QueueShapeOf(j)'
    BY <1>1, <1>6, OtherKeepsShape DEF QueueShape, TypeOK
  <1> QED
    BY <1>7, <1>8 DEF QueueShape

\* handle_retry_timeout.
LEMMA RetryShape ==
  ASSUME TypeOK, TypeOK', QueueShape,
         NEW k \in Ids, NEW s \in Seqs, RetryTimeout(k, s)
  PROVE  QueueShape'
  <1>1. UNCHANGED <<popped, sent, closed>>
    BY DEF RetryTimeout, countVars
  <1>2. CASE pending[k] # <<>> /\ pending[k][1].expected_seq = s
    <2> DEFINE q == WithFront(pending[k], TimedOut(pending[k][1]))
    <2>1. /\ pending[k] \in Seq(Entry)
          /\ pending[k][1] \in Entry
          /\ pending[k][1].seq_assigned
      BY <1>2 DEF TypeOK, QueueShape, QueueShapeOf
    <2>2. /\ TimedOut(pending[k][1]) \in Entry
          /\ TimedOut(pending[k][1]).msg = pending[k][1].msg
          /\ TimedOut(pending[k][1]).seq_assigned
      BY <2>1, TimedOutProperties
    <2>3. /\ q \in Seq(Entry) /\ q # <<>>
          /\ Len(q) = Len(pending[k])
          /\ q[1] = TimedOut(pending[k][1])
          /\ \A i \in 2 .. Len(pending[k]) : q[i] = pending[k][i]
      BY <1>2, <2>1, <2>2, WithFrontProperties
    <2>4. AttemptSend(k, q, acks)
      BY <1>2 DEF RetryTimeout
    <2> HIDE DEF q
    <2>5. /\ \A j \in Ids \ {k} : pending'[j] = pending[j]
          /\ Len(pending'[k]) = Len(q)
          /\ \A i \in 1 .. Len(q) : pending'[k][i].msg = q[i].msg
          /\ \A i \in 2 .. Len(q) : pending'[k][i] = q[i]
      BY <2>3, <2>4, AttemptEffect
    <2>6. pending'[k][1].seq_assigned
      BY <2>2, <2>3, <2>4, AttemptOutcome DEF Attempted
    <2>7. \A i \in 1 .. Len(q) : q[i].msg = pending[k][i].msg
      BY <2>2, <2>3
    <2>8. QueueShapeOf(k)'
      <3>1. /\ Len(pending'[k]) = Len(pending[k])
            /\ \A i \in 1 .. Len(pending[k]) :
                 pending'[k][i].msg = pending[k][i].msg
            /\ \A i \in 2 .. Len(pending[k]) : pending'[k][i] = pending[k][i]
        BY <2>3, <2>5, <2>7
      <3> QED
        BY <3>1, <1>1, <2>6, FrontKeepsShape DEF QueueShape
    <2>9. ASSUME NEW j \in Ids \ {k}
          PROVE  QueueShapeOf(j)'
      BY <1>1, <2>5, OtherKeepsShape DEF QueueShape
    <2> QED
      BY <2>8, <2>9 DEF QueueShape
  <1>3. CASE ~(pending[k] # <<>> /\ pending[k][1].expected_seq = s)
    <2>1. UNCHANGED pending
      BY <1>3 DEF RetryTimeout
    <2> QED
      BY <1>1, <2>1, OtherKeepsShape DEF QueueShape
  <1> QED
    BY <1>2, <1>3

\* on_ack_received for the ACK that is waited for.
LEMMA AckShape ==
  ASSUME TypeOK, TypeOK', QueueShape, AckAccepted
  PROVE  QueueShape'
  <1>1. PICK k \in Ids : k = acks[1].id
    <2>1. acks[1] \in Ack
      BY DEF AckAccepted, TypeOK
    <2> QED
      BY <2>1 DEF Ack
  <1> DEFINE q == Tail(pending[k])
  <1>2. pending[k] # <<>> /\ pending[k] \in Seq(Entry) /\ Len(pending[k]) \in Nat
    BY <1>1 DEF AckAccepted, Accepts, TypeOK
  <1>3. /\ AttemptSend(k, q, Tail(acks))
        /\ popped' = [popped EXCEPT ![k] = @ + 1]
        /\ UNCHANGED <<sent, closed>>
    BY <1>1 DEF AckAccepted
  <1>4. /\ q \in Seq(Entry)
        /\ Len(q) = Len(pending[k]) - 1
        /\ \A i \in 1 .. Len(q) : q[i].msg = popped[k] + 1 + i
        /\ \A i \in 1 .. Len(q) :
             ~q[i].seq_assigned /\ ~q[i].send_in_progress /\ ~q[i].awaiting_ack
    BY <1>1, <1>2, TailKeepsShape DEF QueueShape
  <1> HIDE DEF q
  <1>5. /\ \A j \in Ids \ {k} : pending'[j] = pending[j]
        /\ Len(pending'[k]) = Len(q)
        /\ \A i \in 1 .. Len(q) : pending'[k][i].msg = q[i].msg
        /\ \A i \in 2 .. Len(q) : pending'[k][i] = q[i]
    BY <1>1, <1>3, <1>4, AttemptEffect
  <1>6. pending'[k] # <<>> => pending'[k][1].seq_assigned
    <2> SUFFICES ASSUME pending'[k] # <<>>
                 PROVE  pending'[k][1].seq_assigned
      OBVIOUS
    <2>1. Len(q) # 0
      BY <1>1, <1>5, LenZero DEF TypeOK
    <2>2. q # <<>> /\ 1 \in 1 .. Len(q)
      <3>1. Len(q) \in Nat /\ q # <<>>
        BY <2>1, <1>4, LenZero
      <3> QED
        BY <2>1, <3>1
    <2>3. CanAttempt(q)
      BY <1>4, <2>2 DEF CanAttempt
    <2> QED
      BY <1>1, <1>3, <1>4, <2>3, AttemptOutcome DEF Attempted
  <1>7. QueueShapeOf(k)'
    <2>1. popped'[k] = popped[k] + 1 /\ sent'[k] = sent[k] /\ closed' = closed
      BY <1>1, <1>3 DEF TypeOK
    <2>2. popped'[k] + Len(pending'[k]) = popped[k] + Len(pending[k])
      <3>1. popped[k] \in Nat /\ Len(pending'[k]) = Len(pending[k]) - 1
        BY <1>1, <1>4, <1>5 DEF TypeOK
      <3> QED
        BY <1>2, <2>1, <3>1
    <2>3. \A i \in 1 .. Len(pending'[k]) : pending'[k][i].msg = popped'[k] + i
      BY <1>4, <1>5, <2>1
    <2>4. \A i \in 2 .. Len(pending'[k]) :
             /\ ~pending'[k][i].seq_assigned
             /\ ~pending'[k][i].send_in_progress
             /\ ~pending'[k][i].awaiting_ack
      BY <1>4, <1>5
    <2>5. /\ popped[k] + Len(pending[k]) <= sent[k]
          /\ ~closed => popped[k] + Len(pending[k]) = sent[k]
      BY <1>1 DEF QueueShape, QueueShapeOf
    <2> QED
      BY <1>6, <2>1, <2>2, <2>3, <2>4, <2>5 DEF QueueShapeOf
  <1>8. ASSUME NEW j \in Ids \ {k}
        PROVE  QueueShapeOf(j)'
    BY <1>1, <1>3, <1>5, OtherKeepsShape DEF QueueShape, TypeOK
  <1> QED
    BY <1>7, <1>8 DEF QueueShape

\* The other handlers change at most the flags of first entries.
LEMMA QueueShapeStep ==
  ASSUME TypeOK, TypeOK', QueueShape, [Next]_vars
  PROVE  QueueShape'
  <1>1. CASE \E k \in Ids : Send(k)
    BY <1>1, SendShape
  <1>2. ASSUME NEW k \in Ids, TimerExpires(k)
        PROVE  QueueShape'
    <2>1. /\ pending[k] # <<>> /\ pending[k] \in Seq(Entry)
          /\ pending[k][1] \in Entry
          /\ pending' = [pending EXCEPT
                            ![k] = WithFront(pending[k], Fired(pending[k][1]))]
          /\ UNCHANGED <<popped, sent, closed>>
      BY <1>2 DEF TimerExpires, TypeOK, txVars, countVars
    <2> DEFINE q == WithFront(pending[k], Fired(pending[k][1]))
    <2>2. /\ q \in Seq(Entry)
          /\ Len(q) = Len(pending[k])
          /\ q[1] = Fired(pending[k][1])
          /\ \A i \in 2 .. Len(pending[k]) : q[i] = pending[k][i]
      BY <2>1, FiredProperties, WithFrontProperties
    <2>3. /\ q[1].msg = pending[k][1].msg
          /\ q[1].seq_assigned = pending[k][1].seq_assigned
      BY <2>1, <2>2, FiredProperties
    <2>4. pending' = [pending EXCEPT ![k] = q]
      BY <2>1
    <2> HIDE DEF q
    <2>5. /\ pending'[k] = q
          /\ \A j \in Ids \ {k} : pending'[j] = pending[j]
      BY <2>2, <2>4, QueueUpdate DEF TypeOK
    <2>6. QueueShapeOf(k)'
      <3>1. \A i \in 1 .. Len(pending[k]) : pending'[k][i].msg = pending[k][i].msg
        BY <2>2, <2>3, <2>5
      <3>2. pending'[k][1].seq_assigned
        BY <2>1, <2>3, <2>5 DEF QueueShape, QueueShapeOf
      <3> QED
        BY <2>1, <2>2, <2>5, <3>1, <3>2, FrontKeepsShape DEF QueueShape
    <2>7. ASSUME NEW j \in Ids \ {k}
          PROVE  QueueShapeOf(j)'
      BY <2>1, <2>5, OtherKeepsShape DEF QueueShape
    <2> QED
      BY <2>6, <2>7 DEF QueueShape
  <1>3. CASE \E k \in Ids, s \in Seqs : RetryTimeout(k, s)
    BY <1>3, RetryShape
  <1>4. CASE WriteDone
    <2> DEFINE w == tx_queue[1]
    <2>1. PICK k \in Ids : k = w.id
      <3>1. w \in Write
        BY <1>4 DEF WriteDone, TypeOK
      <3> QED
        BY <3>1 DEF Write
    <2> DEFINE q == WithFront(pending[k], Completed(pending[k][1], TRUE))
    <2>2. UNCHANGED <<popped, sent, closed>>
      BY <1>4 DEF WriteDone, countVars
    <2>3. CASE IsCurrent(w, pending[k])
      <3>1. /\ pending[k] # <<>> /\ pending[k] \in Seq(Entry)
            /\ pending[k][1] \in Entry
        <4>1. pending[k] # <<>> /\ pending[k] \in Seq(Entry)
          BY <2>1, <2>3 DEF IsCurrent, TypeOK
        <4> QED
          BY <4>1
      <3>2. pending' = [pending EXCEPT ![k] = q]
        BY <1>4, <2>1, <2>3 DEF WriteDone
      <3>3. /\ q \in Seq(Entry)
            /\ Len(q) = Len(pending[k])
            /\ q[1] = Completed(pending[k][1], TRUE)
            /\ \A i \in 2 .. Len(pending[k]) : q[i] = pending[k][i]
        BY <3>1, CompletedProperties, WithFrontProperties
      <3>4. /\ q[1].msg = pending[k][1].msg
            /\ q[1].seq_assigned = pending[k][1].seq_assigned
        BY <3>1, <3>3, CompletedProperties
      <3> HIDE DEF q
      <3>5. /\ pending'[k] = q
            /\ \A j \in Ids \ {k} : pending'[j] = pending[j]
        BY <2>1, <3>2, <3>3, QueueUpdate DEF TypeOK
      <3>6. QueueShapeOf(k)'
        <4>1. ASSUME NEW i \in 1 .. Len(pending[k])
              PROVE  pending'[k][i].msg = pending[k][i].msg
          <5>1. i = 1 \/ i \in 2 .. Len(pending[k])
            BY <3>1, LenZero, FrontOrRest
          <5> QED
            BY <3>3, <3>4, <3>5, <5>1
        <4>2. pending'[k][1].seq_assigned
          BY <2>1, <3>1, <3>4, <3>5 DEF QueueShape, QueueShapeOf
        <4> QED
          BY <2>1, <2>2, <3>3, <3>5, <4>1, <4>2, FrontKeepsShape DEF QueueShape
      <3>7. ASSUME NEW j \in Ids \ {k}
            PROVE  QueueShapeOf(j)'
        BY <2>2, <3>5, OtherKeepsShape DEF QueueShape
      <3> QED
        BY <3>6, <3>7 DEF QueueShape
    <2>4. CASE ~IsCurrent(w, pending[k])
      <3>1. UNCHANGED pending
        BY <1>4, <2>1, <2>4 DEF WriteDone
      <3> QED
        BY <2>2, <3>1, OtherKeepsShape DEF QueueShape
    <2> QED
      BY <2>3, <2>4
  <1>5. CASE AckAccepted
    BY <1>5, AckShape
  <1>6. CASE LinkDown
    <2>1. /\ pending' = [k \in Ids |-> Failed(k)]
          /\ UNCHANGED <<popped, sent, closed>>
      BY <1>6 DEF LinkDown
    <2>2. ASSUME NEW k \in Ids
          PROVE  QueueShapeOf(k)'
      <3>1. pending'[k] = Failed(k)
        BY <2>1
      <3>2. /\ Len(pending'[k]) = Len(pending[k])
            /\ \A i \in 2 .. Len(pending[k]) : pending'[k][i] = pending[k][i]
            /\ pending[k] # <<>> =>
                 \/ pending'[k][1] = pending[k][1]
                 \/ pending'[k][1] = Completed(pending[k][1], FALSE)
        BY <3>1, FailedProperties
      <3>3. pending[k] # <<>> =>
              /\ pending'[k][1].msg = pending[k][1].msg
              /\ pending'[k][1].seq_assigned = pending[k][1].seq_assigned
        <4>1. pending[k] # <<>> => pending[k][1] \in Entry
          BY DEF TypeOK
        <4> QED
          BY <3>2, <4>1, CompletedProperties
      <3>4. \A i \in 1 .. Len(pending[k]) : pending'[k][i].msg = pending[k][i].msg
        <4>1. pending[k] = <<>> => Len(pending[k]) = 0
          BY EmptySeq
        <4> QED
          BY <3>2, <3>3, <4>1
      <3>5. pending[k] # <<>> => pending'[k][1].seq_assigned
        BY <3>3 DEF QueueShape, QueueShapeOf
      <3> QED
        BY <2>1, <3>2, <3>4, <3>5, FrontKeepsShape DEF QueueShape
    <2> QED
      BY <2>2 DEF QueueShape
  <1>7. CASE Shutdown
    <2>1. /\ pending' = [k \in Ids |-> <<>>]
          /\ closed' = TRUE
          /\ UNCHANGED <<popped, sent>>
      BY <1>7 DEF Shutdown, countVars
    <2>2. ASSUME NEW k \in Ids
          PROVE  QueueShapeOf(k)'
      <3>1. pending'[k] = <<>> /\ Len(<<>>) = 0
        BY <2>1, EmptySeq
      <3>2. popped[k] \in Nat /\ sent[k] \in Nat /\ Len(pending[k]) \in Nat
            /\ popped[k] + Len(pending[k]) <= sent[k]
        BY DEF TypeOK, QueueShape, QueueShapeOf
      <3>3. popped[k] + 0 <= sent[k]
        BY <3>2
      <3> QED
        BY <2>1, <3>1, <3>3 DEF QueueShapeOf
    <2> QED
      BY <2>2 DEF QueueShape
  <1>8. CASE \/ Transmit \/ McuReceive \/ AckIgnored
             \/ LoseFrame \/ LoseAck \/ LinkUp \/ UNCHANGED vars
    <2>1. UNCHANGED <<pending, popped, sent, closed>>
      BY <1>8 DEF Transmit, McuReceive, AckIgnored, LoseFrame, LoseAck, LinkUp,
                  vars, senderVars, txVars, countVars
    <2> QED
      BY <2>1, OtherKeepsShape DEF QueueShape
  <1> QED
    BY <1>1, <1>2, <1>3, <1>4, <1>5, <1>6, <1>7, <1>8 DEF Next

-----------------------------------------------------------------------------
(* Frames on the line.                                                     *)

\* What the frames on the line are made of.
LEMMA FrameFields ==
  ASSUME wire \in Seq(Frame)
  PROVE  \A i \in 1 .. Len(wire) :
           wire[i].id \in Ids /\ wire[i].seq \in Seqs /\ wire[i].msg \in Nat
  <1> SUFFICES ASSUME NEW i \in 1 .. Len(wire)
               PROVE  wire[i].id \in Ids /\ wire[i].seq \in Seqs /\ wire[i].msg \in Nat
    OBVIOUS
  <1>1. wire[i] \in Frame
    BY ElementOfSeq
  <1> QED
    BY <1>1 DEF Frame

\* Shifting two positions keeps their order.
LEMMA ShiftOrder ==
  ASSUME NEW i \in Nat, NEW j \in Nat, i < j
  PROVE  i + 1 < j + 1
  OBVIOUS

\* A step that leaves the line alone can only move its bounds up.
LEMMA FramesMonotone ==
  ASSUME TypeOK, TypeOK', FramesInOrder, UNCHANGED <<wire, last>>,
         \A k \in Ids : popped[k] <= popped'[k] /\ sent[k] <= sent'[k]
  PROVE  FramesInOrder'
  <1>1. \A i \in 1 .. Len(wire) : wire[i].id \in Ids /\ wire[i].msg \in Nat
    BY FrameFields DEF TypeOK
  <1>2. \A k \in Ids : /\ last[k] \in Nat /\ popped[k] \in Nat /\ sent[k] \in Nat
                       /\ popped'[k] \in Nat /\ sent'[k] \in Nat
    BY DEF TypeOK
  <1>3. ASSUME NEW k \in Ids, NEW n \in Nat
        PROVE  /\ n <= popped[k] + 1 => n <= popped'[k] + 1
               /\ n <= sent[k] => n <= sent'[k]
    BY <1>2
  <1> QED
    BY <1>1, <1>2, <1>3 DEF FramesInOrder

\* A new frame carries the message being sent, which no frame is beyond.
LEMMA FramesTransmit ==
  ASSUME TypeOK, QueueShape, OneCurrentWrite, FramesInOrder, Transmit
  PROVE  FramesInOrder'
  <1> DEFINE w == tx_queue[1]
             f == [id |-> w.id, seq |-> w.seq, msg |-> w.msg]
  <1>1. /\ w \in Write /\ 1 \in 1 .. Len(tx_queue)
        /\ wire' = Append(wire, f)
        /\ UNCHANGED <<last, popped, sent>>
    BY DEF Transmit, TypeOK, countVars
  <1>2. /\ w.id \in Ids /\ w.msg \in Nat /\ f \in Frame
        /\ f.id = w.id /\ f.msg = w.msg
    BY <1>1 DEF Write, Frame
  <1>3. /\ w.msg = popped[w.id] + 1
        /\ w.msg <= sent[w.id]
    <2>1. pending[w.id] # <<>> /\ w.msg = pending[w.id][1].msg
      <3>1. pending[w.id] # <<>> /\ WriteOf(w.id, pending[w.id][1]) = w
        BY <1>1 DEF OneCurrentWrite, IsLatestWrite
      <3>2. WriteOf(w.id, pending[w.id][1]).msg = pending[w.id][1].msg
        BY DEF WriteOf
      <3> QED
        BY <3>1, <3>2
    <2>2. Len(pending[w.id]) \in Nat /\ Len(pending[w.id]) # 0
      BY <1>2, <2>1, LenZero DEF TypeOK
    <2>3. pending[w.id][1].msg = popped[w.id] + 1
      BY <1>2, <2>2 DEF QueueShape, QueueShapeOf
    <2>4. popped[w.id] + Len(pending[w.id]) <= sent[w.id]
      BY <1>2 DEF QueueShape, QueueShapeOf
    <2>5. popped[w.id] \in Nat /\ sent[w.id] \in Nat
      BY <1>2 DEF TypeOK
    <2>6. popped[w.id] + 1 <= sent[w.id]
      BY <2>2, <2>4, <2>5
    <2> QED
      BY <2>1, <2>3, <2>6
  <1> HIDE DEF f, w
  <1>4. /\ wire \in Seq(Frame) /\ Len(wire) \in Nat
        /\ Len(wire') = Len(wire) + 1
        /\ \A i \in 1 .. Len(wire) : wire'[i] = wire[i]
        /\ wire'[Len(wire) + 1] = f
    BY <1>1, <1>2, AppendProperties DEF TypeOK
  <1>5. \A i \in 1 .. Len(wire') : i \in 1 .. Len(wire) \/ i = Len(wire) + 1
    BY <1>4
  <1>6. last[w.id] <= popped[w.id] + 1
    BY <1>2 DEF FramesInOrder
  <1>7. \A i \in 1 .. Len(wire') :
          /\ last[wire'[i].id] <= wire'[i].msg
          /\ wire'[i].msg <= popped[wire'[i].id] + 1
          /\ wire'[i].msg <= sent[wire'[i].id]
    <2> SUFFICES ASSUME NEW i \in 1 .. Len(wire')
                 PROVE  /\ last[wire'[i].id] <= wire'[i].msg
                        /\ wire'[i].msg <= popped[wire'[i].id] + 1
                        /\ wire'[i].msg <= sent[wire'[i].id]
      OBVIOUS
    <2>1. CASE i \in 1 .. Len(wire)
      BY <1>4, <2>1 DEF FramesInOrder
    <2>2. CASE i = Len(wire) + 1
      <3>1. popped[w.id] + 1 <= popped[w.id] + 1
        BY <1>2 DEF TypeOK
      <3> QED
        BY <1>2, <1>3, <1>4, <1>6, <2>2, <3>1
    <2> QED
      BY <1>5, <2>1, <2>2
  <1>8. \A i, j \in 1 .. Len(wire') :
          i < j /\ wire'[i].id = wire'[j].id => wire'[i].msg <= wire'[j].msg
    <2> SUFFICES ASSUME NEW i \in 1 .. Len(wire'), NEW j \in 1 .. Len(wire'),
                        i < j, wire'[i].id = wire'[j].id
                 PROVE  wire'[i].msg <= wire'[j].msg
      OBVIOUS
    <2>1. i \in 1 .. Len(wire)
      BY <1>4
    <2>2. CASE j \in 1 .. Len(wire)
      BY <1>4, <2>1, <2>2 DEF FramesInOrder
    <2>3. CASE j = Len(wire) + 1
      BY <1>2, <1>3, <1>4, <2>1, <2>3 DEF FramesInOrder
    <2> QED
      BY <1>5, <2>2, <2>3
  <1> QED
    BY <1>1, <1>7, <1>8 DEF FramesInOrder

\* The frame delivered is the oldest of its id.
LEMMA FramesReceive ==
  ASSUME TypeOK, FramesInOrder, McuReceive
  PROVE  FramesInOrder' /\ \A k \in Ids : last[k] <= last'[k]
  <1> DEFINE f == wire[1]
  <1>1. /\ wire # <<>> /\ wire \in Seq(Frame)
        /\ last' = [last EXCEPT ![f.id] = f.msg]
        /\ wire' = Tail(wire)
        /\ UNCHANGED <<popped, sent>>
    BY DEF McuReceive, TypeOK, countVars
  <1>2. Len(wire) \in Nat /\ 1 \in 1 .. Len(wire)
    <2>1. Len(wire) \in Nat /\ Len(wire) # 0
      BY <1>1, LenZero
    <2> QED
      BY <2>1
  <1>3. f.id \in Ids /\ f.msg \in Nat
    BY <1>1, <1>2, FrameFields
  <1>4. /\ Len(wire') = Len(wire) - 1
        /\ \A i \in 1 .. Len(wire') : wire'[i] = wire[i + 1]
    BY <1>1, HeadTailProperties
  <1>5. \A i \in 1 .. Len(wire') :
          /\ i \in Nat
          /\ i + 1 \in 1 .. Len(wire)
          /\ 1 < i + 1
    BY <1>2, <1>4
  <1>6. /\ last[f.id] <= f.msg
        /\ f.msg <= popped[f.id] + 1
        /\ f.msg <= sent[f.id]
    BY <1>2 DEF FramesInOrder
  <1>7. \A k \in Ids : last'[k] = IF k = f.id THEN f.msg ELSE last[k]
    BY <1>1 DEF TypeOK
  <1> HIDE DEF f
  <1>8. \A k \in Ids :
          last[k] <= last'[k] /\ last'[k] <= popped[k] + 1 /\ last'[k] <= sent[k]
    <2>1. \A k \in Ids : last[k] <= last[k]
      BY DEF TypeOK
    <2> QED
      BY <1>3, <1>6, <1>7, <2>1 DEF FramesInOrder
  <1>9. ASSUME NEW i \in 1 .. Len(wire')
        PROVE  /\ last'[wire'[i].id] <= wire'[i].msg
               /\ wire'[i].msg <= popped[wire'[i].id] + 1
               /\ wire'[i].msg <= sent[wire'[i].id]
    <2>1. wire'[i] = wire[i + 1] /\ i + 1 \in 1 .. Len(wire) /\ 1 < i + 1
      BY <1>4, <1>5
    <2>2. wire[i + 1].id \in Ids
      BY <1>1, <2>1, FrameFields
    <2>3. wire[i + 1].id = f.id => f.msg <= wire[i + 1].msg
      BY <1>2, <2>1 DEF FramesInOrder, f
    <2> QED
      BY <1>7, <2>1, <2>2, <2>3 DEF FramesInOrder
  <1>10. ASSUME NEW i \in 1 .. Len(wire'), NEW j \in 1 .. Len(wire'),
                i < j, wire'[i].id = wire'[j].id
         PROVE  wire'[i].msg <= wire'[j].msg
    <2>1. i + 1 < j + 1
      BY <1>5, <1>10, ShiftOrder
    <2> QED
      BY <1>4, <1>5, <1>10, <2>1 DEF FramesInOrder
  <1> QED
    BY <1>1, <1>8, <1>9, <1>10 DEF FramesInOrder

\* Losing a frame keeps the order of the others.
LEMMA FramesLose ==
  ASSUME TypeOK, FramesInOrder, LoseFrame
  PROVE  FramesInOrder'
  <1>1. PICK n \in 1 .. Len(wire) : wire' = RemoveAt(wire, n)
    BY DEF LoseFrame
  <1>2. UNCHANGED <<last, popped, sent>>
    BY DEF LoseFrame
  <1>3. /\ wire \in Seq(Frame) /\ Len(wire) \in Nat
        /\ Len(wire') = Len(wire) - 1
        /\ \A j \in 1 .. Len(wire) - 1 :
             wire'[j] = IF j < n THEN wire[j] ELSE wire[j + 1]
    <2>1. wire \in Seq(Frame)
      BY DEF TypeOK
    <2> QED
      BY <1>1, <2>1, RemoveAtProperties, LenZero
  <1> DEFINE old(j) == IF j < n THEN j ELSE j + 1
  <1>4. \A j \in 1 .. Len(wire') :
          old(j) \in 1 .. Len(wire) /\ wire'[j] = wire[old(j)]
    BY <1>3
  <1>5. \A i, j \in 1 .. Len(wire') : i < j => old(i) < old(j)
    BY <1>3
  <1> HIDE DEF old
  <1> QED
    BY <1>2, <1>4, <1>5 DEF FramesInOrder

-----------------------------------------------------------------------------
(* Writes waiting in the transmit queue.                                   *)

NoWriteOf(k) == \A i \in 1 .. Len(tx_queue) : tx_queue[i].id # k

\* The id of a queued write.
LEMMA WriteFields ==
  ASSUME tx_queue \in Seq(Write)
  PROVE  /\ Len(tx_queue) \in Nat
         /\ \A i \in 1 .. Len(tx_queue) :
              tx_queue[i] \in Write /\ tx_queue[i].id \in Ids
  <1> SUFFICES ASSUME NEW i \in 1 .. Len(tx_queue)
               PROVE  tx_queue[i] \in Write /\ tx_queue[i].id \in Ids
    BY LenZero
  <1>1. tx_queue[i] \in Write
    BY ElementOfSeq
  <1> QED
    BY <1>1 DEF Write

\* An entry without a write outstanding, or one that waits for its ACK, has
\* nothing in the transmit queue.
LEMMA IdleHasNoWrite ==
  ASSUME TypeOK, OneCurrentWrite, NEW k \in Ids,
         \/ pending[k] = <<>>
         \/ ~pending[k][1].send_in_progress
         \/ pending[k][1].awaiting_ack
  PROVE  NoWriteOf(k)
  BY DEF OneCurrentWrite, IsLatestWrite, NoWriteOf

\* attempt_send for an id without a queued write keeps one write per id.
LEMMA AttemptKeepsOneWrite ==
  ASSUME TypeOK, OneCurrentWrite, NEW k \in Ids, NEW q \in Seq(Entry), NEW ackq,
         AttemptSend(k, q, ackq), NoWriteOf(k),
         CanAttempt(q) => ~q[1].awaiting_ack
  PROVE  OneCurrentWrite'
  <1>1. \A j \in Ids \ {k} : pending'[j] = pending[j]
    BY AttemptEffect
  <1>2. ASSUME NEW i \in 1 .. Len(tx_queue)
        PROVE  IsLatestWrite(tx_queue[i], pending'[tx_queue[i].id])
    <2>1. tx_queue[i].id \in Ids \ {k}
      BY WriteFields DEF TypeOK, NoWriteOf
    <2> QED
      BY <1>1, <2>1 DEF OneCurrentWrite
  <1>3. CASE tx_queue' = tx_queue
    BY <1>2, <1>3 DEF OneCurrentWrite
  <1>4. CASE CanAttempt(q) /\ Attempted(k, q, ackq) /\ tx_queue' # tx_queue
    <2> DEFINE e == pending'[k][1]
               w == WriteOf(k, e)
    <2>1. /\ tx_queue' = Append(tx_queue, w)
          /\ e.send_in_progress
          /\ ~e.awaiting_ack
      BY <1>4 DEF Attempted
    <2>2. w.id = k
      BY DEF WriteOf
    <2>3. pending'[k] # <<>> /\ e \in Entry
      <3>1. Len(pending'[k]) = Len(q) /\ pending'[k] \in Seq(Entry)
        BY AttemptEffect
      <3>2. Len(q) # 0 /\ Len(q) \in Nat
        BY <1>4, LenZero DEF CanAttempt
      <3>3. pending'[k] # <<>>
        BY <3>1, <3>2, LenZero
      <3> QED
        BY <3>1, <3>3
    <2>4. w \in Write
      BY <2>3, WriteOfType
    <2>5. IsLatestWrite(w, pending'[k])
      BY <2>1, <2>2, <2>3 DEF IsLatestWrite
    <2> HIDE DEF e, w
    <2>6. /\ Len(tx_queue) \in Nat
          /\ Len(tx_queue') = Len(tx_queue) + 1
          /\ \A i \in 1 .. Len(tx_queue) : tx_queue'[i] = tx_queue[i]
          /\ tx_queue'[Len(tx_queue) + 1] = w
      BY <2>1, <2>4, AppendProperties, LenZero DEF TypeOK
    <2>7. \A i \in 1 .. Len(tx_queue') :
            i \in 1 .. Len(tx_queue) \/ i = Len(tx_queue) + 1
      BY <2>6
    <2>8. \A i \in 1 .. Len(tx_queue') :
            IsLatestWrite(tx_queue'[i], pending'[tx_queue'[i].id])
      BY <1>2, <2>2, <2>5, <2>6, <2>7
    <2>9. \A i, j \in 1 .. Len(tx_queue') :
            tx_queue'[i].id = tx_queue'[j].id => i = j
      BY <2>2, <2>6, <2>7 DEF OneCurrentWrite, NoWriteOf
    <2> QED
      BY <2>8, <2>9 DEF OneCurrentWrite
  <1> QED
    BY <1>3, <1>4, AttemptOutcome

\* A step that changes flags of the first entries, but not those that tie
\* them to their write, and queues nothing.
LEMMA KeepsOneWrite ==
  ASSUME TypeOK, OneCurrentWrite, UNCHANGED tx_queue,
         \A w \in Write : IsLatestWrite(w, pending[w.id])
                            => IsLatestWrite(w, pending'[w.id])
  PROVE  OneCurrentWrite'
  BY WriteFields DEF TypeOK, OneCurrentWrite

\* A queue that an entry makes one long was empty.
LEMMA OneMoreIsOne ==
  ASSUME NEW n \in Nat, NEW m, m = n + 1, m = 1
  PROVE  n = 0
  OBVIOUS

\* send attempts only the first entry of its queue.
LEMMA SendOneWrite ==
  ASSUME TypeOK, QueueShape, OneCurrentWrite, NEW k \in Ids, Send(k)
  PROVE  OneCurrentWrite'
  <1> DEFINE q == Append(pending[k], NewEntry(sent[k] + 1))
  <1>1. /\ ~closed
        /\ IF Len(q) = 1
           THEN AttemptSend(k, q, acks)
           ELSE /\ pending' = [pending EXCEPT ![k] = q]
                /\ UNCHANGED <<seq_counter, reused, tx_queue>>
    BY DEF Send
  <1>2. /\ pending[k] \in Seq(Entry) /\ Len(pending[k]) \in Nat
        /\ NewEntry(sent[k] + 1) \in Entry
        /\ ~NewEntry(sent[k] + 1).awaiting_ack
    BY NewEntryType, LenZero DEF TypeOK
  <1>3. /\ q \in Seq(Entry)
        /\ Len(q) = Len(pending[k]) + 1
        /\ \A i \in 1 .. Len(pending[k]) : q[i] = pending[k][i]
        /\ q[Len(pending[k]) + 1] = NewEntry(sent[k] + 1)
        /\ q # <<>>
    BY <1>2, AppendProperties
  <1> HIDE DEF q
  <1>4. CASE Len(q) = 1
    <2>1. pending[k] = <<>>
      <3>1. Len(pending[k]) = 0
        BY <1>2, <1>3, <1>4, OneMoreIsOne
      <3> QED
        BY <1>2, <3>1, LenZero
    <2>2. ~q[1].awaiting_ack
      BY <1>2, <1>3, <1>4
    <2> QED
      BY <1>1, <1>3, <1>4, <2>1, <2>2, IdleHasNoWrite, AttemptKeepsOneWrite
  <1>5. CASE Len(q) # 1
    <2>1. /\ pending'[k] = q
          /\ \A j \in Ids \ {k} : pending'[j] = pending[j]
          /\ UNCHANGED tx_queue
      BY <1>1, <1>3, <1>5, QueueUpdate DEF TypeOK
    <2>2. pending[k] # <<>> => q[1] = pending[k][1]
      <3>1. pending[k] # <<>> => 1 \in 1 .. Len(pending[k])
        BY <1>2, LenZero
      <3> QED
        BY <1>3, <3>1
    <2>3. ASSUME NEW w \in Write, IsLatestWrite(w, pending[w.id])
          PROVE  IsLatestWrite(w, pending'[w.id])
      <3>1. w.id \in Ids
        BY DEF Write
      <3> QED
        BY <1>3, <2>1, <2>2, <2>3, <3>1 DEF IsLatestWrite
    <2> QED
      BY <2>1, <2>3, KeepsOneWrite
  <1> QED
    BY <1>4, <1>5

\* The timer of an entry that is being written attempts nothing.
LEMMA RetryOneWrite ==
  ASSUME TypeOK, OneCurrentWrite, NEW k \in Ids, NEW s \in Seqs, RetryTimeout(k, s)
  PROVE  OneCurrentWrite'
  <1>1. CASE pending[k] # <<>> /\ pending[k][1].expected_seq = s
    <2> DEFINE e == TimedOut(pending[k][1])
               q == WithFront(pending[k], e)
    <2>1. /\ pending[k] \in Seq(Entry)
          /\ pending[k][1] \in Entry
      BY <1>1 DEF TypeOK
    <2>2. /\ e \in Entry
          /\ e.msg = pending[k][1].msg
          /\ e.expected_seq = pending[k][1].expected_seq
          /\ e.send_generation = pending[k][1].send_generation
          /\ e.send_in_progress = pending[k][1].send_in_progress
          /\ ~e.awaiting_ack
      BY <2>1, TimedOutProperties DEF TimedOut, Entry
    <2>3. AttemptSend(k, q, acks)
      BY <1>1 DEF RetryTimeout
    <2> HIDE DEF e
    <2>4. q \in Seq(Entry) /\ q # <<>> /\ q[1] = e
      BY <1>1, <2>1, <2>2, WithFrontProperties
    <2> HIDE DEF q
    <2>5. CASE pending[k][1].send_in_progress
      <3>1. ~CanAttempt(q)
        BY <2>2, <2>4, <2>5 DEF CanAttempt
      <3>2. /\ pending'[k] = q /\ UNCHANGED tx_queue
            /\ \A j \in Ids \ {k} : pending'[j] = pending[j]
        BY <2>3, <2>4, <3>1, AttemptOutcome, AttemptEffect
      <3>3. ASSUME NEW w \in Write, IsLatestWrite(w, pending[w.id])
            PROVE  IsLatestWrite(w, pending'[w.id])
        <4>1. w.id \in Ids
          BY DEF Write
        <4>2. WriteOf(k, e) = WriteOf(k, pending[k][1])
          BY <2>2 DEF WriteOf
        <4> QED
          BY <2>2, <2>4, <3>2, <3>3, <4>1, <4>2 DEF IsLatestWrite
      <3> QED
        BY <3>2, <3>3, KeepsOneWrite
    <2>6. CASE ~pending[k][1].send_in_progress
      BY <2>2, <2>3, <2>4, <2>6, IdleHasNoWrite, AttemptKeepsOneWrite
    <2> QED
      BY <2>5, <2>6
  <1>2. CASE ~(pending[k] # <<>> /\ pending[k][1].expected_seq = s)
    BY <1>2 DEF RetryTimeout, OneCurrentWrite
  <1> QED
    BY <1>1, <1>2

\* The ACK is taken only after the write completed, so the next message of
\* the id is the only one written.
LEMMA AckOneWrite ==
  ASSUME TypeOK, QueueShape, OneCurrentWrite, AckAccepted
  PROVE  OneCurrentWrite'
  <1>1. PICK k \in Ids : k = acks[1].id
    <2>1. acks[1] \in Ack
      BY DEF AckAccepted, TypeOK
    <2> QED
      BY <2>1 DEF Ack
  <1> DEFINE q == Tail(pending[k])
  <1>2. /\ pending[k] # <<>> /\ pending[k][1].awaiting_ack
        /\ AttemptSend(k, q, Tail(acks))
    BY <1>1 DEF AckAccepted, Accepts
  <1>3. /\ q \in Seq(Entry)
        /\ \A i \in 1 .. Len(q) :
             ~q[i].seq_assigned /\ ~q[i].send_in_progress /\ ~q[i].awaiting_ack
    BY <1>2, TailKeepsShape DEF QueueShape
  <1> HIDE DEF q
  <1>4. CanAttempt(q) => ~q[1].awaiting_ack
    <2>1. q # <<>> => 1 \in 1 .. Len(q)
      BY <1>3, LenZero
    <2> QED
      BY <1>3, <2>1 DEF CanAttempt
  <1> QED
    BY <1>2, <1>3, <1>4, IdleHasNoWrite, AttemptKeepsOneWrite

\* The completed write was the only one of its id.
LEMMA WriteDoneOneWrite ==
  ASSUME TypeOK, OneCurrentWrite, WriteDone
  PROVE  OneCurrentWrite'
  <1>1. PICK k \in Ids : k = tx_queue[1].id
    <2>1. tx_queue[1] \in Write
      BY DEF WriteDone, TypeOK
    <2> QED
      BY <2>1 DEF Write
  <1>2. /\ tx_queue # <<>> /\ tx_queue \in Seq(Write) /\ tx_queue' = Tail(tx_queue)
    BY DEF WriteDone, TypeOK
  <1>3. /\ Len(tx_queue) \in Nat /\ 1 \in 1 .. Len(tx_queue)
        /\ Len(tx_queue') = Len(tx_queue) - 1
        /\ \A i \in 1 .. Len(tx_queue') : tx_queue'[i] = tx_queue[i + 1]
    <2>1. Len(tx_queue) \in Nat /\ Len(tx_queue) # 0
      BY <1>2, LenZero
    <2> QED
      BY <1>2, <2>1, HeadTailProperties
  <1>4. \A i \in 1 .. Len(tx_queue') : i \in Nat /\ i + 1 \in 1 .. Len(tx_queue) /\ i + 1 # 1
    BY <1>3
  <1>5. \A j \in Ids \ {k} : pending'[j] = pending[j]
    BY <1>1 DEF WriteDone, TypeOK
  <1>6. ASSUME NEW i \in 1 .. Len(tx_queue')
        PROVE  IsLatestWrite(tx_queue'[i], pending'[tx_queue'[i].id])
    <2>1. tx_queue'[i] = tx_queue[i + 1] /\ i + 1 \in 1 .. Len(tx_queue) /\ i + 1 # 1
      BY <1>3, <1>4
    <2>2. tx_queue[i + 1].id \in Ids \ {k}
      BY <1>1, <1>2, <1>3, <2>1, WriteFields DEF OneCurrentWrite
    <2> QED
      BY <1>5, <2>1, <2>2 DEF OneCurrentWrite
  <1>7. ASSUME NEW i \in 1 .. Len(tx_queue'), NEW j \in 1 .. Len(tx_queue'),
               tx_queue'[i].id = tx_queue'[j].id
        PROVE  i = j
    <2>1. i + 1 = j + 1
      BY <1>3, <1>4, <1>7 DEF OneCurrentWrite
    <2> QED
      BY <1>4, <2>1
  <1> QED
    BY <1>6, <1>7 DEF OneCurrentWrite

\* Every step keeps at most one write per id, and that one current.
LEMMA OneCurrentWriteStep ==
  ASSUME TypeOK, QueueShape, OneCurrentWrite, [Next]_vars
  PROVE  OneCurrentWrite'
  <1>1. ASSUME NEW k \in Ids, TimerExpires(k)
        PROVE  OneCurrentWrite'
    <2> DEFINE e == Fired(pending[k][1])
               q == WithFront(pending[k], e)
    <2>1. /\ pending[k] # <<>> /\ pending[k] \in Seq(Entry) /\ pending[k][1] \in Entry
          /\ pending' = [pending EXCEPT ![k] = q]
          /\ UNCHANGED tx_queue
      BY <1>1 DEF TimerExpires, TypeOK, txVars
    <2>2. /\ e \in Entry
          /\ e.send_in_progress = pending[k][1].send_in_progress
          /\ e.awaiting_ack = pending[k][1].awaiting_ack
          /\ WriteOf(k, e) = WriteOf(k, pending[k][1])
      BY <2>1, FiredProperties DEF WriteOf
    <2> HIDE DEF e
    <2>3. q \in Seq(Entry) /\ q # <<>> /\ q[1] = e
      BY <2>1, <2>2, WithFrontProperties
    <2> HIDE DEF q
    <2>4. /\ pending'[k] = q
          /\ \A j \in Ids \ {k} : pending'[j] = pending[j]
      BY <2>1, <2>3, QueueUpdate DEF TypeOK
    <2>5. ASSUME NEW w \in Write, IsLatestWrite(w, pending[w.id])
          PROVE  IsLatestWrite(w, pending'[w.id])
      <3>1. w.id \in Ids
        BY DEF Write
      <3> QED
        BY <2>2, <2>3, <2>4, <2>5, <3>1 DEF IsLatestWrite
    <2> QED
      BY <2>1, <2>5, KeepsOneWrite
  <1>2. CASE LinkDown \/ Shutdown
    <2>1. tx_queue' = <<>>
      BY <1>2 DEF LinkDown, Shutdown
    <2>2. Len(tx_queue') = 0
      BY <2>1, EmptySeq
    <2>3. 1 .. Len(tx_queue') = {}
      BY <2>2
    <2> QED
      BY <2>3 DEF OneCurrentWrite
  <1>3. CASE \/ Transmit \/ McuReceive \/ AckIgnored
             \/ LoseFrame \/ LoseAck \/ LinkUp \/ UNCHANGED vars
    <2>1. UNCHANGED <<pending, tx_queue>>
      BY <1>3 DEF Transmit, McuReceive, AckIgnored, LoseFrame, LoseAck, LinkUp,
                  vars, senderVars, txVars
    <2> QED
      BY <2>1 DEF OneCurrentWrite
  <1> QED
    BY <1>1, <1>2, <1>3, SendOneWrite, RetryOneWrite, AckOneWrite,
       WriteDoneOneWrite DEF Next

-----------------------------------------------------------------------------
(* No entry is stranded.                                                   *)

\* More writes and more posted retries cannot strand an entry.
LEMMA FutureGrows ==
  ASSUME NEW k \in Ids, NEW q, NEW txq \in Seq(Write), NEW txq2, NEW fired, NEW fired2,
         HasFuture(k, q, txq, fired),
         txq2 = txq \/ \E w \in Write : txq2 = Append(txq, w),
         \A s : <<k, s>> \in fired => <<k, s>> \in fired2
  PROVE  HasFuture(k, q, txq2, fired2)
  <1>1. \A i \in 1 .. Len(txq) : i \in 1 .. Len(txq2) /\ txq2[i] = txq[i]
    <2>1. CASE txq2 = txq
      BY <2>1
    <2>2. ASSUME NEW w \in Write, txq2 = Append(txq, w)
          PROVE  \A i \in 1 .. Len(txq) : i \in 1 .. Len(txq2) /\ txq2[i] = txq[i]
      <3>1. /\ Len(txq) \in Nat /\ Len(txq2) = Len(txq) + 1
            /\ \A i \in 1 .. Len(txq) : txq2[i] = txq[i]
        BY <2>2, AppendProperties, LenZero
      <3> QED
        BY <3>1
    <2> QED
      BY <2>1, <2>2
  <1> QED
    BY <1>1 DEF HasFuture

\* attempt_send gives the entry it attempts a write or a timer.
LEMMA AttemptGivesFuture ==
  ASSUME TypeOK, NeverStranded, NEW k \in Ids, NEW q \in Seq(Entry), NEW ackq,
         AttemptSend(k, q, ackq),
         ~CanAttempt(q) => HasFuture(k, q, tx_queue, timeouts'),
         \A j \in Ids \ {k}, s \in Seqs : <<j, s>> \in timeouts => <<j, s>> \in timeouts'
  PROVE  NeverStranded'
  <1>1. CASE ~CanAttempt(q)
    <2>1. HasFuture(k, pending'[k], tx_queue', timeouts')
      BY <1>1, AttemptOutcome
    <2>2. ASSUME NEW j \in Ids \ {k}
          PROVE  HasFuture(j, pending'[j], tx_queue', timeouts')
      <3>1. pending'[j] = pending[j] /\ tx_queue' = tx_queue
        BY <1>1, AttemptEffect, AttemptOutcome
      <3>2. \A s : <<j, s>> \in timeouts => <<j, s>> \in timeouts'
        BY DEF TypeOK
      <3> QED
        BY <3>1, <3>2, FutureGrows DEF TypeOK, NeverStranded
    <2> QED
      BY <2>1, <2>2 DEF NeverStranded
  <1>2. CASE CanAttempt(q)
    <2> DEFINE e == pending'[k][1]
    <2>1. Attempted(k, q, ackq)
      BY <1>2, AttemptOutcome
    <2>2. pending'[k] \in Seq(Entry) /\ pending'[k] # <<>> /\ e \in Entry
      <3>1. Len(pending'[k]) = Len(q) /\ pending'[k] \in Seq(Entry)
        BY AttemptEffect
      <3>2. Len(q) # 0
        BY <1>2, LenZero DEF CanAttempt
      <3>3. pending'[k] # <<>>
        BY <3>1, <3>2, LenZero
      <3> QED
        BY <3>1, <3>3
    <2>3. WriteOf(k, e) \in Write
      BY <2>2, WriteOfType
    <2>4. tx_queue' = tx_queue \/ \E w \in Write : tx_queue' = Append(tx_queue, w)
      BY <2>1, <2>3 DEF Attempted
    <2>5. HasFuture(k, pending'[k], tx_queue', timeouts')
      <3>1. CASE tx_queue' = Append(tx_queue, WriteOf(k, e)) /\ e.send_in_progress
        <4> DEFINE n == Len(tx_queue) + 1
        <4>1. /\ Len(tx_queue) \in Nat
              /\ Len(tx_queue') = n
              /\ tx_queue'[n] = WriteOf(k, e)
          BY <2>3, <3>1, AppendProperties, LenZero DEF TypeOK
        <4>2. n \in 1 .. Len(tx_queue')
          BY <4>1
        <4> QED
          BY <3>1, <4>1, <4>2 DEF HasFuture
      <3>2. CASE ~e.send_in_progress /\ e.timer_armed
        BY <3>2 DEF HasFuture
      <3> QED
        BY <2>1, <3>1, <3>2 DEF Attempted
    <2>6. ASSUME NEW j \in Ids \ {k}
          PROVE  HasFuture(j, pending'[j], tx_queue', timeouts')
      <3>1. pending'[j] = pending[j]
        BY AttemptEffect
      <3>2. \A s : <<j, s>> \in timeouts => <<j, s>> \in timeouts'
        BY DEF TypeOK
      <3> QED
        BY <2>4, <3>1, <3>2, FutureGrows DEF TypeOK, NeverStranded
    <2> QED
      BY <2>5, <2>6 DEF NeverStranded
  <1> QED
    BY <1>1, <1>2

\* A new entry is attempted at once, or waits behind one that has a future.
LEMMA SendFuture ==
  ASSUME TypeOK, QueueShape, NeverStranded, NEW k \in Ids, Send(k)
  PROVE  NeverStranded'
  <1> DEFINE q == Append(pending[k], NewEntry(sent[k] + 1))
  <1>1. /\ UNCHANGED timeouts
        /\ IF Len(q) = 1
           THEN AttemptSend(k, q, acks)
           ELSE /\ pending' = [pending EXCEPT ![k] = q]
                /\ UNCHANGED <<seq_counter, reused, tx_queue>>
    BY DEF Send
  <1>2. /\ pending[k] \in Seq(Entry) /\ Len(pending[k]) \in Nat
        /\ NewEntry(sent[k] + 1) \in Entry
        /\ ~NewEntry(sent[k] + 1).send_in_progress
    BY NewEntryType, LenZero DEF TypeOK
  <1>3. /\ q \in Seq(Entry)
        /\ Len(q) = Len(pending[k]) + 1
        /\ \A i \in 1 .. Len(pending[k]) : q[i] = pending[k][i]
        /\ q[Len(pending[k]) + 1] = NewEntry(sent[k] + 1)
        /\ q # <<>>
    BY <1>2, AppendProperties
  <1> HIDE DEF q
  <1>4. CASE Len(q) = 1
    <2>1. CanAttempt(q)
      BY <1>2, <1>3, <1>4 DEF CanAttempt
    <2> QED
      BY <1>1, <1>3, <1>4, <2>1, AttemptGivesFuture
  <1>5. CASE Len(q) # 1
    <2>1. /\ pending'[k] = q
          /\ \A j \in Ids \ {k} : pending'[j] = pending[j]
          /\ UNCHANGED tx_queue
      BY <1>1, <1>3, <1>5, QueueUpdate DEF TypeOK
    <2>2. Len(pending[k]) # 0
      BY <1>2, <1>3, <1>5
    <2>3. pending[k] # <<>> /\ 1 \in 1 .. Len(pending[k])
      <3>1. pending[k] # <<>>
        BY <1>2, <2>2, LenZero
      <3> QED
        BY <1>2, <2>2, <3>1
    <2>4. q[1] = pending[k][1]
      BY <1>3, <2>3
    <2> QED
      BY <1>1, <2>1, <2>3, <2>4 DEF NeverStranded, HasFuture
  <1> QED
    BY <1>4, <1>5

\* handle_retry_timeout attempts the entry unless it is being written.
LEMMA RetryFuture ==
  ASSUME TypeOK, NeverStranded, NEW k \in Ids, NEW s \in Seqs, RetryTimeout(k, s)
  PROVE  NeverStranded'
  <1>1. /\ \A j \in Ids \ {k}, t \in Seqs : <<j, t>> \in timeouts => <<j, t>> \in timeouts'
        /\ \A t \in Seqs \ {s} : <<k, t>> \in timeouts => <<k, t>> \in timeouts'
    BY DEF RetryTimeout
  <1>2. CASE pending[k] # <<>> /\ pending[k][1].expected_seq = s
    <2> DEFINE e == TimedOut(pending[k][1])
               q == WithFront(pending[k], e)
    <2>1. pending[k] \in Seq(Entry) /\ pending[k][1] \in Entry
      BY <1>2 DEF TypeOK
    <2>2. /\ e \in Entry
          /\ e.send_in_progress = pending[k][1].send_in_progress
          /\ WriteOf(k, e) = WriteOf(k, pending[k][1])
      BY <2>1, TimedOutProperties DEF WriteOf
    <2>3. AttemptSend(k, q, acks)
      BY <1>2 DEF RetryTimeout
    <2> HIDE DEF e
    <2>4. q \in Seq(Entry) /\ q # <<>> /\ q[1] = e
      BY <1>2, <2>1, <2>2, WithFrontProperties
    <2> HIDE DEF q
    <2>5. ~CanAttempt(q) => HasFuture(k, q, tx_queue, timeouts')
      BY <1>2, <2>2, <2>4 DEF CanAttempt, HasFuture, NeverStranded
    <2> QED
      BY <1>1, <2>3, <2>4, <2>5, AttemptGivesFuture
  <1>3. CASE ~(pending[k] # <<>> /\ pending[k][1].expected_seq = s)
    <2>1. UNCHANGED <<pending, tx_queue>>
      BY <1>3 DEF RetryTimeout
    <2>2. ASSUME NEW j \in Ids, pending[j] # <<>>
          PROVE  <<j, pending[j][1].expected_seq>> \in timeouts
                   => <<j, pending[j][1].expected_seq>> \in timeouts'
      <3>1. pending[j][1].expected_seq \in Seqs
        <4>1. pending[j][1] \in Entry
          BY <2>2 DEF TypeOK
        <4> QED
          BY <4>1 DEF Entry
      <3> QED
        BY <1>1, <1>3, <2>2, <3>1
    <2> QED
      BY <2>1, <2>2 DEF NeverStranded, HasFuture
  <1> QED
    BY <1>2, <1>3

\* The next entry is attempted when an ACK removes its predecessor.
LEMMA AckFuture ==
  ASSUME TypeOK, QueueShape, NeverStranded, AckAccepted
  PROVE  NeverStranded'
  <1>1. PICK k \in Ids : k = acks[1].id
    <2>1. acks[1] \in Ack
      BY DEF AckAccepted, TypeOK
    <2> QED
      BY <2>1 DEF Ack
  <1> DEFINE q == Tail(pending[k])
  <1>2. /\ pending[k] # <<>>
        /\ AttemptSend(k, q, Tail(acks))
        /\ UNCHANGED timeouts
    BY <1>1 DEF AckAccepted, Accepts
  <1>3. /\ q \in Seq(Entry)
        /\ \A i \in 1 .. Len(q) : ~q[i].send_in_progress
    BY <1>2, TailKeepsShape DEF QueueShape
  <1> HIDE DEF q
  <1>4. q # <<>> => CanAttempt(q)
    <2>1. q # <<>> => 1 \in 1 .. Len(q)
      BY <1>3, LenZero
    <2> QED
      BY <1>3, <2>1 DEF CanAttempt
  <1>5. ~CanAttempt(q) => HasFuture(k, q, tx_queue, timeouts')
    BY <1>4 DEF HasFuture
  <1> QED
    BY <1>2, <1>3, <1>5, AttemptGivesFuture

\* The completion is current, so it arms the timer.
LEMMA WriteDoneFuture ==
  ASSUME TypeOK, OneCurrentWrite, NeverStranded, WriteDone
  PROVE  NeverStranded'
  <1>1. PICK k \in Ids : k = tx_queue[1].id
    <2>1. tx_queue[1] \in Write
      BY DEF WriteDone, TypeOK
    <2> QED
      BY <2>1 DEF Write
  <1>2. /\ tx_queue # <<>> /\ tx_queue \in Seq(Write) /\ tx_queue' = Tail(tx_queue)
        /\ UNCHANGED timeouts
    BY DEF WriteDone, TypeOK
  <1>3. /\ Len(tx_queue) \in Nat /\ 1 \in 1 .. Len(tx_queue)
        /\ Len(tx_queue') = Len(tx_queue) - 1
        /\ \A i \in 1 .. Len(tx_queue') : tx_queue'[i] = tx_queue[i + 1]
    <2>1. Len(tx_queue) \in Nat /\ Len(tx_queue) # 0
      BY <1>2, LenZero
    <2> QED
      BY <1>2, <2>1, HeadTailProperties
  <1>4. /\ pending[k] # <<>>
        /\ WriteOf(k, pending[k][1]) = tx_queue[1]
    BY <1>1, <1>3 DEF OneCurrentWrite, IsLatestWrite
  <1>5. IsCurrent(tx_queue[1], pending[k])
    <2>1. /\ WriteOf(k, pending[k][1]).seq = pending[k][1].expected_seq
          /\ WriteOf(k, pending[k][1]).gen = pending[k][1].send_generation
      BY DEF WriteOf
    <2> QED
      BY <1>4, <2>1 DEF IsCurrent
  <1> DEFINE e == Completed(pending[k][1], TRUE)
             q == WithFront(pending[k], e)
  <1>6. pending' = [pending EXCEPT ![k] = q]
    BY <1>1, <1>5 DEF WriteDone
  <1>7. pending[k] \in Seq(Entry) /\ pending[k][1] \in Entry
    BY <1>4 DEF TypeOK
  <1>8. e \in Entry /\ ~e.send_in_progress /\ e.timer_armed
    BY <1>7, CompletedProperties
  <1> HIDE DEF e
  <1>9. q \in Seq(Entry) /\ q[1] = e
    BY <1>4, <1>7, <1>8, WithFrontProperties
  <1> HIDE DEF q
  <1>10. /\ pending'[k] = q
         /\ \A j \in Ids \ {k} : pending'[j] = pending[j]
    BY <1>6, <1>9, QueueUpdate DEF TypeOK
  <1>11. ASSUME NEW j \in Ids \ {k}
         PROVE  HasFuture(j, pending'[j], tx_queue', timeouts')
    <2>1. ASSUME NEW i \in 1 .. Len(tx_queue), tx_queue[i] = WriteOf(j, pending[j][1])
          PROVE  \E n \in 1 .. Len(tx_queue') : tx_queue'[n] = WriteOf(j, pending[j][1])
      <3>1. i # 1
        <4>1. WriteOf(j, pending[j][1]).id = j
          BY DEF WriteOf
        <4> QED
          BY <1>1, <2>1, <4>1
      <3>2. i - 1 \in 1 .. Len(tx_queue') /\ (i - 1) + 1 = i
        BY <1>3, <3>1
      <3> QED
        BY <1>3, <2>1, <3>2
    <2> QED
      BY <1>2, <1>10, <2>1 DEF NeverStranded, HasFuture
  <1> QED
    BY <1>8, <1>9, <1>10, <1>11 DEF NeverStranded, HasFuture

\* reset_serial fails every queued write, so every entry gets its timer.
LEMMA LinkDownFuture ==
  ASSUME TypeOK, NeverStranded, LinkDown
  PROVE  NeverStranded'
  <1>1. pending' = [k \in Ids |-> Failed(k)] /\ UNCHANGED timeouts
    BY DEF LinkDown
  <1> SUFFICES ASSUME NEW k \in Ids, pending'[k] # <<>>
               PROVE  HasFuture(k, pending'[k], tx_queue', timeouts')
    BY DEF NeverStranded, HasFuture
  <1>2. pending[k] \in Seq(Entry) /\ pending'[k] = Failed(k)
    BY <1>1 DEF TypeOK
  <1>3. pending[k] # <<>> /\ pending[k][1] \in Entry
    <2>1. Len(Failed(k)) = Len(pending[k]) /\ Failed(k) \in Seq(Entry)
      BY FailedProperties
    <2>2. pending[k] # <<>>
      BY <1>2, <2>1, LenZero
    <2> QED
      BY <1>2, <2>2
  <1> DEFINE e == Completed(pending[k][1], FALSE)
  <1>4. e \in Entry /\ ~e.send_in_progress /\ e.timer_armed
    BY <1>3, CompletedProperties
  <1>5. CASE pending[k][1].send_in_progress
    <2>1. PICK i \in 1 .. Len(tx_queue) : tx_queue[i] = WriteOf(k, pending[k][1])
      BY <1>3, <1>5 DEF NeverStranded, HasFuture
    <2>2. tx_queue[i].id = k /\ IsCurrent(tx_queue[i], pending[k])
      BY <1>3, <2>1 DEF IsCurrent, WriteOf
    <2>3. Failed(k) = WithFront(pending[k], e)
      BY <2>2 DEF Failed
    <2> HIDE DEF e
    <2>4. WithFront(pending[k], e)[1] = e
      BY <1>2, <1>3, <1>4, WithFrontProperties
    <2>5. pending'[k][1] = e
      BY <1>2, <2>3, <2>4
    <2> QED
      BY <1>4, <2>5 DEF HasFuture
  <1>6. CASE ~pending[k][1].send_in_progress
    <2>1. pending'[k][1] = pending[k][1] \/ pending'[k][1] = e
      BY <1>2, <1>3, FailedProperties
    <2> HIDE DEF e
    <2> QED
      BY <1>1, <1>3, <1>4, <1>6, <2>1 DEF NeverStranded, HasFuture
  <1> QED
    BY <1>5, <1>6

\* Every step leaves every first entry something that will wake it.
LEMMA NeverStrandedStep ==
  ASSUME TypeOK, QueueShape, OneCurrentWrite, NeverStranded, [Next]_vars
  PROVE  NeverStranded'
  <1>1. ASSUME NEW k \in Ids, TimerExpires(k)
        PROVE  NeverStranded'
    <2> DEFINE e == Fired(pending[k][1])
               q == WithFront(pending[k], e)
    <2>1. /\ pending[k] # <<>> /\ pending[k] \in Seq(Entry) /\ pending[k][1] \in Entry
          /\ pending' = [pending EXCEPT ![k] = q]
          /\ timeouts' = timeouts \cup {<<k, pending[k][1].expected_seq>>}
          /\ UNCHANGED tx_queue
      BY <1>1 DEF TimerExpires, TypeOK, txVars
    <2>2. /\ e \in Entry
          /\ e.send_in_progress = pending[k][1].send_in_progress
          /\ e.expected_seq = pending[k][1].expected_seq
          /\ WriteOf(k, e) = WriteOf(k, pending[k][1])
      BY <2>1, FiredProperties DEF WriteOf
    <2> HIDE DEF e
    <2>3. q \in Seq(Entry) /\ q # <<>> /\ q[1] = e
      BY <2>1, <2>2, WithFrontProperties
    <2> HIDE DEF q
    <2>4. /\ pending'[k] = q
          /\ \A j \in Ids \ {k} : pending'[j] = pending[j]
      BY <2>1, <2>3, QueueUpdate DEF TypeOK
    <2>5. HasFuture(k, pending'[k], tx_queue', timeouts')
      BY <2>1, <2>2, <2>3, <2>4 DEF NeverStranded, HasFuture
    <2>6. ASSUME NEW j \in Ids \ {k}
          PROVE  HasFuture(j, pending'[j], tx_queue', timeouts')
      BY <2>1, <2>4 DEF NeverStranded, HasFuture
    <2> QED
      BY <2>5, <2>6 DEF NeverStranded
  <1>2. CASE Shutdown
    BY <1>2 DEF Shutdown, NeverStranded, HasFuture
  <1>3. CASE \/ Transmit \/ McuReceive \/ AckIgnored
             \/ LoseFrame \/ LoseAck \/ LinkUp \/ UNCHANGED vars
    <2>1. UNCHANGED <<pending, tx_queue, timeouts>>
      BY <1>3 DEF Transmit, McuReceive, AckIgnored, LoseFrame, LoseAck, LinkUp,
                  vars, senderVars, txVars
    <2> QED
      BY <2>1 DEF NeverStranded, HasFuture
  <1> QED
    BY <1>1, <1>2, <1>3, SendFuture, RetryFuture, AckFuture, WriteDoneFuture,
       LinkDownFuture DEF Next

-----------------------------------------------------------------------------
(* What seqs identify.                                                     *)

\* The first entry of id k after the step is the one before it, or none.
SameFront(k) ==
  /\ popped'[k] = popped[k]
  /\ pending'[k] # <<>> =>
       /\ pending[k] # <<>>
       /\ pending'[k][1].expected_seq = pending[k][1].expected_seq

\* It has a seq that nothing in flight for the id carries.
FreshFront(k) ==
  pending'[k] # <<>> => ~CopyInFlight(k, pending'[k][1].expected_seq, acks')

\* attempt_send numbers an entry that has no seq with one that is not in
\* flight, or records the reuse; it keeps the seq of an entry that has one.
LEMMA AttemptFront ==
  ASSUME TypeOK, NEW k \in Ids, NEW q \in Seq(Entry), NEW ackq,
         AttemptSend(k, q, ackq)
  PROVE  /\ reused => reused'
         /\ \A j \in Ids \ {k} : pending'[j] = pending[j]
         /\ q # <<>> => pending'[k] # <<>>
         /\ pending'[k] # <<>> => q # <<>>
         /\ q # <<>> /\ q[1].seq_assigned =>
              pending'[k][1].expected_seq = q[1].expected_seq
         /\ q # <<>> /\ ~q[1].seq_assigned /\ ~q[1].send_in_progress /\ ~reused' =>
              ~CopyInFlight(k, pending'[k][1].expected_seq, ackq)
  <1>1. /\ \A j \in Ids \ {k} : pending'[j] = pending[j]
        /\ pending'[k] \in Seq(Entry)
        /\ Len(pending'[k]) = Len(q)
    BY AttemptEffect
  <1>2. q # <<>> <=> pending'[k] # <<>>
    BY <1>1, LenZero
  <1>3. reused => reused'
    BY AttemptOutcome DEF Attempted
  <1>4. q # <<>> /\ q[1].seq_assigned =>
          pending'[k][1].expected_seq = q[1].expected_seq
    BY AttemptOutcome DEF Attempted
  <1>5. q # <<>> /\ ~q[1].seq_assigned /\ ~q[1].send_in_progress /\ ~reused' =>
          ~CopyInFlight(k, pending'[k][1].expected_seq, ackq)
    BY AttemptOutcome DEF Attempted, CanAttempt
  <1> QED
    BY <1>1, <1>2, <1>3, <1>4, <1>5

\* Every step keeps the first entry of an id, removes all, or brings a fresh
\* seq, and never forgets a reuse.
LEMMA FrontStep ==
  ASSUME TypeOK, TypeOK', QueueShape, [Next]_vars
  PROVE  /\ reused => reused'
         /\ \A k \in Ids : SameFront(k) \/ reused' \/ FreshFront(k)
  <1>1. ASSUME NEW k \in Ids, Send(k)
        PROVE  /\ reused => reused'
               /\ \A j \in Ids : SameFront(j) \/ reused' \/ FreshFront(j)
    <2> DEFINE q == Append(pending[k], NewEntry(sent[k] + 1))
    <2>1. /\ UNCHANGED <<popped, acks>>
          /\ IF Len(q) = 1
             THEN AttemptSend(k, q, acks)
             ELSE /\ pending' = [pending EXCEPT ![k] = q]
                  /\ UNCHANGED <<seq_counter, reused, tx_queue>>
      BY <1>1 DEF Send, lineVars
    <2>2. /\ pending[k] \in Seq(Entry) /\ Len(pending[k]) \in Nat
          /\ NewEntry(sent[k] + 1) \in Entry
          /\ ~NewEntry(sent[k] + 1).send_in_progress
          /\ ~NewEntry(sent[k] + 1).seq_assigned
      BY NewEntryType, LenZero DEF TypeOK
    <2>3. /\ q \in Seq(Entry)
          /\ Len(q) = Len(pending[k]) + 1
          /\ \A i \in 1 .. Len(pending[k]) : q[i] = pending[k][i]
          /\ q[Len(pending[k]) + 1] = NewEntry(sent[k] + 1)
          /\ q # <<>>
      BY <2>2, AppendProperties
    <2> HIDE DEF q
    <2>4. CASE Len(q) = 1
      <3>1. ~q[1].send_in_progress /\ ~q[1].seq_assigned
        BY <2>2, <2>3, <2>4
      <3>2. AttemptSend(k, q, acks)
        BY <2>1, <2>4
      <3>3. /\ reused => reused'
            /\ \A j \in Ids \ {k} : pending'[j] = pending[j]
            /\ ~reused' => ~CopyInFlight(k, pending'[k][1].expected_seq, acks)
        BY <2>3, <3>1, <3>2, AttemptFront
      <3>4. reused' \/ FreshFront(k)
        BY <2>1, <3>3 DEF FreshFront
      <3>5. \A j \in Ids \ {k} : SameFront(j)
        BY <2>1, <3>3 DEF SameFront
      <3> QED
        BY <3>3, <3>4, <3>5
    <2>5. CASE Len(q) # 1
      <3>1. /\ pending'[k] = q /\ UNCHANGED reused
            /\ \A j \in Ids \ {k} : pending'[j] = pending[j]
        BY <2>1, <2>3, <2>5, QueueUpdate DEF TypeOK
      <3>2. Len(pending[k]) # 0
        BY <2>2, <2>3, <2>5
      <3>3. pending[k] # <<>>
        BY <2>2, <3>2, LenZero
      <3>4. 1 \in 1 .. Len(pending[k])
        BY <2>2, <3>2
      <3>5. q[1] = pending[k][1]
        BY <2>3, <3>4
      <3> QED
        BY <2>1, <3>1, <3>3, <3>5 DEF SameFront
    <2> QED
      BY <2>4, <2>5
  <1>2. ASSUME NEW k \in Ids, NEW s \in Seqs, RetryTimeout(k, s)
        PROVE  /\ reused => reused'
               /\ \A j \in Ids : SameFront(j) \/ reused' \/ FreshFront(j)
    <2>1. UNCHANGED popped
      BY <1>2 DEF RetryTimeout, countVars
    <2>2. CASE pending[k] # <<>> /\ pending[k][1].expected_seq = s
      <3> DEFINE e == TimedOut(pending[k][1])
                 q == WithFront(pending[k], e)
      <3>1. /\ pending[k] \in Seq(Entry) /\ pending[k][1] \in Entry
            /\ pending[k][1].seq_assigned
        BY <2>2 DEF TypeOK, QueueShape, QueueShapeOf
      <3>2. /\ e \in Entry /\ e.seq_assigned
            /\ e.expected_seq = pending[k][1].expected_seq
        BY <3>1, TimedOutProperties
      <3>3. AttemptSend(k, q, acks)
        BY <1>2, <2>2 DEF RetryTimeout
      <3> HIDE DEF e
      <3>4. q \in Seq(Entry) /\ q # <<>> /\ q[1] = e
        BY <2>2, <3>1, <3>2, WithFrontProperties
      <3> HIDE DEF q
      <3>5. /\ reused => reused'
            /\ \A j \in Ids \ {k} : pending'[j] = pending[j]
            /\ pending'[k][1].expected_seq = pending[k][1].expected_seq
        BY <3>2, <3>3, <3>4, AttemptFront
      <3> QED
        BY <2>1, <2>2, <3>5 DEF SameFront
    <2>3. CASE ~(pending[k] # <<>> /\ pending[k][1].expected_seq = s)
      <3>1. UNCHANGED <<pending, reused>>
        BY <1>2, <2>3 DEF RetryTimeout
      <3> QED
        BY <2>1, <3>1 DEF SameFront
    <2> QED
      BY <2>2, <2>3
  <1>3. CASE AckAccepted
    <2>1. PICK k \in Ids : k = acks[1].id
      <3>1. acks[1] \in Ack
        BY <1>3 DEF AckAccepted, TypeOK
      <3> QED
        BY <3>1 DEF Ack
    <2> DEFINE q == Tail(pending[k])
    <2>2. /\ pending[k] # <<>>
          /\ AttemptSend(k, q, acks')
          /\ popped' = [popped EXCEPT ![k] = @ + 1]
      BY <1>3, <2>1 DEF AckAccepted, Accepts
    <2>3. /\ q \in Seq(Entry)
          /\ \A i \in 1 .. Len(q) : ~q[i].seq_assigned /\ ~q[i].send_in_progress
      BY <2>2, TailKeepsShape DEF QueueShape
    <2> HIDE DEF q
    <2>4. q # <<>> => ~q[1].seq_assigned /\ ~q[1].send_in_progress
      <3>1. q # <<>> => 1 \in 1 .. Len(q)
        BY <2>3, LenZero
      <3> QED
        BY <2>3, <3>1
    <2>5. reused' \/ FreshFront(k)
      BY <2>2, <2>3, <2>4, AttemptFront DEF FreshFront
    <2>6. reused => reused'
      BY <2>2, <2>3, AttemptFront
    <2>7. ASSUME NEW j \in Ids \ {k}
          PROVE  SameFront(j)
      <3>1. pending'[j] = pending[j]
        BY <2>2, <2>3, AttemptFront
      <3>2. popped'[j] = popped[j]
        BY <2>2 DEF TypeOK
      <3> QED
        BY <3>1, <3>2 DEF SameFront
    <2> QED
      BY <2>5, <2>6, <2>7
  <1>4. ASSUME NEW k \in Ids, TimerExpires(k)
        PROVE  UNCHANGED reused /\ \A j \in Ids : SameFront(j)
    <2> DEFINE e == Fired(pending[k][1])
               q == WithFront(pending[k], e)
    <2>1. /\ pending[k] # <<>> /\ pending[k] \in Seq(Entry) /\ pending[k][1] \in Entry
          /\ pending' = [pending EXCEPT ![k] = q]
          /\ UNCHANGED <<reused, popped>>
      BY <1>4 DEF TimerExpires, TypeOK, countVars
    <2>2. e \in Entry /\ e.expected_seq = pending[k][1].expected_seq
      BY <2>1, FiredProperties
    <2> HIDE DEF e
    <2>3. q \in Seq(Entry) /\ q # <<>> /\ q[1] = e
      BY <2>1, <2>2, WithFrontProperties
    <2> HIDE DEF q
    <2>4. /\ pending'[k] = q
          /\ \A j \in Ids \ {k} : pending'[j] = pending[j]
      BY <2>1, <2>3, QueueUpdate DEF TypeOK
    <2> QED
      BY <2>1, <2>2, <2>3, <2>4 DEF SameFront
  <1>5. ASSUME WriteDone
        PROVE  UNCHANGED reused /\ \A j \in Ids : SameFront(j)
    <2>1. PICK k \in Ids : k = tx_queue[1].id
      <3>1. tx_queue[1] \in Write
        BY <1>5 DEF WriteDone, TypeOK
      <3> QED
        BY <3>1 DEF Write
    <2>2. UNCHANGED <<reused, popped>>
      BY <1>5 DEF WriteDone, countVars
    <2> DEFINE e == Completed(pending[k][1], TRUE)
               q == WithFront(pending[k], e)
    <2>3. CASE IsCurrent(tx_queue[1], pending[k])
      <3>1. pending' = [pending EXCEPT ![k] = q]
        BY <1>5, <2>1, <2>3 DEF WriteDone
      <3>2. pending[k] # <<>> /\ pending[k] \in Seq(Entry)
        BY <2>3 DEF IsCurrent, TypeOK
      <3>3. pending[k][1] \in Entry
        BY <3>2
      <3>4. e \in Entry /\ e.expected_seq = pending[k][1].expected_seq
        BY <3>3, CompletedProperties
      <3> HIDE DEF e
      <3>5. q \in Seq(Entry) /\ q # <<>> /\ q[1] = e
        BY <3>2, <3>4, WithFrontProperties
      <3> HIDE DEF q
      <3>6. /\ pending'[k] = q
            /\ \A j \in Ids \ {k} : pending'[j] = pending[j]
        BY <3>1, <3>5, QueueUpdate DEF TypeOK
      <3> QED
        BY <2>2, <3>2, <3>4, <3>5, <3>6 DEF SameFront
    <2>4. CASE ~IsCurrent(tx_queue[1], pending[k])
      <3>1. UNCHANGED pending
        BY <1>5, <2>1, <2>4 DEF WriteDone
      <3> QED
        BY <2>2, <3>1 DEF SameFront
    <2> QED
      BY <2>3, <2>4
  <1>6. ASSUME LinkDown
        PROVE  UNCHANGED reused /\ \A k \in Ids : SameFront(k)
    <2>1. pending' = [k \in Ids |-> Failed(k)] /\ UNCHANGED <<reused, popped>>
      BY <1>6 DEF LinkDown
    <2>2. ASSUME NEW k \in Ids, pending'[k] # <<>>
          PROVE  /\ pending[k] # <<>>
                 /\ pending'[k][1].expected_seq = pending[k][1].expected_seq
      <3>1. pending'[k] = Failed(k) /\ pending[k] \in Seq(Entry)
        BY <2>1 DEF TypeOK
      <3>2. pending[k] # <<>>
        <4>1. Len(Failed(k)) = Len(pending[k]) /\ Failed(k) \in Seq(Entry)
          BY FailedProperties
        <4> QED
          BY <2>2, <3>1, <4>1, LenZero
      <3>3. pending[k][1] \in Entry
        BY <3>1, <3>2
      <3>4. Completed(pending[k][1], FALSE).expected_seq = pending[k][1].expected_seq
        BY <3>3, CompletedProperties
      <3>5. Failed(k)[1] = pending[k][1] \/ Failed(k)[1] = Completed(pending[k][1], FALSE)
        BY <3>2, FailedProperties
      <3> QED
        BY <3>1, <3>2, <3>4, <3>5
    <2> QED
      BY <2>1, <2>2 DEF SameFront
  <1>7. ASSUME Shutdown
        PROVE  UNCHANGED reused /\ \A k \in Ids : SameFront(k)
    BY <1>7 DEF Shutdown, SameFront, senderVars, countVars
  <1>8. ASSUME \/ Transmit \/ McuReceive \/ AckIgnored
               \/ LoseFrame \/ LoseAck \/ LinkUp \/ UNCHANGED vars
        PROVE  UNCHANGED reused /\ \A k \in Ids : SameFront(k)
    <2>1. UNCHANGED <<pending, popped, reused>>
      BY <1>8 DEF Transmit, McuReceive, AckIgnored, LoseFrame, LoseAck, LinkUp,
                  vars, senderVars, txVars, countVars
    <2> QED
      BY <2>1 DEF SameFront
  <1> QED
    BY <1>1, <1>2, <1>3, <1>4, <1>5, <1>6, <1>7, <1>8 DEF Next

\* If nothing new is in flight and every first entry is the old one or has a
\* fresh seq, seqs still identify.
LEMMA IdentifyKept ==
  ASSUME TypeOK, TypeOK', SeqsIdentify, reused => reused',
         \A k \in Ids : SameFront(k) \/ reused' \/ FreshFront(k),
         \A k \in Ids : last[k] <= last'[k],
         \A i \in 1 .. Len(wire') : \E j \in 1 .. Len(wire) : wire'[i] = wire[j],
         \A i \in 1 .. Len(acks') : \E j \in 1 .. Len(acks) : acks'[i] = acks[j]
  PROVE  SeqsIdentify'
  <1> SUFFICES ASSUME ~reused'
               PROVE  SeqsIdentify'
    BY DEF SeqsIdentify
  <1>1. ASSUME NEW i \in 1 .. Len(wire'), NEW k \in Ids, k = wire'[i].id,
               pending'[k] # <<>>, pending'[k][1].expected_seq = wire'[i].seq
        PROVE  wire'[i].msg = popped'[k] + 1
    <2>1. PICK j \in 1 .. Len(wire) : wire'[i] = wire[j]
      OBVIOUS
    <2>2. SameFront(k)
      BY <1>1, <2>1 DEF FreshFront, CopyInFlight
    <2> QED
      BY <1>1, <2>1, <2>2 DEF SameFront, SeqsIdentify
  <1>2. ASSUME NEW i \in 1 .. Len(acks'), NEW k \in Ids, k = acks'[i].id,
               pending'[k] # <<>>, pending'[k][1].expected_seq = acks'[i].seq
        PROVE  last'[k] >= popped'[k] + 1
    <2>1. PICK j \in 1 .. Len(acks) : acks'[i] = acks[j]
      OBVIOUS
    <2>2. SameFront(k)
      BY <1>2 DEF FreshFront, CopyInFlight
    <2>3. last[k] >= popped[k] + 1
      BY <1>2, <2>1, <2>2 DEF SameFront, SeqsIdentify
    <2>4. last[k] \in Nat /\ last'[k] \in Nat /\ popped[k] \in Nat /\ last[k] <= last'[k]
      BY DEF TypeOK
    <2>5. popped'[k] = popped[k]
      BY <2>2 DEF SameFront
    <2> QED
      BY <2>3, <2>4, <2>5
  <1>3. \A i \in 1 .. Len(wire') : wire'[i].id \in Ids
    <2> SUFFICES ASSUME NEW i \in 1 .. Len(wire')
                 PROVE  wire'[i].id \in Ids
      OBVIOUS
    <2>1. wire'[i] \in Frame
      BY ElementOfSeq DEF TypeOK
    <2> QED
      BY <2>1 DEF Frame
  <1>4. \A i \in 1 .. Len(acks') : acks'[i].id \in Ids
    <2> SUFFICES ASSUME NEW i \in 1 .. Len(acks')
                 PROVE  acks'[i].id \in Ids
      OBVIOUS
    <2>1. acks'[i] \in Ack
      BY ElementOfSeq DEF TypeOK
    <2> QED
      BY <2>1 DEF Ack
  <1> QED
    BY <1>1, <1>2, <1>3, <1>4 DEF SeqsIdentify

\* The elements of a tail, or of a sequence with one element removed.
LEMMA TailElements ==
  ASSUME NEW S, NEW s \in Seq(S), s # <<>>
  PROVE  \A i \in 1 .. Len(Tail(s)) : \E j \in 1 .. Len(s) : Tail(s)[i] = s[j]
  <1>1. /\ Len(s) \in Nat /\ Len(Tail(s)) = Len(s) - 1
        /\ \A i \in 1 .. Len(Tail(s)) : Tail(s)[i] = s[i + 1]
    BY HeadTailProperties, LenZero
  <1>2. \A i \in 1 .. Len(Tail(s)) : i + 1 \in 1 .. Len(s)
    BY <1>1
  <1> QED
    BY <1>1, <1>2

\* RemoveAt, too, leaves only elements that were there.
LEMMA RemoveAtElements ==
  ASSUME NEW S, NEW s \in Seq(S), NEW n \in 1 .. Len(s)
  PROVE  \A i \in 1 .. Len(RemoveAt(s, n)) :
           \E j \in 1 .. Len(s) : RemoveAt(s, n)[i] = s[j]
  <1>1. /\ Len(s) \in Nat /\ Len(RemoveAt(s, n)) = Len(s) - 1
        /\ \A j \in 1 .. Len(s) - 1 :
             RemoveAt(s, n)[j] = IF j < n THEN s[j] ELSE s[j + 1]
    BY RemoveAtProperties, LenZero
  <1> QED
    BY <1>1

\* A new frame of the message being sent carries the right number.
LEMMA TransmitIdentify ==
  ASSUME TypeOK, TypeOK', QueueShape, OneCurrentWrite, SeqsIdentify, Transmit
  PROVE  SeqsIdentify'
  <1> DEFINE w == tx_queue[1]
             f == [id |-> w.id, seq |-> w.seq, msg |-> w.msg]
  <1>1. /\ w \in Write /\ 1 \in 1 .. Len(tx_queue)
        /\ wire' = Append(wire, f)
        /\ UNCHANGED <<last, popped, pending, acks, reused>>
    BY DEF Transmit, TypeOK, countVars, senderVars
  <1>2. /\ w.id \in Ids /\ f \in Frame
        /\ f.id = w.id /\ f.msg = w.msg
    BY <1>1 DEF Write, Frame
  <1>3. w.msg = popped[w.id] + 1
    <2>1. pending[w.id] # <<>> /\ w.msg = pending[w.id][1].msg
      <3>1. pending[w.id] # <<>> /\ WriteOf(w.id, pending[w.id][1]) = w
        BY <1>1 DEF OneCurrentWrite, IsLatestWrite
      <3>2. WriteOf(w.id, pending[w.id][1]).msg = pending[w.id][1].msg
        BY DEF WriteOf
      <3> QED
        BY <3>1, <3>2
    <2>2. Len(pending[w.id]) \in Nat /\ Len(pending[w.id]) # 0
      BY <1>2, <2>1, LenZero DEF TypeOK
    <2>3. pending[w.id][1].msg = popped[w.id] + 1
      BY <1>2, <2>2 DEF QueueShape, QueueShapeOf
    <2> QED
      BY <2>1, <2>3
  <1> HIDE DEF f, w
  <1>4. /\ Len(wire) \in Nat
        /\ Len(wire') = Len(wire) + 1
        /\ \A i \in 1 .. Len(wire) : wire'[i] = wire[i]
        /\ wire'[Len(wire) + 1] = f
    BY <1>1, <1>2, AppendProperties, LenZero DEF TypeOK
  <1>5. \A i \in 1 .. Len(wire') : i \in 1 .. Len(wire) \/ i = Len(wire) + 1
    BY <1>4
  <1> QED
    BY <1>1, <1>2, <1>3, <1>4, <1>5 DEF SeqsIdentify

\* The ACK of the message being sent is sent after its delivery.
LEMMA ReceiveIdentify ==
  ASSUME TypeOK, TypeOK', FramesInOrder, SeqsIdentify, McuReceive
  PROVE  SeqsIdentify'
  <1> DEFINE f == wire[1]
             a == [id |-> f.id, seq |-> f.seq]
  <1>1. /\ wire # <<>> /\ wire \in Seq(Frame) /\ acks \in Seq(Ack)
        /\ last' = [last EXCEPT ![f.id] = f.msg]
        /\ acks' = Append(acks, a)
        /\ wire' = Tail(wire)
        /\ UNCHANGED <<popped, pending, reused>>
    BY DEF McuReceive, TypeOK, countVars, senderVars
  <1>2. Len(wire) \in Nat /\ 1 \in 1 .. Len(wire)
    <2>1. Len(wire) \in Nat /\ Len(wire) # 0
      BY <1>1, LenZero
    <2> QED
      BY <2>1
  <1>3. f.id \in Ids /\ f.msg \in Nat /\ f.seq \in Seqs
    BY <1>1, <1>2, FrameFields
  <1>4. a \in Ack /\ a.id = f.id /\ a.seq = f.seq
    BY <1>3 DEF Ack
  <1>5. ~reused /\ pending[f.id] # <<>> /\ pending[f.id][1].expected_seq = f.seq
          => f.msg = popped[f.id] + 1
    BY <1>2 DEF SeqsIdentify
  <1>6. last'[f.id] = f.msg
    BY <1>1, <1>3 DEF TypeOK
  <1> HIDE DEF f, a
  <1>7. /\ Len(acks) \in Nat
        /\ Len(acks') = Len(acks) + 1
        /\ \A i \in 1 .. Len(acks) : acks'[i] = acks[i]
        /\ acks'[Len(acks) + 1] = a
    BY <1>1, <1>4, AppendProperties, LenZero
  <1>8. \A i \in 1 .. Len(acks') : i \in 1 .. Len(acks) \/ i = Len(acks) + 1
    BY <1>7
  <1>9. \A i \in 1 .. Len(wire') : \E j \in 1 .. Len(wire) : wire'[i] = wire[j]
    BY <1>1, TailElements
  <1>10. \A k \in Ids : /\ last[k] <= last'[k] /\ last[k] \in Nat
                        /\ last'[k] \in Nat /\ popped[k] \in Nat
    BY FramesReceive DEF TypeOK
  <1>11. ASSUME NEW i \in 1 .. Len(acks'), ~reused, NEW k \in Ids, k = acks'[i].id,
                pending[k] # <<>>, pending[k][1].expected_seq = acks'[i].seq
         PROVE  last'[k] >= popped[k] + 1
    <2>1. CASE i \in 1 .. Len(acks)
      <3>1. last[k] >= popped[k] + 1
        BY <1>7, <1>11, <2>1 DEF SeqsIdentify
      <3> QED
        BY <1>10, <3>1
    <2>2. CASE i = Len(acks) + 1
      <3>1. k = f.id /\ last'[k] = popped[k] + 1
        BY <1>4, <1>5, <1>6, <1>7, <1>11, <2>2
      <3> QED
        BY <1>10, <3>1
    <2> QED
      BY <1>8, <2>1, <2>2
  <1>12. \A i \in 1 .. Len(acks') : acks'[i].id \in Ids
    <2> SUFFICES ASSUME NEW i \in 1 .. Len(acks')
                 PROVE  acks'[i].id \in Ids
      OBVIOUS
    <2>1. acks'[i] \in Ack
      BY ElementOfSeq DEF TypeOK
    <2> QED
      BY <2>1 DEF Ack
  <1> QED
    BY <1>1, <1>9, <1>11, <1>12 DEF SeqsIdentify

-----------------------------------------------------------------------------
(* The inductive invariant and the theorems.                               *)

\* Submissions and completions are only ever counted up.
LEMMA CountsGrow ==
  ASSUME TypeOK, [Next]_vars
  PROVE  /\ \A k \in Ids : popped[k] <= popped'[k] /\ sent[k] <= sent'[k]
         /\ ~AckAccepted => UNCHANGED popped
         /\ ~McuReceive => UNCHANGED last
         /\ ~(Transmit \/ McuReceive \/ LoseFrame) => UNCHANGED wire
         /\ ~(McuReceive \/ AckAccepted \/ AckIgnored \/ LoseAck) => UNCHANGED acks
  <1>1. \A k \in Ids : /\ popped[k] \in Nat /\ sent[k] \in Nat
                       /\ popped[k] <= popped[k] /\ sent[k] <= sent[k]
                       /\ popped[k] <= popped[k] + 1 /\ sent[k] <= sent[k] + 1
    BY DEF TypeOK
  <1>2. ASSUME NEW j \in Ids, Send(j)
        PROVE  /\ \A k \in Ids : sent'[k] = sent[k] \/ sent'[k] = sent[k] + 1
               /\ UNCHANGED <<popped, last, wire, acks>>
    BY <1>2 DEF Send, TypeOK, lineVars
  <1>3. CASE AckAccepted
    <2>1. /\ UNCHANGED <<sent, last, wire>>
          /\ \A k \in Ids : popped'[k] = popped[k] \/ popped'[k] = popped[k] + 1
      BY <1>3 DEF AckAccepted, TypeOK
    <2> QED
      BY <1>1, <1>3, <2>1
  <1>4. ASSUME NEW k \in Ids, TimerExpires(k)
        PROVE  UNCHANGED <<popped, sent, last, wire, acks>>
    BY <1>4 DEF TimerExpires, lineVars, countVars
  <1>5. ASSUME NEW k \in Ids, NEW s \in Seqs, RetryTimeout(k, s)
        PROVE  UNCHANGED <<popped, sent, last, wire, acks>>
    BY <1>5 DEF RetryTimeout, lineVars, countVars
  <1>6. CASE WriteDone \/ LinkDown \/ LinkUp \/ Shutdown \/ UNCHANGED vars
    <2>1. UNCHANGED <<popped, sent, last, wire, acks>>
      BY <1>6 DEF WriteDone, LinkDown, LinkUp, Shutdown, lineVars, countVars, vars
    <2> QED
      BY <1>1, <2>1
  <1>7. CASE Transmit \/ McuReceive \/ AckIgnored \/ LoseFrame \/ LoseAck
    <2>1. UNCHANGED <<popped, sent>>
      BY <1>7 DEF Transmit, McuReceive, AckIgnored, LoseFrame, LoseAck, countVars
    <2>2. ~McuReceive => UNCHANGED last
      BY <1>7 DEF Transmit, AckIgnored, LoseFrame, LoseAck
    <2>3. ~(Transmit \/ McuReceive \/ LoseFrame) => UNCHANGED wire
      BY <1>7 DEF AckIgnored, LoseAck
    <2>4. ~(McuReceive \/ AckAccepted \/ AckIgnored \/ LoseAck) => UNCHANGED acks
      BY <1>7 DEF Transmit, LoseFrame
    <2> QED
      BY <1>1, <2>1, <2>2, <2>3, <2>4
  <1> QED
    BY <1>1, <1>2, <1>3, <1>4, <1>5, <1>6, <1>7 DEF Next

\* Every step keeps the frames in order, and deliveries never go back.
LEMMA FramesInOrderStep ==
  ASSUME TypeOK, TypeOK', QueueShape, OneCurrentWrite, FramesInOrder, [Next]_vars
  PROVE  FramesInOrder' /\ \A k \in Ids : last[k] <= last'[k]
  <1>1. \A k \in Ids : last[k] <= last[k]
    BY DEF TypeOK
  <1>2. CASE Transmit
    BY <1>1, <1>2, FramesTransmit DEF Transmit
  <1>3. CASE McuReceive
    BY <1>3, FramesReceive
  <1>4. CASE LoseFrame
    BY <1>1, <1>4, FramesLose DEF LoseFrame
  <1>5. CASE ~(Transmit \/ McuReceive \/ LoseFrame)
    BY <1>1, <1>5, CountsGrow, FramesMonotone
  <1> QED
    BY <1>2, <1>3, <1>4, <1>5

\* Every step keeps what seqs identify.
LEMMA SeqsIdentifyStep ==
  ASSUME TypeOK, TypeOK', QueueShape, OneCurrentWrite, FramesInOrder,
         SeqsIdentify, [Next]_vars
  PROVE  SeqsIdentify'
  <1>1. CASE ~(Transmit \/ McuReceive)
    <2>0. wire \in Seq(Frame) /\ acks \in Seq(Ack)
      BY DEF TypeOK
    <2>1. \A i \in 1 .. Len(wire') : \E j \in 1 .. Len(wire) : wire'[i] = wire[j]
      <3>1. CASE LoseFrame
        <4>1. PICK n \in 1 .. Len(wire) : wire' = RemoveAt(wire, n)
          BY <3>1 DEF LoseFrame
        <4> QED
          BY <4>1, <2>0, RemoveAtElements
      <3>2. CASE ~LoseFrame
        BY <1>1, <3>2, CountsGrow
      <3> QED
        BY <3>1, <3>2
    <2>2. \A i \in 1 .. Len(acks') : \E j \in 1 .. Len(acks) : acks'[i] = acks[j]
      <3>1. CASE LoseAck
        <4>1. PICK n \in 1 .. Len(acks) : acks' = RemoveAt(acks, n)
          BY <3>1 DEF LoseAck
        <4> QED
          BY <4>1, <2>0, RemoveAtElements
      <3>2. CASE AckAccepted \/ AckIgnored
        <4>1. acks # <<>> /\ acks' = Tail(acks)
          BY <3>2 DEF AckAccepted, AckIgnored
        <4> QED
          BY <4>1, TailElements DEF TypeOK
      <3>3. CASE ~(LoseAck \/ AckAccepted \/ AckIgnored)
        BY <1>1, <3>3, CountsGrow
      <3> QED
        BY <3>1, <3>2, <3>3
    <2> QED
      BY <2>1, <2>2, FrontStep, FramesInOrderStep, IdentifyKept
  <1> QED
    BY <1>1, TransmitIdentify, ReceiveIdentify

\* An entry is removed by an ACK that was sent after its delivery.
LEMMA AtLeastOnceStep ==
  ASSUME TypeOK, TypeOK', QueueShape, OneCurrentWrite, FramesInOrder,
         SeqsIdentify, AtLeastOnce, [Next]_vars
  PROVE  AtLeastOnce'
  <1> SUFFICES ASSUME ~reused', NEW k \in Ids
               PROVE  popped'[k] <= last'[k]
    BY DEF AtLeastOnce
  <1>1. ~reused /\ popped[k] <= last[k]
    BY FrontStep DEF AtLeastOnce
  <1>2. last[k] <= last'[k]
    BY FramesInOrderStep
  <1>3. popped'[k] <= last[k]
    <2>1. CASE ~AckAccepted
      BY <1>1, <2>1, CountsGrow
    <2>2. CASE AckAccepted
      <3>1. PICK j \in Ids : j = acks[1].id
        <4>1. acks[1] \in Ack
          BY <2>2 DEF AckAccepted, TypeOK
        <4> QED
          BY <4>1 DEF Ack
      <3>2. /\ pending[j] # <<>> /\ pending[j][1].expected_seq = acks[1].seq
            /\ popped' = [popped EXCEPT ![j] = @ + 1]
            /\ acks # <<>> /\ acks \in Seq(Ack)
        BY <2>2, <3>1 DEF AckAccepted, Accepts, TypeOK
      <3>3. 1 \in 1 .. Len(acks)
        <4>1. Len(acks) \in Nat /\ Len(acks) # 0
          BY <3>2, LenZero
        <4> QED
          BY <4>1
      <3>4. last[j] >= popped[j] + 1
        BY <1>1, <3>1, <3>2, <3>3 DEF SeqsIdentify
      <3>5. popped'[k] = IF k = j THEN popped[k] + 1 ELSE popped[k]
        BY <3>2 DEF TypeOK
      <3>6. popped[k] \in Nat /\ last[k] \in Nat
        BY DEF TypeOK
      <3> QED
        BY <1>1, <3>4, <3>5, <3>6
    <2> QED
      BY <2>1, <2>2
  <1>4. popped'[k] \in Nat /\ last[k] \in Nat /\ last'[k] \in Nat
    BY DEF TypeOK
  <1> QED
    BY <1>2, <1>3, <1>4

\* The inductive invariant holds in every reachable state, for any ids, any
\* widths of seq and generation and any capacity of the queues.
THEOREM Inductive == Spec => []IndInv
  <1>1. Init => QueueShape /\ OneCurrentWrite /\ NeverStranded
                 /\ FramesInOrder /\ SeqsIdentify /\ AtLeastOnce
    <2> SUFFICES ASSUME Init
                 PROVE  QueueShape /\ OneCurrentWrite /\ NeverStranded
                          /\ FramesInOrder /\ SeqsIdentify /\ AtLeastOnce
      OBVIOUS
    <2>1. Len(<<>>) = 0 /\ 1 .. 0 = {} /\ 2 .. 0 = {} /\ 0 <= 0 /\ 0 + 0 = 0
          /\ 0 <= 0 + 1
      BY EmptySeq
    <2>2. QueueShape
      BY <2>1 DEF Init, QueueShape, QueueShapeOf
    <2>3. OneCurrentWrite /\ NeverStranded
      BY <2>1 DEF Init, OneCurrentWrite, NeverStranded, HasFuture
    <2>4. FramesInOrder /\ SeqsIdentify /\ AtLeastOnce
      BY <2>1 DEF Init, FramesInOrder, SeqsIdentify, AtLeastOnce
    <2> QED
      BY <2>2, <2>3, <2>4
  <1>2. TypeOK /\ TypeOK' /\ IndInv /\ [Next]_vars => IndInv'
    BY QueueShapeStep, OneCurrentWriteStep, NeverStrandedStep,
       FramesInOrderStep, SeqsIdentifyStep, AtLeastOnceStep DEF IndInv
  <1>3. Init /\ TypeOK => IndInv
    BY <1>1 DEF IndInv
  <1> QED
    BY <1>2, <1>3, TypeCorrect, PTL DEF Spec

\* At-least-once delivery (README.md, "config"): no message leaves its queue
\* before the MCU callback has had it, as long as no seq is in use twice.
THEOREM DeliversAtLeastOnce == Spec => []AtLeastOnce
  BY Inductive, PTL DEF IndInv

\* One write at a time per id, and no completion out of date.
THEOREM WritesOneAtATime == Spec => []OneCurrentWrite
  BY Inductive, PTL DEF IndInv

\* Every queue that holds a message has something that will wake it.
THEOREM StrandsNothing == Spec => []NeverStranded
  BY Inductive, PTL DEF IndInv

\* The MCU callback of an id never sees an older message after a newer one,
\* whatever is lost, repeated or reused.
THEOREM DeliversInOrder == Spec => InOrder
  <1>1. IndInv /\ TypeOK' /\ [Next]_vars => [\A k \in Ids : last'[k] >= last[k]]_vars
    <2> SUFFICES ASSUME IndInv, TypeOK', [Next]_vars
                 PROVE  \A k \in Ids : last'[k] >= last[k]
      OBVIOUS
    <2>1. \A k \in Ids : last[k] <= last'[k]
      BY FramesInOrderStep DEF IndInv
    <2>2. \A k \in Ids : last[k] \in Nat /\ last'[k] \in Nat
      BY DEF IndInv, TypeOK
    <2> QED
      BY <2>1, <2>2
  <1> QED
    BY <1>1, Inductive, TypeCorrect, PTL DEF Spec, InOrder

-----------------------------------------------------------------------------
(* Refinement.                                                             *)

ClosedEmpty == closed => \A k \in Ids : pending[k] = <<>>

\* A handler that still runs after clear_all finds no entry and makes none.
THEOREM ClosedStaysEmpty == Spec => []ClosedEmpty
  <1>1. Init => ClosedEmpty
    BY DEF Init, ClosedEmpty
  <1>2. TypeOK /\ ClosedEmpty /\ [Next]_vars => ClosedEmpty'
    <2> SUFFICES ASSUME TypeOK, ClosedEmpty, [Next]_vars, closed'
                 PROVE  \A k \in Ids : pending'[k] = <<>>
      BY DEF ClosedEmpty
    <2>1. CASE Shutdown
      BY <2>1 DEF Shutdown
    <2>2. CASE ~Shutdown
      <3>1. UNCHANGED closed
        BY <2>2 DEF Next, Send, TimerExpires, RetryTimeout, Transmit, WriteDone,
           McuReceive, AckAccepted, AckIgnored, LoseFrame, LoseAck, LinkDown,
           LinkUp, vars, txVars
      <3>2. closed /\ \A k \in Ids : pending[k] = <<>>
        BY <3>1 DEF ClosedEmpty
      <3>3. ~(\E k \in Ids : Send(k)) /\ ~(\E k \in Ids : TimerExpires(k))
        BY <3>2 DEF Send, TimerExpires
      <3>4. ~AckAccepted
        <4>1. acks # <<>> => acks[1].id \in Ids
          <5>1. acks # <<>> => acks[1] \in Ack
            BY DEF TypeOK
          <5> QED
            BY <5>1 DEF Ack
        <4> QED
          BY <3>2, <4>1 DEF AckAccepted, Accepts
      <3>5. ASSUME NEW k \in Ids, NEW s \in Seqs, RetryTimeout(k, s)
            PROVE  UNCHANGED pending
        BY <3>2, <3>5 DEF RetryTimeout
      <3>6. CASE WriteDone
        <4>1. tx_queue[1].id \in Ids
          <5>1. tx_queue[1] \in Write
            BY <3>6 DEF WriteDone, TypeOK
          <5> QED
            BY <5>1 DEF Write
        <4>2. UNCHANGED pending
          BY <3>2, <3>6, <4>1 DEF WriteDone, IsCurrent
        <4> QED
          BY <3>2, <4>2
      <3>7. CASE LinkDown
        <4>1. \A k \in Ids : Failed(k) = pending[k]
          BY <3>2 DEF Failed, IsCurrent
        <4> QED
          BY <3>2, <3>7, <4>1 DEF LinkDown
      <3>8. CASE \/ Transmit \/ McuReceive \/ AckIgnored
                 \/ LoseFrame \/ LoseAck \/ LinkUp \/ UNCHANGED vars
        <4>1. UNCHANGED pending
          BY <3>8 DEF Transmit, McuReceive, AckIgnored, LoseFrame, LoseAck,
                      LinkUp, vars, senderVars
        <4> QED
          BY <3>2, <4>1
      <3> QED
        BY <2>2, <3>2, <3>3, <3>4, <3>5, <3>6, <3>7, <3>8 DEF Next
    <2> QED
      BY <2>1, <2>2
  <1> QED
    BY <1>1, <1>2, TypeCorrect, PTL DEF Spec

\* A number between n and n + 1 is one of the two.
LEMMA BetweenIsNext ==
  ASSUME NEW d \in Nat, NEW c \in Nat, NEW m \in Nat, NEW s \in Nat,
         c <= d, d <= m, m <= c + 1, m <= s, m # d
  PROVE  m = d + 1 /\ d = c /\ d < s
  OBVIOUS

\* One step of the channel is one step of its promise, or none.
LEMMA StepKeepsPromise ==
  ASSUME IndInv, IndInv', ClosedEmpty, ~reused, [Next]_vars
  PROVE  [Promise!Next]_Promise!vars
  <1> USE DEF Promise!Next, Promise!vars
  <1>1. ASSUME NEW k \in Ids, Send(k)
        PROVE  Promise!Submit(k)
    BY <1>1 DEF Send, lineVars, Promise!Submit
  <1>2. CASE McuReceive
    <2> DEFINE f == wire[1]
    <2>1. /\ wire # <<>> /\ wire \in Seq(Frame)
          /\ last' = [last EXCEPT ![f.id] = f.msg]
          /\ UNCHANGED <<sent, popped, closed>>
      BY <1>2 DEF McuReceive, IndInv, TypeOK, countVars, txVars
    <2>2. 1 \in 1 .. Len(wire)
      <3>1. Len(wire) \in Nat /\ Len(wire) # 0
        BY <2>1, LenZero
      <3> QED
        BY <3>1
    <2>3. f.id \in Ids /\ f.msg \in Nat
      BY <2>1, <2>2, FrameFields
    <2>4. PICK k \in Ids : k = f.id
      BY <2>3
    <2>5. last[k] <= f.msg /\ f.msg <= popped[k] + 1 /\ f.msg <= sent[k]
      BY <2>2, <2>4 DEF IndInv, FramesInOrder
    <2>6. popped[k] <= last[k]
      BY DEF IndInv, AtLeastOnce
    <2>7. last[k] \in Nat /\ popped[k] \in Nat /\ sent[k] \in Nat /\ last \in [Ids -> Nat]
      BY DEF IndInv, TypeOK
    <2>8. CASE f.msg = last[k]
      BY <2>1, <2>4, <2>7, <2>8
    <2>9. CASE f.msg # last[k]
      <3>1. f.msg = last[k] + 1 /\ last[k] = popped[k] /\ last[k] < sent[k]
        BY <2>3, <2>5, <2>6, <2>7, <2>9, BetweenIsNext
      <3>2. last' = [last EXCEPT ![k] = last[k] + 1]
        BY <2>1, <2>4, <3>1
      <3> QED
        BY <2>1, <3>1, <3>2 DEF Promise!Deliver
    <2> QED
      BY <2>8, <2>9
  <1>3. CASE AckAccepted
    <2>1. acks[1].id \in Ids /\ 1 \in 1 .. Len(acks)
      <3>1. acks # <<>> /\ acks \in Seq(Ack)
        BY <1>3 DEF AckAccepted, IndInv, TypeOK
      <3>2. acks[1] \in Ack /\ Len(acks) \in Nat /\ Len(acks) # 0
        BY <3>1, LenZero
      <3> QED
        BY <3>2 DEF Ack
    <2>2. PICK k \in Ids : k = acks[1].id
      BY <2>1
    <2>3. /\ pending[k] # <<>> /\ pending[k][1].expected_seq = acks[1].seq
          /\ popped' = [popped EXCEPT ![k] = @ + 1]
          /\ UNCHANGED <<sent, last, closed>>
      BY <1>3, <2>2 DEF AckAccepted, Accepts
    <2>4. ~closed
      BY <2>3 DEF ClosedEmpty
    <2>5. popped[k] < last[k]
      <3>1. last[k] >= popped[k] + 1
        BY <2>1, <2>2, <2>3 DEF IndInv, SeqsIdentify
      <3>2. last[k] \in Nat /\ popped[k] \in Nat
        BY DEF IndInv, TypeOK
      <3> QED
        BY <3>1, <3>2
    <2> QED
      BY <2>3, <2>4, <2>5 DEF Promise!Complete
  <1>4. CASE Shutdown
    BY <1>4 DEF Shutdown, lineVars, countVars, Promise!Stop
  <1>5. ASSUME NEW k \in Ids, TimerExpires(k)
        PROVE  UNCHANGED <<sent, last, popped, closed>>
    BY <1>5 DEF TimerExpires, lineVars, countVars, txVars
  <1>6. ASSUME NEW k \in Ids, NEW s \in Seqs, RetryTimeout(k, s)
        PROVE  UNCHANGED <<sent, last, popped, closed>>
    BY <1>6 DEF RetryTimeout, lineVars, countVars
  <1>7. CASE \/ Transmit \/ WriteDone \/ AckIgnored \/ LoseFrame \/ LoseAck
             \/ LinkDown \/ LinkUp \/ UNCHANGED vars
    <2>1. UNCHANGED <<sent, last, popped, closed>>
      BY <1>7 DEF Transmit, WriteDone, AckIgnored, LoseFrame, LoseAck, LinkDown,
                  LinkUp, lineVars, countVars, txVars, vars
    <2> QED
      BY <2>1
  <1> QED
    BY <1>1, <1>2, <1>3, <1>4, <1>5, <1>6, <1>7 DEF Next

\* While no seq is assigned that is still in flight, the channel implements
\* the ordered at-least-once queue it promises to be.
THEOREM KeepsPromise == Spec /\ [](~reused) => ImplementsPromise
  <1>1. Init => Promise!Init
    BY DEF Init, Promise!Init
  <1> QED
    BY <1>1, StepKeepsPromise, Inductive, ClosedStaysEmpty, PTL
       DEF Spec, ImplementsPromise, Promise!Spec
=============================================================================
