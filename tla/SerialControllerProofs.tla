----------------------- MODULE SerialControllerProofs -----------------------
(***************************************************************************)
(* The controller keeps its books whatever ends, refuses or resets: for    *)
(* any sizes of its queues and of the ring, any number of faults and       *)
(* racing threads, with or without handshake. Its destructor waits for     *)
(* every handler in flight, and is woken.                                  *)
(***************************************************************************)
EXTENDS SerialController, FiniteSetTheorems, SequenceTheorems, TLAPS

\* What the controller is left alone in by an operation that only counts,
\* posts or notifies.
Same(c, d) ==
  /\ c.is_connected = d.is_connected /\ c.ready_state = d.ready_state
  /\ c.state = d.state /\ c.ring = d.ring
  /\ c.tx_queue = d.tx_queue /\ c.tx_write_in_progress = d.tx_write_in_progress
  /\ c.reading = d.reading /\ c.writing = d.writing /\ c.stale_ops = d.stale_ops

\* Each operation in flight is counted.
Accounted(c) ==
  c.pending_serial_ops = c.stale_ops + One(c.reading) + One(c.writing)

\* Holds at every point of a handler outside the functions below.
Consistent(c) ==
  /\ c \in Ctl /\ Accounted(c)
  /\ c.reading \/ c.writing => c.is_connected
  /\ c.tx_write_in_progress = c.writing
  /\ c.writing => c.tx_queue # <<>>
  /\ c.state = "WAITING_HANDSHAKE" =>
       /\ RequireHandshake
       /\ \A i \in 1 .. Len(c.tx_queue) : c.tx_queue[i].id = "handshake"

Served(c) == c.tx_queue # <<>> => c.writing

\* A controller with a closed port.
Closed(c) ==
  /\ ~c.is_connected /\ ~c.ready_state /\ ~c.reading /\ ~c.writing
  /\ c.tx_queue = <<>> /\ c.ring = <<>> /\ c.state = FirstState

-----------------------------------------------------------------------------
(* The member functions.                                                   *)

\* Counters are numbers.
LEMMA CountsType == 0 \in Counts /\ Counts \subseteq Nat
BY SizeAssumption DEF Counts

\* Completions only count.
LEMMA CompleteKeeps ==
  ASSUME NEW c \in Ctl, NEW fs \in Seq(Frame)
  PROVE  /\ Complete(c, fs) \in Ctl /\ Same(c, Complete(c, fs))
         /\ Complete(c, fs).pending_serial_ops = c.pending_serial_ops
         /\ Complete(c, fs) = [c EXCEPT !.called = Complete(c, fs).called]
<1> DEFINE called == [a \in DOMAIN c.called |->
              c.called[a] + Cardinality({i \in 1 .. Len(fs) : fs[i].attempt = a})]
<1>1. c.called \in [1 .. MaxAttempts -> Nat]
  BY DEF Ctl
<1> DEFINE Ended(a) == Cardinality({i \in 1 .. Len(fs) : fs[i].attempt = a})
<1>2. ASSUME NEW a PROVE Ended(a) \in Nat
  <2>1. IsFiniteSet(1 .. Len(fs))
    BY FS_Interval
  <2>2. IsFiniteSet({i \in 1 .. Len(fs) : fs[i].attempt = a})
    BY <2>1, FS_Subset
  <2> QED
    BY <2>2, FS_CardinalityType
<1>3. called \in [1 .. MaxAttempts -> Nat]
  <2>1. DOMAIN c.called = 1 .. MaxAttempts /\ \A a \in 1 .. MaxAttempts : c.called[a] \in Nat
    BY <1>1
  <2>2. called = [a \in 1 .. MaxAttempts |-> c.called[a] + Ended(a)]
    BY <2>1
  <2> HIDE DEF Ended, called
  <2> QED
    BY <1>2, <2>1, <2>2
<1>4. Complete(c, fs) = [c EXCEPT !.called = called]
  BY DEF Complete
<1> HIDE DEF called
<1> QED
  BY <1>3, <1>4 DEF Ctl, Same

\* Posting.
LEMMA PostKeeps ==
  ASSUME NEW c \in Ctl, NEW t \in Task
  PROVE  /\ Post(c, t) \in Ctl /\ Same(c, Post(c, t))
         /\ Post(c, t).pending_serial_ops = c.pending_serial_ops
         /\ Notify(c) \in Ctl /\ Same(c, Notify(c))
         /\ Notify(c).pending_serial_ops = c.pending_serial_ops
<1>1. Do("drained") \in Task
  BY CountsType, SizeAssumption DEF Do, Task, Handshake, Frame
<1>2. c.strand \in Seq(Task)
  BY DEF Ctl
<1>3. Append(c.strand, t) \in Seq(Task) /\ Append(c.strand, Do("drained")) \in Seq(Task)
  BY <1>1, <1>2
<1>4. /\ Notify(c) \in Ctl /\ Same(c, Notify(c))
      /\ Notify(c).pending_serial_ops = c.pending_serial_ops
  BY <1>3 DEF Notify, Ctl, Same
<1>5. /\ Post(c, t) \in Ctl /\ Same(c, Post(c, t))
      /\ Post(c, t).pending_serial_ops = c.pending_serial_ops
  BY <1>3 DEF Post, Ctl, Same
<1> QED
  BY <1>4, <1>5

\* reset_serial
LEMMA ResetCloses ==
  ASSUME NEW c \in Ctl, Accounted(c)
  PROVE  Consistent(Reset(c)) /\ Closed(Reset(c))
<1> DEFINE d == Complete(c, c.tx_queue)
           r == [d EXCEPT
              !.ready_state = FALSE, !.is_connected = FALSE,
              !.stale_ops = @ + One(d.reading) + One(d.writing),
              !.reading = FALSE, !.writing = FALSE,
              !.shutdown_requested = TRUE,
              !.tx_queue = <<>>, !.tx_write_in_progress = FALSE,
              !.ring = <<>>,
              !.state = FirstState,
              !.heartbeat_count = 0, !.last_heartbeat_tx_count = 0,
              !.awaiting_heartbeat_ack = FALSE]
<1>1. d \in Ctl /\ Same(c, d) /\ d.pending_serial_ops = c.pending_serial_ops
  BY CompleteKeeps DEF Ctl
<1>2. Reset(c) = IF r.pending_serial_ops = 0 /\ r.drain = "waiting" THEN Notify(r) ELSE r
  BY <1>1 DEF Reset, Same
<1> HIDE DEF d
<1>3. /\ FirstState \in {"WAITING_HANDSHAKE", "RUNNING"}
      /\ FirstState = "WAITING_HANDSHAKE" => RequireHandshake
  BY DEF FirstState
<1>4. d.stale_ops + One(d.reading) + One(d.writing) \in Nat
  BY <1>1 DEF Ctl, One
<1>5. r \in Ctl
  <2> DEFINE stale == d.stale_ops + One(d.reading) + One(d.writing)
  <2>1. stale \in Nat
    BY <1>4
  <2>2. <<>> \in Seq(Frame) /\ <<>> \in Seq(Packet)
    OBVIOUS
  <2> DEFINE emptied == [d EXCEPT
                !.ready_state = FALSE, !.is_connected = FALSE, !.stale_ops = stale,
                !.reading = FALSE, !.writing = FALSE, !.shutdown_requested = TRUE]
             unqueued == [emptied EXCEPT
                !.tx_queue = <<>>, !.tx_write_in_progress = FALSE, !.ring = <<>>]
  <2>3. r = [unqueued EXCEPT
              !.state = FirstState,
              !.heartbeat_count = 0, !.last_heartbeat_tx_count = 0,
              !.awaiting_heartbeat_ack = FALSE]
    BY <1>1 DEF Ctl
  <2> HIDE DEF stale, r
  <2>4. emptied \in Ctl
    BY <1>1, <2>1 DEF Ctl
  <2> HIDE DEF emptied
  <2>5. unqueued \in Ctl
    BY <2>2, <2>4 DEF Ctl
  <2> HIDE DEF unqueued
  <2> QED
    BY <1>3, <2>3, <2>5, CountsType DEF Ctl
<1>6. /\ Closed(r) /\ r.pending_serial_ops = d.pending_serial_ops
      /\ r.stale_ops = d.stale_ops + One(d.reading) + One(d.writing)
      /\ ~ r.tx_write_in_progress /\ r.state = FirstState
  BY <1>1 DEF Ctl, Closed
<1>7. Accounted(r)
  BY <1>1, <1>4, <1>6 DEF Accounted, Same, Closed, One
<1>8. Consistent(r)
  BY <1>3, <1>5, <1>6, <1>7 DEF Consistent, Closed
<1> HIDE DEF r
<1>9. Do("drained") \in Task
  BY CountsType, SizeAssumption DEF Do, Task, Handshake, Frame
<1>10. /\ Notify(r) \in Ctl /\ Same(r, Notify(r))
       /\ Notify(r).pending_serial_ops = r.pending_serial_ops
  BY <1>5, <1>9, PostKeeps
<1>11. Consistent(Notify(r)) /\ Closed(Notify(r))
  BY <1>6, <1>8, <1>10 DEF Consistent, Accounted, Closed, Same
<1> QED
  BY <1>2, <1>6, <1>8, <1>11

\* complete_serial_op
LEMMA CompleteOpCounts ==
  ASSUME NEW c \in Ctl, c.pending_serial_ops > 0
  PROVE  /\ CompleteOp(c) \in Ctl /\ Same(c, CompleteOp(c))
         /\ CompleteOp(c).pending_serial_ops = c.pending_serial_ops - 1
<1> DEFINE r == [c EXCEPT !.pending_serial_ops = IF @ > 0 THEN @ - 1 ELSE 0]
<1>1. c.pending_serial_ops \in Nat /\ c.pending_serial_ops - 1 \in Nat
  BY DEF Ctl
<1>2. /\ r \in Ctl /\ Same(c, r)
      /\ r.pending_serial_ops = c.pending_serial_ops - 1
  BY <1>1 DEF Ctl, Same
<1>3. CompleteOp(c) = r \/ CompleteOp(c) = Notify(r)
  BY DEF CompleteOp
<1> HIDE DEF r
<1>4. Do("drained") \in Task
  BY CountsType, SizeAssumption DEF Do, Task, Handshake, Frame
<1>5. /\ Notify(r) \in Ctl /\ Same(r, Notify(r))
      /\ Notify(r).pending_serial_ops = r.pending_serial_ops
  BY <1>2, <1>4, PostKeeps
<1> QED
  BY <1>2, <1>3, <1>5 DEF Same

\* The end of an operation that was in flight.
LEMMA ReadOver ==
  ASSUME NEW c \in Ctl, Accounted(c), c.reading
  PROVE  LET r == [CompleteOp(c) EXCEPT !.reading = FALSE] IN
         /\ r \in Ctl /\ Accounted(r) /\ Same([c EXCEPT !.reading = FALSE], r)
         /\ Consistent(c) => Consistent(r)
<1> DEFINE d == CompleteOp(c)
           r == [d EXCEPT !.reading = FALSE]
<1>1. c.pending_serial_ops > 0 /\ c.stale_ops \in Nat /\ c.writing \in BOOLEAN
  BY DEF Ctl, Accounted, One
<1>2. d \in Ctl /\ Same(c, d) /\ d.pending_serial_ops = c.pending_serial_ops - 1
  BY <1>1, CompleteOpCounts
<1> HIDE DEF d
<1>3. /\ r \in Ctl /\ Same([c EXCEPT !.reading = FALSE], r) /\ ~ r.reading
      /\ r.pending_serial_ops = d.pending_serial_ops
  BY <1>2 DEF Ctl, Same
<1>4. /\ r.writing = c.writing /\ r.stale_ops = c.stale_ops
      /\ r.is_connected = c.is_connected /\ r.tx_queue = c.tx_queue
      /\ r.tx_write_in_progress = c.tx_write_in_progress /\ r.state = c.state
  BY <1>2 DEF Ctl, Same
<1> HIDE DEF r
<1>5. Accounted(r)
  BY <1>1, <1>2, <1>3, <1>4 DEF Accounted, One
<1>6. ASSUME Consistent(c) PROVE Consistent(r)
  <2>1. r.reading \/ r.writing => r.is_connected
    BY <1>3, <1>4, <1>6 DEF Consistent
  <2>2. r.tx_write_in_progress = r.writing
    BY <1>4, <1>6 DEF Consistent
  <2>3. r.state = "WAITING_HANDSHAKE" =>
          /\ RequireHandshake
          /\ \A i \in 1 .. Len(r.tx_queue) : r.tx_queue[i].id = "handshake"
    BY <1>4, <1>6 DEF Consistent
  <2>4. r.writing => r.tx_queue # <<>>
    BY <1>4, <1>6 DEF Consistent
  <2> QED
    BY <1>3, <1>5, <2>1, <2>2, <2>3, <2>4 DEF Consistent
<1> QED
  BY <1>3, <1>5, <1>6 DEF r, d

\* The end of a write likewise.
LEMMA WriteEnds ==
  ASSUME NEW c \in Ctl, Accounted(c), c.writing
  PROVE  LET r == [CompleteOp(c) EXCEPT !.writing = FALSE, !.tx_write_in_progress = FALSE] IN
         /\ r \in Ctl /\ Accounted(r)
         /\ Same([c EXCEPT !.writing = FALSE, !.tx_write_in_progress = FALSE], r)
         /\ Consistent(c) => Consistent(r)
<1> DEFINE d == CompleteOp(c)
           r == [d EXCEPT !.writing = FALSE, !.tx_write_in_progress = FALSE]
<1>1. c.pending_serial_ops > 0 /\ c.stale_ops \in Nat /\ c.reading \in BOOLEAN
  BY DEF Ctl, Accounted, One
<1>2. d \in Ctl /\ Same(c, d) /\ d.pending_serial_ops = c.pending_serial_ops - 1
  BY <1>1, CompleteOpCounts
<1> HIDE DEF d
<1>3. /\ r \in Ctl /\ ~ r.writing /\ ~ r.tx_write_in_progress
      /\ Same([c EXCEPT !.writing = FALSE, !.tx_write_in_progress = FALSE], r)
      /\ r.pending_serial_ops = d.pending_serial_ops
  BY <1>2 DEF Ctl, Same
<1>4. /\ r.reading = c.reading /\ r.stale_ops = c.stale_ops
      /\ r.is_connected = c.is_connected /\ r.tx_queue = c.tx_queue
      /\ r.state = c.state
  BY <1>2 DEF Ctl, Same
<1> HIDE DEF r
<1>5. Accounted(r)
  BY <1>1, <1>2, <1>3, <1>4 DEF Accounted, One
<1>6. ASSUME Consistent(c) PROVE Consistent(r)
  <2>1. r.reading \/ r.writing => r.is_connected
    BY <1>3, <1>4, <1>6 DEF Consistent
  <2>2. r.tx_write_in_progress = r.writing
    BY <1>3, <1>4, <1>6 DEF Ctl
  <2>3. r.state = "WAITING_HANDSHAKE" =>
          /\ RequireHandshake
          /\ \A i \in 1 .. Len(r.tx_queue) : r.tx_queue[i].id = "handshake"
    BY <1>4, <1>6 DEF Consistent
  <2> QED
    BY <1>3, <1>5, <2>1, <2>2, <2>3 DEF Consistent
<1> QED
  BY <1>3, <1>5, <1>6 DEF r, d

\* Starting an operation, or failing to.
LEMMA ReadStarts ==
  ASSUME NEW c, Consistent(c), ~ c.reading, NEW throws \in BOOLEAN
  PROVE  LET r == StartReceive(c, throws) IN
         /\ Consistent(r)
         /\ \/ Closed(r)
            \/ c.is_connected /\ Same([c EXCEPT !.reading = TRUE], r)
            \/ ~ c.is_connected /\ r = c
<1> USE DEF Consistent
<1> DEFINE s == [c EXCEPT !.pending_serial_ops = @ + 1, !.reading = TRUE]
           over == [CompleteOp(s) EXCEPT !.reading = FALSE]
<1>1. /\ s \in Ctl /\ Same([c EXCEPT !.reading = TRUE], s) /\ s.reading
      /\ s.pending_serial_ops = c.pending_serial_ops + 1
      /\ s.stale_ops = c.stale_ops /\ s.writing = c.writing
      /\ s.is_connected = c.is_connected /\ s.tx_queue = c.tx_queue
      /\ s.tx_write_in_progress = c.tx_write_in_progress /\ s.state = c.state
  <2>1. c \in Ctl /\ c.pending_serial_ops + 1 \in Nat
    BY DEF Ctl
  <2>2. s \in Ctl
    BY <2>1 DEF Ctl
  <2> QED
    BY <2>1, <2>2 DEF Ctl, Same
<1>2. c.stale_ops \in Nat /\ c.writing \in BOOLEAN
  BY DEF Ctl
<1>3. StartReceive(c, throws) =
        IF ~ c.is_connected THEN c ELSE IF throws THEN Reset(over) ELSE s
  BY DEF StartReceive
<1> HIDE DEF s
<1>4. Accounted(s)
  BY <1>1, <1>2 DEF Accounted, One
<1>5. over \in Ctl /\ Accounted(over)
  BY <1>1, <1>4, ReadOver
<1> HIDE DEF over
<1>6. Consistent(Reset(over)) /\ Closed(Reset(over))
  BY <1>5, ResetCloses
<1>7. ASSUME c.is_connected PROVE Consistent(s)
  <2>1. s.tx_write_in_progress = s.writing
    BY <1>1
  <2>2. s.state = "WAITING_HANDSHAKE" =>
          /\ RequireHandshake
          /\ \A i \in 1 .. Len(s.tx_queue) : s.tx_queue[i].id = "handshake"
    BY <1>1
  <2> QED
    BY <1>1, <1>4, <1>7, <2>1, <2>2
<1> QED
  BY <1>1, <1>3, <1>6, <1>7

\* start_next_write: afterwards a queue has a write.
LEMMA WriteStarts ==
  ASSUME NEW c, Consistent(c), c.tx_queue # <<>> => c.is_connected, NEW throws \in BOOLEAN
  PROVE  LET r == StartNextWrite(c, throws) IN
         /\ Consistent(r) /\ Served(r)
         /\ \/ Closed(r)
            \/ r = c
            \/ Same([c EXCEPT !.writing = TRUE, !.tx_write_in_progress = TRUE], r)
<1> USE DEF Consistent
<1> DEFINE s == [c EXCEPT !.pending_serial_ops = @ + 1, !.writing = TRUE,
                          !.tx_write_in_progress = TRUE]
           over == [CompleteOp(s) EXCEPT !.writing = FALSE, !.tx_write_in_progress = FALSE]
<1>1. /\ s \in Ctl /\ s.writing /\ s.tx_write_in_progress
      /\ Same([c EXCEPT !.writing = TRUE, !.tx_write_in_progress = TRUE], s)
      /\ s.pending_serial_ops = c.pending_serial_ops + 1
      /\ s.stale_ops = c.stale_ops /\ s.reading = c.reading
      /\ s.is_connected = c.is_connected /\ s.tx_queue = c.tx_queue
      /\ s.state = c.state
  <2>1. c \in Ctl /\ c.pending_serial_ops + 1 \in Nat
    BY DEF Ctl
  <2>2. s \in Ctl
    BY <2>1 DEF Ctl
  <2> QED
    BY <2>1, <2>2 DEF Ctl, Same
<1>2. c.stale_ops \in Nat /\ c.reading \in BOOLEAN
  BY DEF Ctl
<1>3. StartNextWrite(c, throws) =
        IF c.tx_write_in_progress \/ c.tx_queue = <<>> THEN c
        ELSE IF throws THEN Reset(over) ELSE s
  BY DEF StartNextWrite
<1> HIDE DEF s
<1>4. CASE c.tx_write_in_progress \/ c.tx_queue = <<>>
  <2>1. Served(c)
    BY <1>4 DEF Served
  <2> QED
    BY <1>3, <1>4, <2>1
<1>5. CASE ~ (c.tx_write_in_progress \/ c.tx_queue = <<>>)
  <2>1. ~ c.writing /\ c.is_connected
    BY <1>5
  <2>2. Accounted(s)
    BY <1>1, <1>2, <2>1 DEF Accounted, One
  <2>3. over \in Ctl /\ Accounted(over)
    BY <1>1, <2>2, WriteEnds
  <2> HIDE DEF over
  <2>4. Consistent(Reset(over)) /\ Closed(Reset(over))
    BY <2>3, ResetCloses
  <2>5. Served(Reset(over))
    BY <2>4 DEF Closed, Served
  <2>6. Consistent(s)
    <3>1. s.state = "WAITING_HANDSHAKE" =>
            /\ RequireHandshake
            /\ \A i \in 1 .. Len(s.tx_queue) : s.tx_queue[i].id = "handshake"
      BY <1>1
    <3>2. s.tx_write_in_progress = s.writing
      BY <1>1 DEF Ctl
    <3>3. s.tx_queue # <<>>
      BY <1>1, <1>5
    <3> QED
      BY <1>1, <2>1, <2>2, <3>1, <3>2, <3>3
  <2>7. Served(s)
    BY <1>1 DEF Served
  <2> QED
    BY <1>1, <1>3, <1>5, <2>4, <2>5, <2>6, <2>7
<1> QED
  BY <1>4, <1>5

\* What sending leaves alone.
SameLink(c, d) ==
  /\ c.is_connected = d.is_connected /\ c.ready_state = d.ready_state
  /\ c.state = d.state /\ c.ring = d.ring /\ c.reading = d.reading

\* async_send_impl
LEMMA SendKeeps ==
  ASSUME NEW c, Consistent(c), Served(c), NEW f \in Frame, NEW throws \in BOOLEAN
  PROVE  LET r == SendImpl(c, f, throws) IN
         Consistent(r) /\ Served(r) /\ (Closed(r) \/ SameLink(c, r))
<1>1. c \in Ctl /\ c.tx_queue \in Seq(Frame)
  BY DEF Ctl, Consistent
<1>2. CASE ~ Admits(c, f)
  <2> DEFINE r == Complete(c, <<f>>)
  <2>1. r \in Ctl /\ Same(c, r) /\ r.pending_serial_ops = c.pending_serial_ops
    <3>1. <<f>> \in Seq(Frame)
      OBVIOUS
    <3> QED
      BY <1>1, <3>1, CompleteKeeps
  <2> HIDE DEF r
  <2>2. Consistent(r) /\ Served(r) /\ SameLink(c, r)
    BY <2>1 DEF Consistent, Served, SameLink, Same, Accounted
  <2> QED
    BY <1>2, <2>2 DEF SendImpl, r
<1>3. CASE Admits(c, f)
  <2> DEFINE q == Append(c.tx_queue, f)
             d == [c EXCEPT !.tx_queue = q]
             r == StartNextWrite(d, throws)
  <2>1. /\ q \in Seq(Frame) /\ Len(q) = Len(c.tx_queue) + 1 /\ q[Len(q)] = f
        /\ Len(c.tx_queue) \in Nat
        /\ \A i \in 1 .. Len(c.tx_queue) : q[i] = c.tx_queue[i]
    BY <1>1
  <2> HIDE DEF q
  <2>2. /\ d \in Ctl /\ SameLink(c, d) /\ d.tx_queue = q
        /\ d.pending_serial_ops = c.pending_serial_ops /\ d.stale_ops = c.stale_ops
        /\ d.reading = c.reading /\ d.writing = c.writing
        /\ d.is_connected = c.is_connected /\ d.state = c.state
        /\ d.tx_write_in_progress = c.tx_write_in_progress
    BY <1>1, <2>1 DEF Ctl, SameLink
  <2> HIDE DEF d
  <2>3. c.is_connected
    BY <1>3 DEF Admits
  <2>4. ASSUME d.state = "WAITING_HANDSHAKE"
        PROVE  RequireHandshake /\ \A i \in 1 .. Len(q) : q[i].id = "handshake"
    <3>1. RequireHandshake /\ f.id = "handshake"
      BY <1>3, <2>2, <2>4 DEF Consistent, Admits
    <3>2. \A i \in 1 .. Len(c.tx_queue) : c.tx_queue[i].id = "handshake"
      BY <2>2, <2>4 DEF Consistent
    <3>3. ASSUME NEW i \in 1 .. Len(q) PROVE q[i].id = "handshake"
      <4>1. CASE i = Len(q)
        BY <4>1, <2>1, <3>1
      <4>2. CASE i # Len(q)
        <5>1. i \in 1 .. Len(c.tx_queue)
          BY <4>2, <2>1
        <5> QED
          BY <5>1, <2>1, <3>2
      <4> QED
        BY <4>1, <4>2
    <3> QED
      BY <3>1, <3>3
  <2>5. Consistent(d)
    <3>1. Accounted(d)
      BY <2>2 DEF Accounted, Consistent
    <3>2. d.tx_write_in_progress = d.writing
      BY <2>2 DEF Consistent
    <3>3. d.tx_queue # <<>>
      <4>1. Len(q) # 0
        BY <2>1
      <4> QED
        BY <4>1, <2>2
    <3> QED
      BY <2>2, <2>3, <2>4, <3>1, <3>2, <3>3 DEF Consistent
  <2>6. /\ Consistent(r) /\ Served(r)
        /\ \/ Closed(r)
           \/ r = d
           \/ Same([d EXCEPT !.writing = TRUE, !.tx_write_in_progress = TRUE], r)
    BY <2>2, <2>3, <2>5, WriteStarts
  <2> HIDE DEF r
  <2>7. Closed(r) \/ SameLink(c, r)
    BY <2>2, <2>6 DEF Ctl, SameLink, Same
  <2> QED
    BY <1>3, <2>6, <2>7 DEF SendImpl, r, d, q
<1> QED
  BY <1>2, <1>3

\* handle_packet: only the state of the link may change.
LEMMA PacketKeeps ==
  ASSUME NEW c, Consistent(c), NEW p \in Packet
  PROVE  LET r == HandlePacket(c, p) IN
         /\ Consistent(r)
         /\ r.is_connected = c.is_connected /\ r.ring = c.ring
         /\ r.reading = c.reading /\ r.writing = c.writing /\ r.tx_queue = c.tx_queue
         /\ \/ r.state = c.state /\ r.ready_state = c.ready_state
            \/ r.state = "RUNNING" /\ r.ready_state
<1> USE DEF Consistent
<1> DEFINE heard == [c EXCEPT !.awaiting_heartbeat_ack = FALSE]
           linked == [c EXCEPT !.state = "RUNNING", !.ready_state = TRUE,
                               !.heartbeat_count = 0, !.last_heartbeat_tx_count = 0,
                               !.awaiting_heartbeat_ack = FALSE]
<1>1. HandlePacket(c, p) \in {c, heard, linked}
  <2>1. p.id \in {"handshake", "heartbeat", "ack"}
    BY DEF Packet
  <2> QED
    BY <2>1 DEF HandlePacket, ProcessHandshake
<1>2. /\ heard \in Ctl /\ Same(c, heard)
      /\ heard.pending_serial_ops = c.pending_serial_ops
  BY DEF Ctl, Same
<1>3. /\ linked \in Ctl /\ linked.state = "RUNNING" /\ linked.ready_state
      /\ linked.pending_serial_ops = c.pending_serial_ops
      /\ linked.stale_ops = c.stale_ops /\ linked.tx_queue = c.tx_queue
      /\ linked.reading = c.reading /\ linked.writing = c.writing
      /\ linked.is_connected = c.is_connected /\ linked.ring = c.ring
      /\ linked.tx_write_in_progress = c.tx_write_in_progress
  BY CountsType DEF Ctl
<1> HIDE DEF heard, linked
<1>4. Consistent(heard)
  BY <1>2 DEF Same, Accounted
<1>5. Consistent(linked)
  <2>1. linked.tx_write_in_progress = linked.writing
    BY <1>3
  <2> QED
    BY <1>3, <2>1 DEF Accounted
<1>6. CASE HandlePacket(c, p) = c
  BY <1>6
<1>7. CASE HandlePacket(c, p) = heard
  BY <1>2, <1>4, <1>7 DEF Same
<1>8. CASE HandlePacket(c, p) = linked
  BY <1>3, <1>5, <1>8
<1> QED
  BY <1>1, <1>6, <1>7, <1>8

-----------------------------------------------------------------------------
(* The invariant of controller c with the rest of a chunk, left.  The last *)
(* part needs a ring that holds a whole read.                              *)

ReadyRight(c) == c.ready_state = (c.is_connected /\ c.state = "RUNNING")

Fine(c, left) ==
  /\ Consistent(c) /\ Served(c)
  /\ c.is_connected => c.reading \/ c.ring # <<>> \/ left # <<>>
  /\ c.ring # <<>> \/ left # <<>> => ~ c.reading
  /\ ChunkPackets <= RingPackets =>
       /\ ReadyRight(c) /\ left = <<>>
       /\ c.ring # <<>> => c.is_connected

\* A closed port is fine.
LEMMA ClosedFine ==
  ASSUME NEW c, NEW left, Consistent(c), Closed(c),
         ChunkPackets <= RingPackets => left = <<>>
  PROVE  Fine(c, left)
<1>1. c.ready_state = FALSE /\ c.is_connected = FALSE
  BY DEF Closed, Consistent, Ctl
<1>2. ReadyRight(c)
  BY <1>1 DEF ReadyRight
<1>3. Served(c)
  BY DEF Served, Closed
<1> QED
  BY <1>2, <1>3 DEF Closed, Fine

\* So is what differs in counts and tasks only.
LEMMA SameFine ==
  ASSUME NEW c, NEW left, Fine(c, left), NEW d \in Ctl, Same(c, d),
         d.pending_serial_ops = c.pending_serial_ops
  PROVE  Fine(d, left)
<1>1. d.tx_write_in_progress = d.writing
  BY DEF Same, Fine, Consistent
<1>2. Consistent(d)
  BY <1>1 DEF Same, Fine, Consistent, Accounted
<1>3. ReadyRight(c) => ReadyRight(d)
  BY DEF Same, ReadyRight
<1> QED
  BY <1>2, <1>3 DEF Same, Fine, Served

\* And what sends.
LEMMA SendFine ==
  ASSUME NEW c, NEW left, Fine(c, left), NEW f \in Frame, NEW throws \in BOOLEAN
  PROVE  Fine(SendImpl(c, f, throws), left)
<1> DEFINE r == SendImpl(c, f, throws)
<1>1. Consistent(r) /\ Served(r) /\ (Closed(r) \/ SameLink(c, r))
  BY SendKeeps DEF Fine
<1> HIDE DEF r
<1>2. ASSUME Closed(r) PROVE Fine(r, left)
  <2>1. ChunkPackets <= RingPackets => left = <<>>
    BY DEF Fine
  <2> QED
    BY <1>1, <1>2, <2>1, ClosedFine
<1>3. ASSUME SameLink(c, r) PROVE Fine(r, left)
  <2>1. ReadyRight(c) => ReadyRight(r)
    BY <1>3 DEF SameLink, ReadyRight
  <2>2. /\ r.is_connected => r.reading \/ r.ring # <<>> \/ left # <<>>
        /\ r.ring # <<>> \/ left # <<>> => ~ r.reading
    BY <1>3 DEF SameLink, Fine
  <2>3. ChunkPackets <= RingPackets =>
          ReadyRight(r) /\ left = <<>> /\ (r.ring # <<>> => r.is_connected)
    BY <1>3, <2>1 DEF SameLink, Fine
  <2> QED
    BY <1>1, <2>2, <2>3 DEF Fine
<1> QED
  BY <1>1, <1>2, <1>3 DEF r

\* The next part of a chunk, or the next read.
LEMMA ContinueFine ==
  ASSUME NEW c, NEW left \in Seq(Packet), NEW throws \in BOOLEAN,
         Consistent(c), Served(c), ~ c.reading,
         ChunkPackets <= RingPackets =>
           /\ ReadyRight(c) /\ Len(left) <= RingPackets
           /\ c.ring # <<>> => c.is_connected /\ left = <<>>
           /\ left # <<>> => c.is_connected,
         Continue(c, left, throws)
  PROVE  Fine(ctl', rest') /\ rest' \in Seq(Packet)
<1>1. CASE c.ring # <<>>
  <2>1. ctl' = c /\ rest' = left
    BY <1>1 DEF Continue
  <2> QED
    BY <1>1, <2>1 DEF Fine
<1>2. CASE c.ring = <<>> /\ left # <<>>
  <2> DEFINE front == Fits(left)
             back == Spills(left)
             d == [c EXCEPT !.ring = front]
  <2>1. Len(left) \in Nat /\ Len(left) > 0 /\ RingPackets \in Nat /\ RingPackets > 0
    BY <1>2, SizeAssumption
  <2>2. \A i \in 1 .. Len(left) : left[i] \in Packet
    OBVIOUS
  <2>3. front \in Seq(Packet) /\ front # <<>>
    <3> DEFINE m == IF Len(left) < RingPackets THEN Len(left) ELSE RingPackets
    <3>1. m \in Nat /\ 1 <= m /\ m <= Len(left)
      BY <2>1
    <3> HIDE DEF m
    <3>2. SubSeq(left, 1, m) \in Seq(Packet) /\ Len(SubSeq(left, 1, m)) = m
      <4>1. \A i \in 1 .. m : left[i] \in Packet
        BY <2>1, <2>2, <3>1
      <4> QED
        BY <3>1, <4>1, SubSeqProperties
    <3>3. front = SubSeq(left, 1, m)
      BY DEF Fits, m
    <3>4. Len(front) # 0
      BY <3>1, <3>2, <3>3
    <3>5. front # <<>>
      BY <3>4
    <3>6. front \in Seq(Packet)
      BY <3>2, <3>3
    <3> QED
      BY <3>5, <3>6
  <2>4. back \in Seq(Packet) /\ (Len(left) <= RingPackets => back = <<>>)
    <3>1. back = SubSeq(left, RingPackets + 1, Len(left))
      BY DEF Spills
    <3>2. \A i \in RingPackets + 1 .. Len(left) : left[i] \in Packet
      BY <2>1, <2>2
    <3>3. /\ SubSeq(left, RingPackets + 1, Len(left)) \in Seq(Packet)
          /\ Len(SubSeq(left, RingPackets + 1, Len(left))) =
               IF RingPackets + 1 <= Len(left) THEN Len(left) - (RingPackets + 1) + 1 ELSE 0
      BY <2>1, <3>2, SubSeqProperties
    <3>4. Len(left) <= RingPackets => Len(back) = 0
      BY <2>1, <3>1, <3>3
    <3> QED
      BY <3>1, <3>3, <3>4
  <2>5. ctl' = d /\ rest' = back
    BY <1>2 DEF Continue
  <2> HIDE DEF front, back
  <2>6. /\ d \in Ctl /\ d.ring = front /\ d.pending_serial_ops = c.pending_serial_ops
        /\ d.is_connected = c.is_connected /\ d.ready_state = c.ready_state
        /\ d.state = c.state /\ d.tx_queue = c.tx_queue
        /\ d.tx_write_in_progress = c.tx_write_in_progress
        /\ d.reading = c.reading /\ d.writing = c.writing /\ d.stale_ops = c.stale_ops
    BY <2>3 DEF Ctl, Consistent
  <2> HIDE DEF d
  <2>7. Consistent(d) /\ Served(d)
    <3>1. d.tx_write_in_progress = d.writing
      BY <2>6 DEF Consistent
    <3> QED
      BY <2>6, <3>1 DEF Consistent, Served, Accounted
  <2>8. ReadyRight(c) => ReadyRight(d)
    BY <2>6 DEF ReadyRight
  <2>9. Fine(d, back)
    BY <1>2, <2>3, <2>4, <2>6, <2>7, <2>8 DEF Fine
  <2> QED
    BY <2>4, <2>5, <2>9
<1>3. CASE c.ring = <<>> /\ left = <<>>
  <2> DEFINE r == StartReceive(c, throws)
  <2>1. ctl' = r /\ rest' = <<>>
    BY <1>3 DEF Continue
  <2>2. /\ Consistent(r)
        /\ \/ Closed(r)
           \/ c.is_connected /\ Same([c EXCEPT !.reading = TRUE], r)
           \/ ~ c.is_connected /\ r = c
    BY ReadStarts
  <2> HIDE DEF r
  <2>3. CASE Closed(r)
    BY <2>1, <2>2, <2>3, ClosedFine
  <2>4. CASE c.is_connected /\ Same([c EXCEPT !.reading = TRUE], r)
    <3>1. /\ r.is_connected = c.is_connected /\ r.ready_state = c.ready_state
          /\ r.state = c.state /\ r.tx_queue = c.tx_queue /\ r.ring = <<>>
          /\ r.writing = c.writing /\ r.reading
      BY <1>3, <2>4 DEF Same, Ctl, Consistent
    <3>2. ReadyRight(c) => ReadyRight(r)
      BY <3>1 DEF ReadyRight
    <3>3. Fine(r, <<>>)
      BY <2>2, <3>1, <3>2 DEF Fine, Served
    <3> QED
      BY <2>1, <3>3
  <2>5. CASE ~ c.is_connected /\ r = c
    BY <1>3, <2>1, <2>5 DEF Fine
  <2> QED
    BY <2>2, <2>3, <2>4, <2>5
<1> QED
  BY <1>1, <1>2, <1>3

-----------------------------------------------------------------------------
(* The steps.                                                              *)

\* The variables outside the controller.
Around ==
  /\ rest \in Seq(Packet) /\ line \in Seq(Packet)
  /\ flushed \in BOOLEAN /\ window_over \in BOOLEAN /\ shutting_down \in BOOLEAN
  /\ racers \in 0 .. MaxRacers /\ attempts \in 0 .. MaxAttempts
  /\ data \in Nat /\ faults \in Nat

\* The invariant of the specification.
IInv == Fine(ctl, rest) /\ Around

\* Tasks and frames have their types.
LEMMA TasksType ==
  /\ \A what \in {"check", "heartbeat", "send", "destroy", "drained"} : Do(what) \in Task
  /\ Send(Handshake) \in Task /\ Send(DataFrame) \in Task
  /\ \A n \in Counts : Send(Heartbeat(n)) \in Task
  /\ \A a \in 0 .. MaxAttempts : Reliable(a) \in Frame
<1>1. 0 \in 0 .. MaxAttempts
  BY SizeAssumption
<1>2. /\ Handshake \in Frame /\ DataFrame \in Frame
      /\ \A n \in Counts : Heartbeat(n) \in Frame
      /\ \A a \in 0 .. MaxAttempts : Reliable(a) \in Frame
  BY <1>1, CountsType DEF Handshake, DataFrame, Heartbeat, Reliable, Frame
<1>3. /\ Handshake.attempt = 0 /\ DataFrame.attempt = 0
      /\ \A n \in Counts : Heartbeat(n).attempt = 0
  BY DEF Handshake, DataFrame, Heartbeat
<1>4. \A f \in Frame : f.attempt = 0 => Send(f) \in Task
  BY DEF Send, Task
<1>5. \A what \in {"check", "heartbeat", "send", "destroy", "drained"} : Do(what) \in Task
  BY <1>2, <1>3 DEF Do, Task
<1> QED
  BY <1>2, <1>3, <1>4, <1>5

\* The next task is taken from the strand.
LEMMA PoppedFine ==
  ASSUME IInv, ctl.strand # <<>>
  PROVE  /\ Fine(Popped, rest) /\ Same(ctl, Popped)
         /\ Popped \in Ctl /\ Accounted(Popped)
         /\ Head(ctl.strand) \in Task
<1>1. ctl \in Ctl /\ ctl.strand \in Seq(Task)
  BY DEF IInv, Fine, Consistent, Ctl
<1>2. Tail(ctl.strand) \in Seq(Task) /\ Head(ctl.strand) \in Task
  BY <1>1
<1>3. /\ Popped \in Ctl /\ Same(ctl, Popped)
      /\ Popped.pending_serial_ops = ctl.pending_serial_ops
  BY <1>1, <1>2 DEF Popped, Ctl, Same
<1>4. Fine(Popped, rest)
  BY <1>3, SameFine DEF IInv
<1> QED
  BY <1>2, <1>3, <1>4 DEF Fine, Consistent

\* A task posted by a thread that lost the race against the destructor.
LatePosts == \E what \in {"check", "heartbeat", "send"} : LatePost(what)

\* Other threads, timers, and the environment.
LEMMA PostingStep ==
  ASSUME IInv,
         \/ \E what \in {"check", "heartbeat"} : TimerTick(what)
         \/ SendData \/ Shutdown \/ LatePosts
  PROVE  IInv'
<1>1. ctl \in Ctl /\ ctl.strand \in Seq(Task)
  BY DEF IInv, Fine, Consistent, Ctl
<1>2. PICK t \in Task : ctl' = [ctl EXCEPT !.strand = Append(@, t)]
  <2>1. CASE \E what \in {"check", "heartbeat"} : TimerTick(what)
    BY <2>1, TasksType DEF TimerTick, PostTask, Post
  <2>2. CASE SendData
    BY <2>2, TasksType DEF SendData, PostTask, Post
  <2>3. CASE Shutdown
    BY <2>3, TasksType DEF Shutdown
  <2>4. CASE LatePosts
    BY <2>4, TasksType DEF LatePosts, LatePost
  <2> QED
    BY <2>1, <2>2, <2>3, <2>4
<1>3. Append(ctl.strand, t) \in Seq(Task)
  BY <1>1
<1>4. /\ ctl' \in Ctl /\ Same(ctl, ctl')
      /\ ctl'.pending_serial_ops = ctl.pending_serial_ops
  BY <1>1, <1>2, <1>3 DEF Ctl, Same
<1>5. rest' = rest
  BY DEF TimerTick, SendData, Shutdown, LatePosts, LatePost
<1>6. Fine(ctl', rest')
  BY <1>4, <1>5, SameFine DEF IInv
<1>7. Around'
  <2>1. CASE \E what \in {"check", "heartbeat"} : TimerTick(what)
    BY <2>1 DEF TimerTick, PostTask, envVars, IInv, Around
  <2>2. CASE SendData
    BY <2>2 DEF SendData, PostTask, envVars, IInv, Around
  <2>3. CASE Shutdown
    BY <2>3 DEF Shutdown, IInv, Around
  <2>4. CASE LatePosts
    <3>1. racers' \in 0 .. MaxRacers
      <4>1. MaxRacers \in Nat
        BY SizeAssumption
      <4>2. racers \in 0 .. MaxRacers /\ racers > 0 /\ racers' = racers - 1
        BY <2>4 DEF LatePosts, LatePost, IInv, Around
      <4> QED
        BY <4>1, <4>2
    <3> QED
      BY <2>4, <3>1 DEF LatePosts, LatePost, IInv, Around
  <2> QED
    BY <2>1, <2>2, <2>3, <2>4
<1> QED
  BY <1>6, <1>7 DEF IInv

\* The line loses or carries packets, and the window passes.
LEMMA LineStep ==
  ASSUME IInv, Flush \/ LoseReply \/ WindowPasses
  PROVE  IInv'
<1>1. ctl' = ctl /\ rest' = rest
  BY DEF Flush, LoseReply, WindowPasses
<1>2. Fine(ctl', rest')
  BY <1>1 DEF IInv
<1>3. line' \in Seq(Packet)
  <2>1. CASE Flush
    <3>1. ctl.tx_queue \in Seq(Frame) /\ ctl.tx_queue # <<>>
      BY <2>1 DEF Flush, IInv, Fine, Consistent, Ctl
    <3>2. Head(ctl.tx_queue) \in Frame
      BY <3>1
    <3>3. \A f \in Frame : Reply(f) \in Seq(Packet)
      <4>1. SUFFICES ASSUME NEW f \in Frame PROVE Reply(f) \in Seq(Packet)
        OBVIOUS
      <4>2. f.count \in Counts /\ f.id \in {"handshake", "heartbeat", "data", "reliable"}
        BY DEF Frame
      <4>3. /\ [id |-> "handshake", count |-> 0] \in Packet
            /\ [id |-> "heartbeat", count |-> f.count] \in Packet
            /\ [id |-> "ack", count |-> 0] \in Packet
        BY <4>2, CountsType DEF Packet
      <4>4. \A p \in Packet : <<p>> \in Seq(Packet)
        OBVIOUS
      <4>5. <<>> \in Seq(Packet)
        OBVIOUS
      <4> QED
        BY <4>2, <4>3, <4>4, <4>5 DEF Reply
    <3>4. line' = line \o Reply(Head(ctl.tx_queue))
      BY <2>1 DEF Flush
    <3>5. line \in Seq(Packet) /\ Reply(Head(ctl.tx_queue)) \in Seq(Packet)
      BY <3>2, <3>3 DEF IInv, Around
    <3> QED
      BY <3>4, <3>5
  <2>2. CASE LoseReply
    BY <2>2 DEF LoseReply, IInv, Around
  <2>3. CASE WindowPasses
    BY <2>3 DEF WindowPasses, IInv, Around
  <2> QED
    BY <2>1, <2>2, <2>3
<1>4. Around'
  <2>1. CASE Flush
    BY <2>1, <1>3 DEF IInv, Around, Flush
  <2>2. CASE LoseReply
    BY <2>2, <1>3 DEF IInv, Around, LoseReply, Fault, One
  <2>3. CASE WindowPasses
    <3>1. faults' \in Nat
      BY <2>3 DEF IInv, Around, WindowPasses, Fault, One
    <3> QED
      BY <2>3, <1>3, <3>1 DEF IInv, Around, WindowPasses
  <2> QED
    BY <2>1, <2>2, <2>3
<1> QED
  BY <1>2, <1>4 DEF IInv

\* A write is over: its frame is completed and leaves the queue.
LEMMA WriteOverCounts ==
  ASSUME IInv, ctl.writing
  PROVE  /\ WriteOver \in Ctl /\ Accounted(WriteOver) /\ Consistent(WriteOver)
         /\ SameLink(ctl, WriteOver) /\ ~ WriteOver.writing
<1> DEFINE d == [CompleteOp(ctl) EXCEPT !.writing = FALSE, !.tx_write_in_progress = FALSE]
           e == [d EXCEPT !.tx_queue = Tail(@)]
           f == Head(ctl.tx_queue)
<1>1. /\ Consistent(ctl) /\ ctl \in Ctl /\ Accounted(ctl)
      /\ ctl.tx_queue \in Seq(Frame) /\ ctl.tx_queue # <<>>
  BY DEF IInv, Fine, Consistent, Ctl
<1>2. /\ d \in Ctl /\ Accounted(d) /\ Consistent(d)
      /\ Same([ctl EXCEPT !.writing = FALSE, !.tx_write_in_progress = FALSE], d)
  BY <1>1, WriteEnds
<1>3. [CompleteOp(ctl) EXCEPT !.writing = FALSE, !.tx_write_in_progress = FALSE,
                              !.tx_queue = Tail(@)] = e
  <2>1. CompleteOp(ctl) \in Ctl
    <3>1. ctl.pending_serial_ops > 0
      BY <1>1 DEF Ctl, Accounted, One
    <3> QED
      BY <1>1, <3>1, CompleteOpCounts
  <2> QED
    BY <2>1 DEF Ctl
<1> HIDE DEF d
<1>4. /\ SameLink(ctl, d) /\ d.tx_queue = ctl.tx_queue /\ ~ d.writing
      /\ ~ d.tx_write_in_progress
  BY <1>1, <1>2 DEF Ctl, Same, SameLink
<1>5. Tail(ctl.tx_queue) \in Seq(Frame) /\ f \in Frame /\ <<f>> \in Seq(Frame)
  BY <1>1
<1>6. /\ e \in Ctl /\ SameLink(d, e) /\ e.tx_queue = Tail(ctl.tx_queue)
      /\ e.writing = d.writing /\ e.tx_write_in_progress = d.tx_write_in_progress
      /\ e.stale_ops = d.stale_ops /\ e.pending_serial_ops = d.pending_serial_ops
  BY <1>2, <1>4, <1>5 DEF Ctl, SameLink
<1> HIDE DEF e, f
<1>7. e.state = "WAITING_HANDSHAKE" =>
        /\ RequireHandshake
        /\ \A i \in 1 .. Len(e.tx_queue) : e.tx_queue[i].id = "handshake"
  <2>1. SUFFICES ASSUME e.state = "WAITING_HANDSHAKE"
                 PROVE  /\ RequireHandshake
                        /\ \A i \in 1 .. Len(e.tx_queue) : e.tx_queue[i].id = "handshake"
    OBVIOUS
  <2>2. /\ RequireHandshake
        /\ \A i \in 1 .. Len(ctl.tx_queue) : ctl.tx_queue[i].id = "handshake"
    BY <1>1, <1>4, <1>6, <2>1 DEF SameLink, Consistent
  <2>3. \A i \in 1 .. Len(e.tx_queue) :
          i + 1 \in 1 .. Len(ctl.tx_queue) /\ e.tx_queue[i] = ctl.tx_queue[i + 1]
    BY <1>1, <1>6
  <2> QED
    BY <2>2, <2>3
<1>8. Consistent(e)
  <2>1. Accounted(e)
    BY <1>2, <1>6 DEF Accounted, SameLink
  <2>2. e.tx_write_in_progress = e.writing
    BY <1>2, <1>6 DEF Consistent
  <2>3. e.reading \/ e.writing => e.is_connected
    BY <1>2, <1>4, <1>6 DEF Consistent, SameLink
  <2> QED
    BY <1>4, <1>6, <1>7, <2>1, <2>2, <2>3 DEF Consistent
<1>9. WriteOver = Complete(e, <<f>>)
  BY <1>3 DEF WriteOver, f
<1> DEFINE r == Complete(e, <<f>>)
<1>10. r \in Ctl /\ Same(e, r) /\ r.pending_serial_ops = e.pending_serial_ops
  BY <1>5, <1>6, CompleteKeeps
<1> HIDE DEF r
<1>11. Consistent(r)
  <2>1. r.tx_write_in_progress = r.writing
    BY <1>8, <1>10 DEF Same, Consistent
  <2> QED
    BY <1>8, <1>10, <2>1 DEF Same, Consistent, Accounted
<1>12. SameLink(ctl, r) /\ ~ r.writing
  BY <1>4, <1>6, <1>10 DEF Same, SameLink
<1> QED
  BY <1>9, <1>11, <1>12 DEF Consistent, r

\* The variables around a task or handler.
LEMMA AroundKept ==
  ASSUME IInv, rest' \in Seq(Packet), flushed' \in BOOLEAN, attempts' \in 0 .. MaxAttempts,
         \/ faults' = faults
         \/ \E bad \in BOOLEAN : faults' = faults + One(bad),
         line' \in Seq(Packet), window_over' \in BOOLEAN,
         UNCHANGED <<shutting_down, racers, data>>
  PROVE  Around'
<1>1. faults' \in Nat
  BY DEF IInv, Around, One
<1> QED
  BY <1>1 DEF IInv, Around

\* Tasks that only count and post.
LEMMA TimerStep ==
  ASSUME IInv,
         CheckConnected \/ HeartbeatWaiting \/ HeartbeatRetry \/ HeartbeatNext \/ RunDrained
  PROVE  IInv'
<1>1. /\ Fine(Popped, rest) /\ Popped \in Ctl /\ rest' = rest
  BY PoppedFine DEF CheckConnected, HeartbeatWaiting, HeartbeatRetry, HeartbeatNext,
                    HeartbeatDue, RunDrained, Next_is
<1>2. ctl \in Ctl /\ ctl.heartbeat_count \in Counts /\ ctl.last_heartbeat_tx_count \in Counts
  BY DEF IInv, Fine, Consistent, Ctl
<1>3. /\ ctl' \in Ctl /\ Same(Popped, ctl')
      /\ ctl'.pending_serial_ops = Popped.pending_serial_ops
  <2>1. CASE CheckConnected
    BY <1>1, <2>1 DEF CheckConnected, Same
  <2>2. CASE HeartbeatWaiting
    <3>1. Send(Handshake) \in Task
      BY TasksType
    <3> QED
      BY <1>1, <2>2, <3>1, PostKeeps DEF HeartbeatWaiting, Same
  <2>3. CASE HeartbeatRetry
    <3>1. Send(Heartbeat(ctl.last_heartbeat_tx_count)) \in Task
      BY <1>2, TasksType
    <3> QED
      BY <1>1, <2>3, <3>1, PostKeeps DEF HeartbeatRetry
  <2>4. CASE HeartbeatNext
    <3> DEFINE n == ctl.heartbeat_count
               c == [Popped EXCEPT !.heartbeat_count = (n + 1) % HeartbeatValues,
                                   !.last_heartbeat_tx_count = n,
                                   !.awaiting_heartbeat_ack = TRUE]
    <3>1. Send(Heartbeat(n)) \in Task
      BY <1>2, TasksType
    <3>2. (n + 1) % HeartbeatValues \in Counts
      BY <1>2, SizeAssumption DEF Counts
    <3>3. /\ c \in Ctl /\ Same(Popped, c)
          /\ c.pending_serial_ops = Popped.pending_serial_ops
      BY <1>1, <1>2, <3>2 DEF Ctl, Same
    <3>4. ctl' = Post(c, Send(Heartbeat(n)))
      BY <2>4 DEF HeartbeatNext
    <3> HIDE DEF c, n
    <3>5. /\ Post(c, Send(Heartbeat(n))) \in Ctl /\ Same(c, Post(c, Send(Heartbeat(n))))
          /\ Post(c, Send(Heartbeat(n))).pending_serial_ops = c.pending_serial_ops
      BY <3>1, <3>3, PostKeeps
    <3> QED
      BY <3>3, <3>4, <3>5 DEF Same
  <2>5. CASE RunDrained
    BY <1>1, <2>5 DEF RunDrained, Ctl, Same
  <2> QED
    BY <2>1, <2>2, <2>3, <2>4, <2>5
<1>4. Fine(ctl', rest')
  BY <1>1, <1>3, SameFine
<1>5. Around'
  BY AroundKept DEF IInv, Around, CheckConnected, HeartbeatWaiting, HeartbeatRetry,
                    HeartbeatNext, RunDrained, envVars
<1> QED
  BY <1>4, <1>5 DEF IInv

\* Tasks and handlers that reset the port.
LEMMA ResetStep ==
  ASSUME IInv, OpenFails \/ HeartbeatTimeout \/ RunDestroy \/ ReadFails \/ WriteFails
  PROVE  IInv'
<1>1. rest' = rest
  BY DEF OpenFails, HeartbeatTimeout, RunDestroy, ReadFails, WriteFails
<1>2. ctl \in Ctl /\ Accounted(ctl) /\ ctl.tx_queue \in Seq(Frame)
  BY DEF IInv, Fine, Consistent, Ctl
<1>3. Consistent(ctl') /\ Closed(ctl')
  <2>1. CASE OpenFails \/ HeartbeatTimeout
    <3>1. ctl' = Reset(Popped) /\ ctl.strand # <<>>
      BY <2>1 DEF OpenFails, HeartbeatTimeout, HeartbeatDue, Next_is
    <3> QED
      BY <3>1, PoppedFine, ResetCloses
  <2>2. CASE RunDestroy
    <3> DEFINE r == Reset(Popped)
    <3>1. ctl.strand # <<>>
      BY <2>2 DEF RunDestroy, Next_is
    <3>2. Consistent(r) /\ Closed(r)
      BY <3>1, PoppedFine, ResetCloses
    <3>3. ctl' = [r EXCEPT !.drain = IF r.pending_serial_ops = 0 THEN "done" ELSE "waiting"]
      BY <2>2 DEF RunDestroy
    <3> HIDE DEF r
    <3>4. /\ ctl' \in Ctl /\ Same(r, ctl')
          /\ ctl'.pending_serial_ops = r.pending_serial_ops
      BY <3>2, <3>3 DEF Consistent, Ctl, Same
    <3>5. Consistent(ctl')
      <4>1. ctl'.tx_write_in_progress = ctl'.writing
        BY <3>2, <3>4 DEF Same, Consistent
      <4> QED
        BY <3>2, <3>4, <4>1 DEF Same, Consistent, Accounted
    <3> QED
      BY <3>2, <3>4, <3>5 DEF Same, Closed
  <2>3. CASE ReadFails
    <3>1. ctl.reading /\ ctl' = Reset([CompleteOp(ctl) EXCEPT !.reading = FALSE])
      BY <2>3 DEF ReadFails
    <3> QED
      BY <1>2, <3>1, ReadOver, ResetCloses
  <2>4. CASE WriteFails
    <3>1. ctl.writing /\ ctl' = Reset(WriteOver)
      BY <2>4 DEF WriteFails
    <3>2. WriteOver \in Ctl /\ Accounted(WriteOver)
      BY <3>1, WriteOverCounts
    <3> QED
      BY <3>1, <3>2, ResetCloses
  <2> QED
    BY <2>1, <2>2, <2>3, <2>4
<1>4. Fine(ctl', rest')
  BY <1>1, <1>3, ClosedFine DEF IInv, Fine
<1>5. Around'
  BY <1>1, AroundKept DEF IInv, Around, OpenFails, HeartbeatTimeout, RunDestroy, ReadFails,
       WriteFails, envVars, CutOff, Fault
<1> QED
  BY <1>4, <1>5 DEF IInv

\* The port is opened.
LEMMA OpenStep ==
  ASSUME IInv, NEW throws \in BOOLEAN, OpenSucceeds(throws)
  PROVE  IInv'
<1> DEFINE c == Reset(Popped)
           opened == [c EXCEPT !.is_connected = TRUE, !.shutdown_requested = FALSE,
                               !.ready_state = ~RequireHandshake]
           reading == StartReceive(opened, throws)
<1>1. /\ ctl.strand # <<>> /\ ctl.ring = <<>> /\ rest = <<>>
      /\ ctl' = (IF RequireHandshake THEN Post(reading, Send(Handshake)) ELSE reading)
      /\ rest' = rest
  BY DEF OpenSucceeds, Next_is, StrandFree, Handling
<1>2. Consistent(c) /\ Closed(c) /\ c.state = FirstState
  <2>1. Popped \in Ctl /\ Accounted(Popped)
    BY <1>1, PoppedFine
  <2> QED
    BY <2>1, ResetCloses DEF Closed
<1> HIDE DEF c
<1>3. RequireHandshake \in BOOLEAN
  BY FlagAssumption
<1>4. /\ opened \in Ctl /\ opened.is_connected /\ opened.ready_state = ~RequireHandshake
      /\ ~ opened.reading /\ ~ opened.writing /\ opened.tx_queue = <<>> /\ opened.ring = <<>>
      /\ opened.state = c.state /\ opened.stale_ops = c.stale_ops
      /\ opened.pending_serial_ops = c.pending_serial_ops
      /\ opened.tx_write_in_progress = c.tx_write_in_progress
      /\ opened.reading = c.reading /\ opened.writing = c.writing
  BY <1>2, <1>3 DEF Consistent, Closed, Ctl
<1> HIDE DEF opened
<1>5. Consistent(opened)
  <2>1. opened.tx_write_in_progress = opened.writing
    BY <1>2, <1>4 DEF Consistent
  <2>2. Accounted(opened)
    BY <1>2, <1>4 DEF Consistent, Accounted
  <2>3. \A i \in 1 .. Len(opened.tx_queue) : opened.tx_queue[i].id = "handshake"
    BY <1>4
  <2>4. opened.state = "WAITING_HANDSHAKE" => RequireHandshake
    BY <1>2, <1>4 DEF FirstState
  <2> QED
    BY <1>4, <2>1, <2>2, <2>3, <2>4 DEF Consistent
<1>6. ReadyRight(opened)
  BY <1>2, <1>3, <1>4 DEF ReadyRight, FirstState
<1>7. /\ Consistent(reading)
      /\ Closed(reading) \/ Same([opened EXCEPT !.reading = TRUE], reading)
  BY <1>4, <1>5, ReadStarts
<1> HIDE DEF reading
<1>8. Fine(reading, rest)
  <2>1. CASE Closed(reading)
    BY <1>1, <1>7, <2>1, ClosedFine
  <2>2. CASE Same([opened EXCEPT !.reading = TRUE], reading)
    <3>1. /\ reading.is_connected = opened.is_connected /\ reading.reading
          /\ reading.ready_state = opened.ready_state /\ reading.state = opened.state
          /\ reading.tx_queue = <<>> /\ reading.ring = <<>>
      BY <1>4, <2>2 DEF Same, Ctl
    <3>2. ReadyRight(reading)
      BY <1>6, <3>1 DEF ReadyRight
    <3> QED
      BY <1>1, <1>7, <3>1, <3>2 DEF Fine, Served
  <2> QED
    BY <1>7, <2>1, <2>2
<1>9. Fine(ctl', rest')
  <2>1. Send(Handshake) \in Task /\ reading \in Ctl
    BY <1>7, TasksType DEF Consistent
  <2>2. Fine(Post(reading, Send(Handshake)), rest)
    BY <1>8, <2>1, PostKeeps, SameFine
  <2> QED
    BY <1>1, <1>8, <2>2
<1>10. Around'
  BY <1>1, AroundKept DEF IInv, Around, OpenSucceeds, envVars, CutOff, Throws, Fault
<1> QED
  BY <1>9, <1>10 DEF IInv

\* A frame is sent by a task, or by the reliable sender.
LEMMA SendStep ==
  ASSUME IInv, NEW throws \in BOOLEAN, RunSend(throws) \/ ReliableAttempt(throws)
  PROVE  IInv'
<1>1. CASE RunSend(throws)
  <2>1. /\ ctl.strand # <<>> /\ rest' = rest
        /\ ctl' = SendImpl(Popped, Head(ctl.strand).frame, throws)
    BY <1>1 DEF RunSend, Next_is
  <2>2. Head(ctl.strand).frame \in Frame
    BY <2>1, PoppedFine DEF Task
  <2>3. Fine(ctl', rest')
    BY <2>1, <2>2, PoppedFine, SendFine
  <2>4. Around'
    BY <1>1, <2>1, AroundKept DEF IInv, Around, RunSend, envVars, CutOff, Throws, Fault
  <2> QED
    BY <2>3, <2>4 DEF IInv
<1>2. CASE ReliableAttempt(throws)
  <2>1. attempts + 1 \in 0 .. MaxAttempts
    <3>1. MaxAttempts \in Nat /\ attempts \in 0 .. MaxAttempts /\ attempts < MaxAttempts
      BY <1>2, SizeAssumption DEF ReliableAttempt, IInv, Around
    <3> QED
      BY <3>1
  <2>2. Reliable(attempts + 1) \in Frame
    BY <2>1, TasksType
  <2>3. ctl' = SendImpl(ctl, Reliable(attempts + 1), throws) /\ rest' = rest
    BY <1>2 DEF ReliableAttempt
  <2>4. Fine(ctl', rest')
    BY <2>2, <2>3, SendFine DEF IInv
  <2>5. Around'
    BY <1>2, <2>1, <2>3, AroundKept DEF IInv, Around, ReliableAttempt, envVars, CutOff, Throws, Fault
  <2> QED
    BY <2>4, <2>5 DEF IInv
<1> QED
  BY <1>1, <1>2

\* A read returns.
LEMMA ReadStep ==
  ASSUME IInv, NEW n \in 0 .. ChunkPackets, NEW throws \in BOOLEAN, ReadDone(n, throws)
  PROVE  IInv'
<1> DEFINE c == [CompleteOp(ctl) EXCEPT !.reading = FALSE]
           left == SubSeq(line, 1, n)
<1>1. /\ ctl.reading /\ ctl.ring = <<>> /\ rest = <<>> /\ n <= Len(line)
      /\ line' = SubSeq(line, n + 1, Len(line)) /\ Continue(c, left, throws)
  BY DEF ReadDone, StrandFree, Handling
<1>2. Fine(ctl, rest) /\ Consistent(ctl) /\ Served(ctl) /\ ctl \in Ctl /\ Accounted(ctl)
  BY DEF IInv, Fine, Consistent
<1>3. /\ c \in Ctl /\ Consistent(c) /\ Same([ctl EXCEPT !.reading = FALSE], c)
  BY <1>1, <1>2, ReadOver
<1> HIDE DEF c
<1>4. /\ c.is_connected = ctl.is_connected /\ c.ready_state = ctl.ready_state
      /\ c.state = ctl.state /\ c.ring = <<>> /\ ~ c.reading
      /\ c.tx_queue = ctl.tx_queue /\ c.writing = ctl.writing
  BY <1>1, <1>2, <1>3 DEF Same, Ctl
<1>5. ctl.is_connected
  BY <1>1, <1>2 DEF Consistent
<1>6. line \in Seq(Packet) /\ n \in Nat /\ ChunkPackets \in Nat /\ n <= ChunkPackets
      /\ RingPackets \in Nat
  BY SizeAssumption DEF IInv, Around
<1>7. /\ left \in Seq(Packet) /\ Len(left) <= n
      /\ SubSeq(line, n + 1, Len(line)) \in Seq(Packet)
  <2>1. Len(line) \in Nat /\ \A i \in 1 .. Len(line) : line[i] \in Packet
    BY <1>6
  <2>2. \A i \in 1 .. n : line[i] \in Packet
    BY <1>1, <1>6, <2>1
  <2>3. \A i \in n + 1 .. Len(line) : line[i] \in Packet
    BY <1>6, <2>1
  <2>4. SubSeq(line, 1, n) \in Seq(Packet) /\ Len(SubSeq(line, 1, n)) <= n
    <3>1. /\ SubSeq(line, 1, n) \in Seq(Packet)
          /\ Len(SubSeq(line, 1, n)) = IF 1 <= n THEN n - 1 + 1 ELSE 0
      BY <1>6, <2>2, SubSeqProperties
    <3> QED
      BY <1>6, <3>1
  <2>5. SubSeq(line, n + 1, Len(line)) \in Seq(Packet)
    BY <1>6, <2>1, <2>3, SubSeqProperties
  <2> QED
    BY <2>4, <2>5
<1> HIDE DEF left
<1>8. ReadyRight(ctl) => ReadyRight(c)
  BY <1>4 DEF ReadyRight
<1>9. Served(c)
  BY <1>2, <1>4 DEF Served
<1>10. ChunkPackets <= RingPackets =>
         /\ ReadyRight(c) /\ Len(left) <= RingPackets
         /\ c.ring # <<>> => c.is_connected /\ left = <<>>
         /\ left # <<>> => c.is_connected
  <2>1. ChunkPackets <= RingPackets => Len(left) <= RingPackets
    <3>1. Len(left) \in Nat
      BY <1>7
    <3> QED
      BY <1>6, <1>7, <3>1
  <2> QED
    BY <1>2, <1>4, <1>5, <1>8, <2>1 DEF Fine
<1>11. Fine(ctl', rest') /\ rest' \in Seq(Packet)
  BY <1>1, <1>3, <1>4, <1>7, <1>9, <1>10, ContinueFine
<1>12. Around'
  BY <1>1, <1>7, <1>11, AroundKept DEF IInv, Around, ReadDone, CutOff, Throws, Fault
<1> QED
  BY <1>11, <1>12 DEF IInv

\* What a packet of the chunk leaves to be gone on with.
LEMMA HeadHandled ==
  ASSUME IInv, ctl.ring # <<>>
  PROVE  LET c == [ctl EXCEPT !.ring = Tail(@)] IN
         /\ Head(ctl.ring) \in Packet
         /\ Consistent(c) /\ Served(c) /\ ~ c.reading
         /\ ChunkPackets <= RingPackets => ReadyRight(c) /\ c.is_connected /\ rest = <<>>
<1> DEFINE c == [ctl EXCEPT !.ring = Tail(@)]
<1>1. Fine(ctl, rest) /\ Consistent(ctl) /\ ctl \in Ctl /\ ctl.ring \in Seq(Packet)
  BY DEF IInv, Fine, Consistent, Ctl
<1>2. Tail(ctl.ring) \in Seq(Packet) /\ Head(ctl.ring) \in Packet
  BY <1>1
<1>3. /\ c \in Ctl
      /\ c.is_connected = ctl.is_connected /\ c.ready_state = ctl.ready_state
      /\ c.state = ctl.state /\ c.tx_queue = ctl.tx_queue
      /\ c.tx_write_in_progress = ctl.tx_write_in_progress
      /\ c.reading = ctl.reading /\ c.writing = ctl.writing
      /\ c.stale_ops = ctl.stale_ops /\ c.pending_serial_ops = ctl.pending_serial_ops
  BY <1>1, <1>2 DEF Ctl
<1> HIDE DEF c
<1>4. Consistent(c) /\ Served(c)
  <2>1. c.tx_write_in_progress = c.writing
    BY <1>1, <1>3 DEF Consistent
  <2> QED
    BY <1>1, <1>3, <2>1 DEF Fine, Consistent, Accounted, Served
<1>5. ReadyRight(ctl) => ReadyRight(c)
  BY <1>3 DEF ReadyRight
<1> QED
  BY <1>1, <1>2, <1>3, <1>4, <1>5 DEF Fine, c

\* A handshake or a heartbeat is handled.
LEMMA ParseStep ==
  ASSUME IInv, NEW throws \in BOOLEAN, ParsePacket(throws)
  PROVE  IInv'
<1> DEFINE c == [ctl EXCEPT !.ring = Tail(@)]
           d == HandlePacket(c, Head(ctl.ring))
<1>1. ctl.ring # <<>> /\ Continue(d, rest, throws)
  BY DEF ParsePacket
<1>2. /\ Head(ctl.ring) \in Packet
      /\ Consistent(c) /\ Served(c) /\ ~ c.reading
      /\ ChunkPackets <= RingPackets => ReadyRight(c) /\ c.is_connected /\ rest = <<>>
  BY <1>1, HeadHandled
<1> HIDE DEF c
<1>3. /\ Consistent(d)
      /\ d.is_connected = c.is_connected /\ d.ring = c.ring
      /\ d.reading = c.reading /\ d.writing = c.writing /\ d.tx_queue = c.tx_queue
      /\ \/ d.state = c.state /\ d.ready_state = c.ready_state
         \/ d.state = "RUNNING" /\ d.ready_state
  BY <1>2, PacketKeeps
<1> HIDE DEF d
<1>4. Served(d) /\ ~ d.reading
  BY <1>2, <1>3 DEF Served
<1>5. ASSUME ChunkPackets <= RingPackets
      PROVE  ReadyRight(d) /\ d.is_connected /\ rest = <<>>
  <2>1. d.is_connected /\ rest = <<>> /\ ReadyRight(c) /\ c.is_connected
    BY <1>2, <1>3, <1>5
  <2>2. CASE d.state = c.state /\ d.ready_state = c.ready_state
    BY <1>3, <2>1, <2>2 DEF ReadyRight
  <2>3. CASE d.state = "RUNNING" /\ d.ready_state
    <3>1. d.ready_state = TRUE /\ d.is_connected = TRUE
      BY <1>3, <2>1, <2>3 DEF Consistent, Ctl
    <3> QED
      BY <2>1, <2>3, <3>1 DEF ReadyRight
  <2> QED
    BY <1>3, <2>1, <2>2, <2>3
<1>6. /\ rest \in Seq(Packet) /\ RingPackets \in Nat
      /\ ChunkPackets <= RingPackets => Len(rest) <= RingPackets
  BY <1>5, SizeAssumption DEF IInv, Around
<1>7. Fine(ctl', rest') /\ rest' \in Seq(Packet)
  BY <1>1, <1>3, <1>4, <1>5, <1>6, ContinueFine
<1>8. Around'
  BY <1>7, AroundKept DEF IInv, Around, ParsePacket, envVars, CutOff, Throws, Fault
<1> QED
  BY <1>7, <1>8 DEF IInv

\* An ACK is handled, and may send the next message of its id.
LEMMA AckStep ==
  ASSUME IInv, NEW more \in BOOLEAN, NEW sendThrows \in BOOLEAN, NEW throws \in BOOLEAN,
         ParseAck(more, sendThrows, throws)
  PROVE  IInv'
<1> DEFINE c == [ctl EXCEPT !.ring = Tail(@)]
           d == IF more THEN SendImpl(c, Reliable(attempts + 1), sendThrows) ELSE c
<1>1. /\ ctl.ring # <<>> /\ Continue(d, rest, throws)
      /\ more => attempts < MaxAttempts
      /\ attempts' = attempts + One(more)
  BY DEF ParseAck
<1>2. /\ Consistent(c) /\ Served(c) /\ ~ c.reading
      /\ ChunkPackets <= RingPackets => ReadyRight(c) /\ c.is_connected /\ rest = <<>>
  BY <1>1, HeadHandled
<1> HIDE DEF c
<1>3. attempts' \in 0 .. MaxAttempts /\ (more => attempts + 1 \in 0 .. MaxAttempts)
  <2>1. MaxAttempts \in Nat /\ attempts \in 0 .. MaxAttempts
    BY SizeAssumption DEF IInv, Around
  <2> QED
    BY <1>1, <2>1 DEF One
<1>4. Consistent(d) /\ Served(d) /\ (Closed(d) \/ SameLink(c, d))
  <2>1. CASE more
    <3>1. Reliable(attempts + 1) \in Frame
      BY <1>3, <2>1, TasksType
    <3> QED
      BY <1>2, <2>1, <3>1, SendKeeps
  <2>2. CASE ~ more
    BY <1>2, <2>2 DEF SameLink
  <2> QED
    BY <2>1, <2>2
<1> HIDE DEF d
<1>5. ~ d.reading
  BY <1>2, <1>4 DEF Closed, SameLink
<1>6. ASSUME ChunkPackets <= RingPackets
      PROVE  ReadyRight(d) /\ (d.ring # <<>> => d.is_connected) /\ rest = <<>>
  <2>1. CASE Closed(d)
    <3>1. d.ready_state = FALSE /\ d.is_connected = FALSE /\ d.ring = <<>>
      BY <1>4, <2>1 DEF Closed, Consistent, Ctl
    <3> QED
      BY <1>2, <1>6, <3>1 DEF ReadyRight
  <2>2. CASE SameLink(c, d)
    <3>1. ReadyRight(c) => ReadyRight(d)
      BY <2>2 DEF SameLink, ReadyRight
    <3> QED
      BY <1>2, <1>6, <2>2, <3>1 DEF SameLink
  <2> QED
    BY <1>4, <2>1, <2>2
<1>7. /\ rest \in Seq(Packet) /\ RingPackets \in Nat
      /\ ChunkPackets <= RingPackets => Len(rest) <= RingPackets
  BY <1>6, SizeAssumption DEF IInv, Around
<1>8. Fine(ctl', rest') /\ rest' \in Seq(Packet)
  BY <1>1, <1>4, <1>5, <1>6, <1>7, ContinueFine
<1>9. Around'
  <2>1. (sendThrows \/ throws) \in BOOLEAN
    OBVIOUS
  <2>2. faults' = faults + One(sendThrows \/ throws)
    BY DEF ParseAck, Throws, Fault
  <2> QED
    BY <1>3, <1>8, <2>1, <2>2, AroundKept DEF IInv, Around, ParseAck, envVars, CutOff
<1> QED
  BY <1>8, <1>9 DEF IInv

\* A write is over and the next one starts.
LEMMA WriteStep ==
  ASSUME IInv, NEW throws \in BOOLEAN, WriteDone(throws)
  PROVE  IInv'
<1> DEFINE r == StartNextWrite(WriteOver, throws)
<1>1. /\ ctl.writing /\ ctl' = r /\ rest' = rest
      /\ ctl.ring = <<>> /\ rest = <<>>
  BY DEF WriteDone, StrandFree, Handling
<1>2. /\ Fine(ctl, rest) /\ Consistent(WriteOver) /\ SameLink(ctl, WriteOver)
      /\ ctl.is_connected
  BY <1>1, WriteOverCounts DEF IInv, Fine, Consistent
<1>3. WriteOver.is_connected
  BY <1>2 DEF SameLink
<1>4. /\ Consistent(r) /\ Served(r)
      /\ \/ Closed(r)
         \/ r = WriteOver
         \/ Same([WriteOver EXCEPT !.writing = TRUE, !.tx_write_in_progress = TRUE], r)
  BY <1>2, <1>3, WriteStarts
<1> HIDE DEF r
<1>5. ASSUME Closed(r) PROVE Fine(r, rest)
  BY <1>1, <1>4, <1>5, ClosedFine
<1>6. ASSUME SameLink(ctl, r) PROVE Fine(r, rest)
  <2>1. ReadyRight(ctl) => ReadyRight(r)
    BY <1>6 DEF ReadyRight, SameLink
  <2> QED
    BY <1>1, <1>2, <1>4, <1>6, <2>1 DEF Fine, SameLink
<1>7. Closed(r) \/ SameLink(ctl, r)
  BY <1>2, <1>4 DEF Consistent, Ctl, SameLink, Same
<1>8. Around'
  BY <1>1, AroundKept DEF IInv, Around, WriteDone, envVars, Throws, Fault
<1> QED
  BY <1>1, <1>5, <1>6, <1>7, <1>8 DEF IInv

\* A handler of an older generation counts itself off, no more.
LEMMA StaleStep ==
  ASSUME IInv, StaleDone
  PROVE  IInv'
<1> DEFINE d == CompleteOp(ctl)
<1>1. /\ ctl.stale_ops > 0 /\ ctl' = [d EXCEPT !.stale_ops = @ - 1] /\ rest' = rest
  BY DEF StaleDone
<1>2. Fine(ctl, rest) /\ Consistent(ctl) /\ ctl \in Ctl /\ Accounted(ctl)
  BY DEF IInv, Fine, Consistent
<1>3. /\ ctl.pending_serial_ops > 0 /\ ctl.pending_serial_ops \in Nat
      /\ ctl.stale_ops \in Nat /\ ctl.stale_ops - 1 \in Nat
  BY <1>1, <1>2 DEF Ctl, Accounted, One
<1>4. d \in Ctl /\ Same(ctl, d) /\ d.pending_serial_ops = ctl.pending_serial_ops - 1
  BY <1>2, <1>3, CompleteOpCounts
<1> HIDE DEF d
<1>5. /\ ctl' \in Ctl /\ SameLink(ctl, ctl') /\ ctl'.stale_ops = ctl.stale_ops - 1
      /\ ctl'.pending_serial_ops = ctl.pending_serial_ops - 1
      /\ ctl'.tx_queue = ctl.tx_queue /\ ctl'.writing = ctl.writing
      /\ ctl'.tx_write_in_progress = ctl.tx_write_in_progress
  BY <1>1, <1>3, <1>4 DEF Ctl, Same, SameLink
<1>6. Consistent(ctl') /\ Served(ctl')
  <2>1. Accounted(ctl')
    BY <1>2, <1>3, <1>5 DEF Accounted, One, SameLink
  <2>2. ctl'.tx_write_in_progress = ctl'.writing
    BY <1>2, <1>5 DEF Consistent
  <2> QED
    BY <1>2, <1>5, <2>1, <2>2 DEF Fine, Consistent, Served, SameLink
<1>7. ReadyRight(ctl) => ReadyRight(ctl')
  BY <1>5 DEF ReadyRight, SameLink
<1>8. Fine(ctl', rest')
  BY <1>1, <1>2, <1>5, <1>6, <1>7 DEF Fine, SameLink
<1>9. Around'
  BY <1>1, AroundKept DEF IInv, Around, StaleDone, envVars
<1> QED
  BY <1>8, <1>9 DEF IInv

\* Before the first tick of a timer.
LEMMA InitFine == Init => IInv
<1> SUFFICES ASSUME Init PROVE IInv
  OBVIOUS
<1>1. PICK strict \in HeartbeatModes :
        ctl = [is_connected |-> FALSE, strict_heartbeat |-> strict,
               state |-> FirstState, ready_state |-> FALSE,
               tx_queue |-> <<>>, tx_write_in_progress |-> FALSE,
               pending_serial_ops |-> 0, shutdown_requested |-> FALSE,
               heartbeat_count |-> 0, last_heartbeat_tx_count |-> 0,
               awaiting_heartbeat_ack |-> FALSE, ring |-> <<>>,
               drain |-> "none", strand |-> <<>>,
               reading |-> FALSE, writing |-> FALSE, stale_ops |-> 0,
               called |-> [a \in 1 .. MaxAttempts |-> 0]]
  BY DEF Init
<1>2. /\ FirstState \in {"WAITING_HANDSHAKE", "RUNNING"}
      /\ FirstState = "WAITING_HANDSHAKE" => RequireHandshake
  BY DEF FirstState
<1>3. /\ <<>> \in Seq(Frame) /\ <<>> \in Seq(Packet) /\ <<>> \in Seq(Task)
      /\ [a \in 1 .. MaxAttempts |-> 0] \in [1 .. MaxAttempts -> Nat]
  OBVIOUS
<1>4. ctl \in Ctl
  BY <1>1, <1>2, <1>3, CountsType DEF Ctl
<1>5. Consistent(ctl) /\ Closed(ctl)
  BY <1>1, <1>2, <1>4 DEF Consistent, Accounted, Closed, One
<1>6. Fine(ctl, rest)
  BY <1>5, ClosedFine DEF Init
<1>7. Around
  <2>1. 0 \in 0 .. MaxRacers /\ 0 \in 0 .. MaxAttempts
    BY SizeAssumption
  <2>2. rest = <<>> /\ line = <<>>
    BY DEF Init
  <2> QED
    BY <1>3, <2>1, <2>2 DEF Init, Around
<1> QED
  BY <1>6, <1>7 DEF IInv

\* The inductive invariant of the controller.
THEOREM Inductive == Spec => []IInv
<1>1. Init => IInv
  BY InitFine
<1>2. IInv /\ [Next]_vars => IInv'
  <2> SUFFICES ASSUME IInv, [Next]_vars PROVE IInv'
    OBVIOUS
  <2>1. CASE TimerTick("check") \/ TimerTick("heartbeat") \/ SendData \/ Shutdown \/ LatePosts
    BY <2>1, PostingStep
  <2>2. CASE CheckConnected \/ HeartbeatWaiting \/ HeartbeatRetry \/ HeartbeatNext \/ RunDrained
    BY <2>2, TimerStep
  <2>3. CASE OpenFails \/ HeartbeatTimeout \/ RunDestroy \/ ReadFails \/ WriteFails
    BY <2>3, ResetStep
  <2>4. CASE \E throws \in BOOLEAN : OpenSucceeds(throws)
    BY <2>4, OpenStep
  <2>5. CASE \E throws \in BOOLEAN : RunSend(throws) \/ ReliableAttempt(throws)
    BY <2>5, SendStep
  <2>6. CASE \E n \in 0 .. ChunkPackets, throws \in BOOLEAN : ReadDone(n, throws)
    BY <2>6, ReadStep
  <2>7. CASE \E throws \in BOOLEAN : ParsePacket(throws)
    BY <2>7, ParseStep
  <2>8. CASE \E more, sendThrows, throws \in BOOLEAN : ParseAck(more, sendThrows, throws)
    BY <2>8, AckStep
  <2>9. CASE \E throws \in BOOLEAN : WriteDone(throws)
    BY <2>9, WriteStep
  <2>10. CASE StaleDone
    BY <2>10, StaleStep
  <2>11. CASE Flush \/ LoseReply \/ WindowPasses
    BY <2>11, LineStep
  <2>12. CASE UNCHANGED vars
    BY <2>12 DEF vars, IInv, Around
  <2> QED
    BY <2>1, <2>2, <2>3, <2>4, <2>5, <2>6, <2>7, <2>8, <2>9, <2>10, <2>11, <2>12 DEF Next, LatePosts
<1> QED
  BY <1>1, <1>2, PTL DEF Spec

\* The members and the queues keep their types.
THEOREM TypeCorrect == Spec => []TypeOK
<1>1. IInv => TypeOK
  BY DEF IInv, Fine, Consistent, Around, TypeOK
<1> QED
  BY <1>1, Inductive, PTL

\* pending_serial_ops_ is the number of operations in flight, whatever throws,
\* fails or is reset: complete_serial_op is called once for each.
THEOREM CountIsExact == Spec => []OpsAccounted
<1>1. IInv => OpsAccounted
  BY DEF IInv, Fine, Consistent, Accounted, OpsAccounted
<1> QED
  BY <1>1, Inductive, PTL

\* A connection always has a read, in flight or being handled, and a queue
\* always a write: none is left waiting for an event that will not come.
THEOREM NothingStalls == Spec => []NeverStalls
<1>1. IInv => NeverStalls
  <2> SUFFICES ASSUME IInv PROVE NeverStalls
    OBVIOUS
  <2>1. ctl.is_connected => ctl.reading \/ Handling
    BY DEF IInv, Fine, Handling
  <2> QED
    BY <2>1 DEF IInv, Fine, Consistent, Served, NeverStalls
<1> QED
  BY <1>1, Inductive, PTL

\* Nothing but the handshake is queued before the handshake is done, on any
\* connection.
THEOREM ProbeGoesFirst == Spec => []HandshakeFirst
<1>1. IInv => HandshakeFirst
  BY DEF IInv, Fine, Consistent, HandshakeFirst
<1> QED
  BY <1>1, Inductive, PTL

\* The topic says ready exactly while the link is up, provided that a read
\* always fits into the ring of PacketHandler; controller_ready shows that the
\* proviso is needed.
THEOREM ReadyIsRight ==
  ASSUME ChunkPackets <= RingPackets
  PROVE  Spec => []ReadyIsLinked
<1>1. IInv => ReadyIsLinked
  BY DEF IInv, Fine, ReadyRight, ReadyIsLinked
<1> QED
  BY <1>1, Inductive, PTL

-----------------------------------------------------------------------------
(* Completions.  Each reliable send is either queued, once, or its         *)
(* completion has been called, once.                                       *)

\* Where frames of reliable send a are in s, and how many there are.
Places(s, a) == {i \in 1 .. Len(s) : s[i].attempt = a}

Held(s, a) == Cardinality(Places(s, a))

\* n reliable sends are accounted for.
Booked(c, n) ==
  \A a \in 1 .. MaxAttempts : c.called[a] + Held(c.tx_queue, a) = One(a <= n)

\* Lists are finite.
LEMMA PlacesFinite ==
  ASSUME NEW s \in Seq(Frame), NEW a
  PROVE  IsFiniteSet(Places(s, a)) /\ Held(s, a) \in Nat
<1>1. IsFiniteSet(1 .. Len(s))
  BY FS_Interval
<1>2. IsFiniteSet(Places(s, a))
  BY <1>1, FS_Subset DEF Places
<1> QED
  BY <1>2, FS_CardinalityType DEF Held

\* A frame is appended.
LEMMA HeldAppend ==
  ASSUME NEW s \in Seq(Frame), NEW f \in Frame, NEW a
  PROVE  Held(Append(s, f), a) = Held(s, a) + One(f.attempt = a)
<1> DEFINE n == Len(s) + 1
           t == Append(s, f)
<1>1. /\ Len(s) \in Nat /\ Len(t) = n /\ t[n] = f
      /\ \A i \in 1 .. Len(s) : t[i] = s[i]
  OBVIOUS
<1> HIDE DEF t
<1>2. \A i : i \in 1 .. n <=> i \in 1 .. Len(s) \/ i = n
  BY <1>1
<1>3. n \notin 1 .. Len(s)
  BY <1>1
<1> HIDE DEF n
<1>4. n \notin Places(s, a)
  BY <1>3 DEF Places
<1>5. CASE f.attempt = a
  <2>1. Places(t, a) = Places(s, a) \cup {n}
    BY <1>1, <1>2, <1>5 DEF Places
  <2> QED
    BY <1>4, <1>5, <2>1, PlacesFinite, FS_AddElement DEF Held, One, t
<1>6. CASE f.attempt # a
  <2>1. Places(t, a) = Places(s, a)
    BY <1>1, <1>2, <1>6 DEF Places
  <2> QED
    BY <1>6, <2>1, PlacesFinite DEF Held, One, t
<1> QED
  BY <1>5, <1>6

\* Frames of one list, none, or a single one.
LEMMA HeldSmall ==
  ASSUME NEW f \in Frame, NEW a
  PROVE  Held(<<>>, a) = 0 /\ Held(<<f>>, a) = One(f.attempt = a)
<1>1. Held(<<>>, a) = 0
  <2>1. Places(<<>>, a) = {}
    BY DEF Places
  <2> QED
    BY <2>1, FS_EmptySet DEF Held
<1>2. Append(<<>>, f) = <<f>> /\ <<>> \in Seq(Frame)
  OBVIOUS
<1>3. Held(<<f>>, a) = Held(<<>>, a) + One(f.attempt = a)
  <2>1. \A s \in Seq(Frame) : Held(Append(s, f), a) = Held(s, a) + One(f.attempt = a)
    BY HeldAppend
  <2> DEFINE e == <<>>
  <2>2. e \in Seq(Frame)
    OBVIOUS
  <2>3. Held(Append(e, f), a) = Held(e, a) + One(f.attempt = a)
    BY <2>1, <2>2
  <2> QED
    BY <1>2, <2>3
<1> QED
  BY <1>1, <1>3 DEF One

\* The first frame leaves.
LEMMA HeldTail ==
  ASSUME NEW s \in Seq(Frame), s # <<>>, NEW a
  PROVE  Held(s, a) = Held(Tail(s), a) + One(Head(s).attempt = a)
<1> DEFINE t == Tail(s)
           U == Places(t, a)
           T == Places(s, a) \ {1}
           shift == [i \in U |-> i + 1]
<1>1. /\ Len(s) \in Nat /\ Len(s) > 0 /\ t \in Seq(Frame) /\ Len(t) = Len(s) - 1
      /\ \A i \in 1 .. Len(t) : t[i] = s[i + 1]
      /\ Head(s) = s[1]
  OBVIOUS
<1> HIDE DEF t
<1>2. ASSUME NEW i \in U PROVE i + 1 \in T /\ i \in Nat
  <2>1. i \in 1 .. Len(t) /\ t[i].attempt = a
    BY DEF Places
  <2>2. i + 1 \in 1 .. Len(s) /\ i + 1 # 1 /\ s[i + 1].attempt = a
    BY <1>1, <2>1
  <2> QED
    BY <2>1, <2>2 DEF Places
<1>3. ASSUME NEW j \in T PROVE j - 1 \in U /\ j - 1 + 1 = j
  <2>1. j \in 1 .. Len(s) /\ j # 1 /\ s[j].attempt = a
    BY DEF Places
  <2>2. j - 1 \in 1 .. Len(t) /\ j - 1 + 1 = j
    BY <1>1, <2>1
  <2>3. t[j - 1].attempt = a
    BY <1>1, <2>1, <2>2
  <2> QED
    BY <2>2, <2>3 DEF Places
<1> HIDE DEF U, T
<1>4. shift \in [U -> T]
  BY <1>2
<1>5. \A i, j \in U : shift[i] = shift[j] => i = j
  BY <1>2
<1>6. \A j \in T : \E i \in U : shift[i] = j
  BY <1>3
<1>7. shift \in Bijection(U, T)
  BY <1>4, <1>5, <1>6 DEF Bijection, Injection, Surjection, IsInjective
<1>8. IsFiniteSet(U) /\ Cardinality(T) = Cardinality(U)
  <2>1. IsFiniteSet(U)
    BY <1>1, PlacesFinite DEF U
  <2> QED
    BY <1>7, <2>1, FS_Bijection DEF ExistsBijection
<1>9. /\ Cardinality(T) = IF 1 \in Places(s, a) THEN Held(s, a) - 1 ELSE Held(s, a)
      /\ Held(s, a) \in Nat
  BY PlacesFinite, FS_RemoveElement DEF Held, T
<1>10. 1 \in Places(s, a) <=> Head(s).attempt = a
  BY <1>1 DEF Places
<1>11. Held(t, a) = Cardinality(T)
  BY <1>8 DEF Held, U
<1> QED
  BY <1>9, <1>10, <1>11 DEF One, t

\* Complete calls the completion of each frame of fs that has one.
LEMMA CompleteCalls ==
  ASSUME NEW c \in Ctl, NEW fs \in Seq(Frame), NEW a \in 1 .. MaxAttempts
  PROVE  /\ Complete(c, fs).called[a] = c.called[a] + Held(fs, a)
         /\ c.called[a] \in Nat
BY DEF Complete, Ctl, Held, Places

\* Only the queue and the calls matter.
LEMMA SameBooks ==
  ASSUME NEW c, NEW d, NEW n, Booked(c, n),
         d.called = c.called, d.tx_queue = c.tx_queue
  PROVE  Booked(d, n)
BY DEF Booked

\* Posting and counting call nothing.
LEMMA CallsKept ==
  ASSUME NEW c \in Ctl
  PROVE  /\ \A t \in Task : Post(c, t).called = c.called /\ Post(c, t).tx_queue = c.tx_queue
         /\ Notify(c).called = c.called /\ Notify(c).tx_queue = c.tx_queue
         /\ CompleteOp(c).called = c.called /\ CompleteOp(c).tx_queue = c.tx_queue
<1>1. /\ \A t \in Task : Post(c, t).called = c.called /\ Post(c, t).tx_queue = c.tx_queue
      /\ Notify(c).called = c.called /\ Notify(c).tx_queue = c.tx_queue
  BY DEF Post, Notify, Ctl
<1> DEFINE r == [c EXCEPT !.pending_serial_ops = IF @ > 0 THEN @ - 1 ELSE 0]
<1>2. /\ r.called = c.called /\ r.tx_queue = c.tx_queue
      /\ Notify(r).called = r.called /\ Notify(r).tx_queue = r.tx_queue
  BY DEF Notify, Ctl
<1>3. CompleteOp(c) = r \/ CompleteOp(c) = Notify(r)
  BY DEF CompleteOp
<1> HIDE DEF r
<1> QED
  BY <1>1, <1>2, <1>3

\* reset_serial calls those of the frames it drops.
LEMMA ResetBooks ==
  ASSUME NEW c \in Ctl, NEW n, Booked(c, n)
  PROVE  Booked(Reset(c), n)
<1> DEFINE d == Complete(c, c.tx_queue)
           r == [d EXCEPT
              !.ready_state = FALSE, !.is_connected = FALSE,
              !.stale_ops = @ + One(c.reading) + One(c.writing),
              !.reading = FALSE, !.writing = FALSE,
              !.shutdown_requested = TRUE,
              !.tx_queue = <<>>, !.tx_write_in_progress = FALSE,
              !.ring = <<>>,
              !.state = FirstState,
              !.heartbeat_count = 0, !.last_heartbeat_tx_count = 0,
              !.awaiting_heartbeat_ack = FALSE]
<1>1. c.tx_queue \in Seq(Frame)
  BY DEF Ctl
<1>2. d \in Ctl
  BY <1>1, CompleteKeeps
<1>3. Reset(c) = IF r.pending_serial_ops = 0 /\ r.drain = "waiting" THEN Notify(r) ELSE r
  BY DEF Reset
<1>4. \A a \in 1 .. MaxAttempts : d.called[a] = c.called[a] + Held(c.tx_queue, a)
  BY <1>1, CompleteCalls
<1> HIDE DEF d
<1>5. r.called = d.called /\ r.tx_queue = <<>>
  BY <1>2 DEF Ctl
<1>6. Notify(r).called = r.called /\ Notify(r).tx_queue = r.tx_queue
  BY <1>2 DEF Notify, Ctl
<1> HIDE DEF r
<1>7. Reset(c).called = d.called /\ Reset(c).tx_queue = <<>>
  BY <1>3, <1>5, <1>6
<1>8. ASSUME NEW a \in 1 .. MaxAttempts
      PROVE  Reset(c).called[a] + Held(Reset(c).tx_queue, a) = One(a <= n)
  <2>1. Handshake \in Frame
    BY CountsType, SizeAssumption DEF Handshake, Frame
  <2>2. Held(Reset(c).tx_queue, a) = 0
    BY <1>7, <2>1, HeldSmall
  <2>3. Reset(c).called[a] = One(a <= n)
    BY <1>4, <1>7 DEF Booked
  <2> QED
    BY <2>2, <2>3 DEF One
<1> QED
  BY <1>8 DEF Booked

\* Starting an operation calls none, unless its failure resets the port.
LEMMA StartBooks ==
  ASSUME NEW c \in Ctl, NEW n, Booked(c, n), Accounted(c), NEW throws \in BOOLEAN
  PROVE  /\ ~ c.reading => Booked(StartReceive(c, throws), n)
         /\ ~ c.writing => Booked(StartNextWrite(c, throws), n)
<1> DEFINE s == [c EXCEPT !.pending_serial_ops = @ + 1, !.reading = TRUE]
           so == [CompleteOp(s) EXCEPT !.reading = FALSE]
           w == [c EXCEPT !.pending_serial_ops = @ + 1, !.writing = TRUE,
                          !.tx_write_in_progress = TRUE]
           wo == [CompleteOp(w) EXCEPT !.writing = FALSE, !.tx_write_in_progress = FALSE]
<1>1. c.pending_serial_ops + 1 \in Nat /\ c.stale_ops \in Nat
      /\ c.reading \in BOOLEAN /\ c.writing \in BOOLEAN
  BY DEF Ctl
<1>2. ASSUME ~ c.reading PROVE Booked(StartReceive(c, throws), n)
  <2>1. /\ s \in Ctl /\ s.called = c.called /\ s.tx_queue = c.tx_queue /\ s.reading
        /\ s.pending_serial_ops = c.pending_serial_ops + 1
        /\ s.stale_ops = c.stale_ops /\ s.writing = c.writing
    BY <1>1 DEF Ctl
  <2>2. StartReceive(c, throws) \in {c, s, Reset(so)}
    BY DEF StartReceive
  <2> HIDE DEF s
  <2>3. Accounted(s)
    BY <1>1, <1>2, <2>1 DEF Accounted, One
  <2>4. so \in Ctl
    BY <2>1, <2>3, ReadOver
  <2>5. so.called = s.called /\ so.tx_queue = s.tx_queue
    <3>1. CompleteOp(s) \in Ctl
      BY <1>1, <2>1, CompleteOpCounts DEF Ctl
    <3> QED
      BY <2>1, <3>1, CallsKept DEF Ctl
  <2> HIDE DEF so
  <2>6. Booked(s, n) /\ Booked(so, n)
    BY <2>1, <2>5, SameBooks
  <2>7. Booked(Reset(so), n)
    BY <2>4, <2>6, ResetBooks
  <2> QED
    BY <2>2, <2>6, <2>7
<1>3. ASSUME ~ c.writing PROVE Booked(StartNextWrite(c, throws), n)
  <2>1. /\ w \in Ctl /\ w.called = c.called /\ w.tx_queue = c.tx_queue /\ w.writing
        /\ w.pending_serial_ops = c.pending_serial_ops + 1
        /\ w.stale_ops = c.stale_ops /\ w.reading = c.reading
    BY <1>1 DEF Ctl
  <2>2. StartNextWrite(c, throws) \in {c, w, Reset(wo)}
    BY DEF StartNextWrite
  <2> HIDE DEF w
  <2>3. Accounted(w)
    BY <1>1, <1>3, <2>1 DEF Accounted, One
  <2>4. wo \in Ctl
    BY <2>1, <2>3, WriteEnds
  <2>5. wo.called = w.called /\ wo.tx_queue = w.tx_queue
    <3>1. CompleteOp(w) \in Ctl
      BY <1>1, <2>1, CompleteOpCounts DEF Ctl
    <3> QED
      BY <2>1, <3>1, CallsKept DEF Ctl
  <2> HIDE DEF wo
  <2>6. Booked(w, n) /\ Booked(wo, n)
    BY <2>1, <2>5, SameBooks
  <2>7. Booked(Reset(wo), n)
    BY <2>4, <2>6, ResetBooks
  <2> QED
    BY <2>2, <2>6, <2>7
<1> QED
  BY <1>2, <1>3

\* With frame f there are m reliable sends, after n of them.
Counted(n, f, m) ==
  \A a \in 1 .. MaxAttempts : One(a <= n) + One(f.attempt = a) = One(a <= m)

\* A frame without a completion, and the next reliable send, are.
LEMMA FramesCounted ==
  ASSUME NEW n \in Nat, NEW f \in Frame
  PROVE  /\ f.attempt = 0 => Counted(n, f, n)
         /\ f.attempt = n + 1 => Counted(n, f, n + 1)
BY DEF Counted, One

\* async_send_impl puts the frame into the queue or calls its completion.
LEMMA SendBooks ==
  ASSUME NEW c, Consistent(c), NEW n \in Nat, Booked(c, n),
         NEW f \in Frame, NEW m \in Nat, NEW throws \in BOOLEAN,
         Counted(n, f, m)
  PROVE  Booked(SendImpl(c, f, throws), m)
<1>1. c \in Ctl /\ c.tx_queue \in Seq(Frame) /\ Accounted(c)
  BY DEF Ctl, Consistent
<1>2. \A a \in 1 .. MaxAttempts : One(a <= n) + One(f.attempt = a) = One(a <= m)
  BY DEF Counted
<1>3. CASE ~ Admits(c, f)
  <2> DEFINE r == Complete(c, <<f>>)
  <2>1. <<f>> \in Seq(Frame)
    OBVIOUS
  <2>2. r.tx_queue = c.tx_queue
    BY <1>1, <2>1, CompleteKeeps DEF Same
  <2>3. ASSUME NEW a \in 1 .. MaxAttempts
        PROVE  r.called[a] + Held(r.tx_queue, a) = One(a <= m)
    <3>1. r.called[a] = c.called[a] + Held(<<f>>, a) /\ c.called[a] \in Nat
      BY <1>1, <2>1, CompleteCalls
    <3>2. Held(<<f>>, a) = One(f.attempt = a)
      BY HeldSmall
    <3>3. c.called[a] + Held(c.tx_queue, a) = One(a <= n) /\ Held(c.tx_queue, a) \in Nat
      BY <1>1, PlacesFinite DEF Booked
    <3>4. One(f.attempt = a) \in Nat /\ One(a <= n) + One(f.attempt = a) = One(a <= m)
      BY <1>2 DEF One
    <3> HIDE DEF r
    <3> QED
      BY <2>2, <3>1, <3>2, <3>3, <3>4
  <2> QED
    BY <1>3, <2>3 DEF SendImpl, Booked
<1>4. CASE Admits(c, f)
  <2> DEFINE q == Append(c.tx_queue, f)
             d == [c EXCEPT !.tx_queue = q]
  <2>1. q \in Seq(Frame)
    BY <1>1
  <2>2. \A a \in 1 .. MaxAttempts : Held(q, a) = Held(c.tx_queue, a) + One(f.attempt = a)
    BY <1>1, HeldAppend
  <2> HIDE DEF q
  <2>3. /\ d \in Ctl /\ d.tx_queue = q /\ d.called = c.called
        /\ d.pending_serial_ops = c.pending_serial_ops /\ d.stale_ops = c.stale_ops
        /\ d.reading = c.reading /\ d.writing = c.writing
        /\ d.tx_write_in_progress = c.tx_write_in_progress
    BY <1>1, <2>1 DEF Ctl
  <2> HIDE DEF d
  <2>4. Accounted(d)
    BY <1>1, <2>3 DEF Accounted
  <2>5. Booked(d, m)
    <3>1. ASSUME NEW a \in 1 .. MaxAttempts
          PROVE  d.called[a] + Held(d.tx_queue, a) = One(a <= m)
      <4>1. c.called[a] + Held(c.tx_queue, a) = One(a <= n)
            /\ Held(c.tx_queue, a) \in Nat /\ c.called[a] \in Nat
        BY <1>1, PlacesFinite DEF Booked, Ctl
      <4>2. One(f.attempt = a) \in Nat /\ One(a <= n) + One(f.attempt = a) = One(a <= m)
        BY <1>2 DEF One
      <4>3. Held(q, a) = Held(c.tx_queue, a) + One(f.attempt = a)
        BY <2>2
      <4> QED
        BY <2>3, <4>1, <4>2, <4>3
    <3> QED
      BY <3>1 DEF Booked
  <2>6. Booked(StartNextWrite(d, throws), m)
    <3>1. CASE d.writing
      <4>1. d.tx_write_in_progress
        BY <2>3, <3>1 DEF Consistent
      <4> QED
        BY <2>5, <4>1 DEF StartNextWrite
    <3>2. CASE ~ d.writing
      BY <2>3, <2>4, <2>5, <3>2, StartBooks
    <3> QED
      BY <3>1, <3>2
  <2> QED
    BY <1>4, <2>6 DEF SendImpl, d, q
<1> QED
  BY <1>3, <1>4

\* handle_packet, and the next part of a chunk.
LEMMA ContinueBooks ==
  ASSUME NEW c, Consistent(c), ~ c.reading, NEW n, Booked(c, n), NEW left,
         NEW throws \in BOOLEAN, Continue(c, left, throws)
  PROVE  Booked(ctl', n)
<1> DEFINE d == [c EXCEPT !.ring = Fits(left)]
<1>1. c \in Ctl /\ Accounted(c)
  BY DEF Consistent
<1>2. d.called = c.called /\ d.tx_queue = c.tx_queue
  BY <1>1 DEF Ctl
<1> HIDE DEF d
<1>3. ctl' \in {c, d, StartReceive(c, throws)}
  BY DEF Continue, d
<1>4. Booked(d, n)
  BY <1>2, SameBooks
<1>5. Booked(StartReceive(c, throws), n)
  BY <1>1, StartBooks
<1> QED
  BY <1>3, <1>4, <1>5

\* A packet is handled.
LEMMA PacketBooks ==
  ASSUME NEW c \in Ctl, NEW n, Booked(c, n), NEW p \in Packet
  PROVE  Booked(HandlePacket(c, p), n)
<1> DEFINE heard == [c EXCEPT !.awaiting_heartbeat_ack = FALSE]
           linked == [c EXCEPT !.state = "RUNNING", !.ready_state = TRUE,
                               !.heartbeat_count = 0, !.last_heartbeat_tx_count = 0,
                               !.awaiting_heartbeat_ack = FALSE]
<1>1. HandlePacket(c, p) \in {c, heard, linked}
  <2>1. p.id \in {"handshake", "heartbeat", "ack"}
    BY DEF Packet
  <2> QED
    BY <2>1 DEF HandlePacket, ProcessHandshake
<1>2. /\ heard.called = c.called /\ heard.tx_queue = c.tx_queue
      /\ linked.called = c.called /\ linked.tx_queue = c.tx_queue
  BY DEF Ctl
<1> HIDE DEF heard, linked
<1>3. Booked(heard, n) /\ Booked(linked, n)
  BY <1>2, SameBooks
<1> QED
  BY <1>1, <1>3

\* A write is over: its completion is called as its frame leaves.
LEMMA WriteBooks ==
  ASSUME IInv, ctl.writing, NEW n, Booked(ctl, n)
  PROVE  Booked(WriteOver, n)
<1> DEFINE d == [CompleteOp(ctl) EXCEPT !.writing = FALSE, !.tx_write_in_progress = FALSE,
                                        !.tx_queue = Tail(@)]
           f == Head(ctl.tx_queue)
           q == Tail(ctl.tx_queue)
<1>1. /\ ctl \in Ctl /\ Accounted(ctl) /\ ctl.pending_serial_ops > 0
      /\ ctl.tx_queue \in Seq(Frame) /\ ctl.tx_queue # <<>>
  BY DEF IInv, Fine, Consistent, Ctl, Accounted, One
<1>2. f \in Frame /\ <<f>> \in Seq(Frame) /\ q \in Seq(Frame)
  BY <1>1
<1>3. /\ CompleteOp(ctl) \in Ctl /\ CompleteOp(ctl).called = ctl.called
      /\ CompleteOp(ctl).tx_queue = ctl.tx_queue
  BY <1>1, CompleteOpCounts, CallsKept
<1>4. d \in Ctl /\ d.called = ctl.called /\ d.tx_queue = q
  BY <1>2, <1>3 DEF Ctl
<1>5. WriteOver = Complete(d, <<f>>)
  BY DEF WriteOver
<1>6. \A a : /\ Held(ctl.tx_queue, a) = Held(q, a) + One(f.attempt = a)
             /\ Held(<<f>>, a) = One(f.attempt = a)
             /\ Held(q, a) \in Nat
  <2>1. TAKE a
  <2>2. Held(ctl.tx_queue, a) = Held(Tail(ctl.tx_queue), a) + One(Head(ctl.tx_queue).attempt = a)
    BY <1>1, HeldTail
  <2>3. Held(<<f>>, a) = One(f.attempt = a)
    BY <1>2, HeldSmall
  <2>4. Held(q, a) \in Nat
    BY <1>2, PlacesFinite
  <2> QED
    BY <2>2, <2>3, <2>4
<1> HIDE DEF d, f, q
<1>7. WriteOver.tx_queue = q
  BY <1>2, <1>4, <1>5, CompleteKeeps DEF Same
<1>8. ASSUME NEW a \in 1 .. MaxAttempts
      PROVE  WriteOver.called[a] + Held(WriteOver.tx_queue, a) = One(a <= n)
  <2>1. WriteOver.called[a] = d.called[a] + Held(<<f>>, a) /\ d.called[a] \in Nat
    BY <1>2, <1>4, <1>5, CompleteCalls
  <2>2. ctl.called[a] + Held(ctl.tx_queue, a) = One(a <= n)
    BY DEF Booked
  <2>3. One(f.attempt = a) \in Nat
    BY DEF One
  <2> QED
    BY <1>4, <1>6, <1>7, <2>1, <2>2, <2>3
<1> QED
  BY <1>8 DEF Booked

\* The next task carries no completion.
LEMMA PoppedBooks ==
  ASSUME IInv, ctl.strand # <<>>, NEW n, Booked(ctl, n)
  PROVE  /\ Booked(Popped, n) /\ Popped \in Ctl /\ Consistent(Popped)
         /\ Head(ctl.strand).frame \in Frame /\ Head(ctl.strand).frame.attempt = 0
<1>1. /\ Fine(Popped, rest) /\ Popped \in Ctl /\ Head(ctl.strand) \in Task
  BY PoppedFine
<1>2. ctl \in Ctl
  BY DEF IInv, Fine, Consistent
<1>3. Popped.called = ctl.called /\ Popped.tx_queue = ctl.tx_queue
  BY <1>2 DEF Popped, Ctl
<1>4. Booked(Popped, n)
  BY <1>3, SameBooks
<1> QED
  BY <1>1, <1>4 DEF Fine, Task

\* Steps that neither call a completion nor touch the queue.
LEMMA QuietBooks ==
  ASSUME IInv, Booked(ctl, attempts),
         \/ \E what \in {"check", "heartbeat"} : TimerTick(what)
         \/ SendData \/ Shutdown \/ LatePosts
         \/ CheckConnected \/ HeartbeatWaiting \/ HeartbeatRetry \/ HeartbeatNext
         \/ RunDrained \/ StaleDone \/ Flush \/ LoseReply \/ WindowPasses
  PROVE  Booked(ctl', attempts')
<1>1. ctl \in Ctl /\ ctl.heartbeat_count \in Counts /\ ctl.last_heartbeat_tx_count \in Counts
      /\ Accounted(ctl)
  BY DEF IInv, Fine, Consistent, Ctl
<1>2. attempts' = attempts
  BY DEF TimerTick, SendData, Shutdown, LatePosts, LatePost, CheckConnected, HeartbeatWaiting,
         HeartbeatRetry, HeartbeatNext, RunDrained, StaleDone, Flush, LoseReply, WindowPasses
<1>3. ctl'.called = ctl.called /\ ctl'.tx_queue = ctl.tx_queue
  <2>1. CASE \/ \E what \in {"check", "heartbeat"} : TimerTick(what)
             \/ SendData \/ Shutdown \/ LatePosts
    <3>1. PICK t \in Task : ctl' = [ctl EXCEPT !.strand = Append(@, t)]
      BY <2>1, TasksType DEF TimerTick, PostTask, Post, SendData, Shutdown, LatePosts, LatePost
    <3> QED
      BY <1>1, <3>1 DEF Ctl
  <2>2. CASE Flush \/ LoseReply \/ WindowPasses
    BY <2>2 DEF Flush, LoseReply, WindowPasses
  <2>3. CASE StaleDone
    <3>1. ctl.pending_serial_ops > 0
      BY <1>1, <2>3 DEF StaleDone, Ctl, Accounted, One
    <3>2. /\ CompleteOp(ctl) \in Ctl /\ CompleteOp(ctl).called = ctl.called
          /\ CompleteOp(ctl).tx_queue = ctl.tx_queue
      BY <1>1, <3>1, CompleteOpCounts, CallsKept
    <3> QED
      BY <2>3, <3>2 DEF StaleDone, Ctl
  <2>4. CASE CheckConnected \/ HeartbeatWaiting \/ HeartbeatRetry \/ HeartbeatNext \/ RunDrained
    <3>1. /\ Popped \in Ctl /\ Popped.called = ctl.called /\ Popped.tx_queue = ctl.tx_queue
      <4>1. Popped \in Ctl
        BY <2>4, PoppedFine DEF CheckConnected, HeartbeatWaiting, HeartbeatRetry,
             HeartbeatNext, HeartbeatDue, RunDrained, Next_is
      <4> QED
        BY <1>1, <4>1 DEF Popped, Ctl
    <3>2. \A t \in Task : /\ Post(Popped, t).called = Popped.called
                          /\ Post(Popped, t).tx_queue = Popped.tx_queue
      BY <3>1, CallsKept
    <3>3. CASE CheckConnected \/ RunDrained
      BY <3>1, <3>3 DEF CheckConnected, RunDrained, Ctl
    <3>4. CASE HeartbeatWaiting
      BY <3>1, <3>2, <3>4, TasksType DEF HeartbeatWaiting
    <3>5. CASE HeartbeatRetry
      BY <1>1, <3>1, <3>2, <3>5, TasksType DEF HeartbeatRetry
    <3>6. CASE HeartbeatNext
      <4> DEFINE n == ctl.heartbeat_count
                 c == [Popped EXCEPT !.heartbeat_count = (n + 1) % HeartbeatValues,
                                     !.last_heartbeat_tx_count = n,
                                     !.awaiting_heartbeat_ack = TRUE]
      <4>1. Send(Heartbeat(n)) \in Task
        BY <1>1, TasksType
      <4>2. (n + 1) % HeartbeatValues \in Counts
        BY <1>1, SizeAssumption DEF Counts
      <4>3. c \in Ctl /\ c.called = Popped.called /\ c.tx_queue = Popped.tx_queue
        BY <1>1, <3>1, <4>2 DEF Ctl
      <4>4. ctl' = Post(c, Send(Heartbeat(n)))
        BY <3>6 DEF HeartbeatNext
      <4> HIDE DEF c, n
      <4> QED
        BY <3>1, <4>1, <4>3, <4>4, CallsKept
    <3> QED
      BY <2>4, <3>3, <3>4, <3>5, <3>6
  <2> QED
    BY <2>1, <2>2, <2>3, <2>4
<1> QED
  BY <1>2, <1>3, SameBooks

\* Steps that close or open the port.
LEMMA PortBooks ==
  ASSUME IInv, Booked(ctl, attempts),
         \/ OpenFails \/ HeartbeatTimeout \/ RunDestroy \/ ReadFails \/ WriteFails
         \/ \E throws \in BOOLEAN : OpenSucceeds(throws)
  PROVE  Booked(ctl', attempts')
<1>1. ctl \in Ctl /\ Accounted(ctl)
  BY DEF IInv, Fine, Consistent
<1>2. attempts' = attempts
  BY DEF OpenFails, HeartbeatTimeout, RunDestroy, ReadFails, WriteFails, OpenSucceeds
<1>3. ASSUME ctl.strand # <<>>
      PROVE  /\ Booked(Reset(Popped), attempts)
             /\ Consistent(Reset(Popped)) /\ Closed(Reset(Popped))
  <2>1. Popped \in Ctl /\ Accounted(Popped) /\ Booked(Popped, attempts)
    BY <1>3, PoppedFine, PoppedBooks
  <2> QED
    BY <2>1, ResetBooks, ResetCloses
<1>4. CASE OpenFails \/ HeartbeatTimeout
  BY <1>2, <1>3, <1>4 DEF OpenFails, HeartbeatTimeout, HeartbeatDue, Next_is
<1>5. CASE RunDestroy
  <2> DEFINE r == Reset(Popped)
  <2>1. Booked(r, attempts) /\ r \in Ctl
    BY <1>3, <1>5 DEF RunDestroy, Next_is, Consistent
  <2>2. ctl' = [r EXCEPT !.drain = IF r.pending_serial_ops = 0 THEN "done" ELSE "waiting"]
    BY <1>5 DEF RunDestroy
  <2> HIDE DEF r
  <2>3. ctl'.called = r.called /\ ctl'.tx_queue = r.tx_queue
    BY <2>1, <2>2 DEF Ctl
  <2> QED
    BY <1>2, <2>1, <2>3, SameBooks
<1>6. CASE ReadFails
  <2> DEFINE r == [CompleteOp(ctl) EXCEPT !.reading = FALSE]
  <2>1. ctl.reading /\ ctl' = Reset(r)
    BY <1>6 DEF ReadFails
  <2>2. ctl.pending_serial_ops > 0
    BY <1>1, <2>1 DEF Ctl, Accounted, One
  <2>3. /\ CompleteOp(ctl) \in Ctl /\ CompleteOp(ctl).called = ctl.called
        /\ CompleteOp(ctl).tx_queue = ctl.tx_queue
    BY <1>1, <2>2, CompleteOpCounts, CallsKept
  <2>4. r \in Ctl /\ r.called = ctl.called /\ r.tx_queue = ctl.tx_queue
    BY <2>3 DEF Ctl
  <2> HIDE DEF r
  <2>5. Booked(r, attempts)
    BY <2>4, SameBooks
  <2> QED
    BY <1>2, <2>1, <2>4, <2>5, ResetBooks
<1>7. CASE WriteFails
  <2>1. ctl.writing /\ ctl' = Reset(WriteOver)
    BY <1>7 DEF WriteFails
  <2> QED
    BY <1>2, <2>1, WriteOverCounts, WriteBooks, ResetBooks
<1>8. ASSUME NEW throws \in BOOLEAN, OpenSucceeds(throws)
      PROVE  Booked(ctl', attempts')
  <2> DEFINE c == Reset(Popped)
             opened == [c EXCEPT !.is_connected = TRUE, !.shutdown_requested = FALSE,
                                 !.ready_state = ~RequireHandshake]
             reading == StartReceive(opened, throws)
  <2>1. ctl' = IF RequireHandshake THEN Post(reading, Send(Handshake)) ELSE reading
    BY <1>8 DEF OpenSucceeds
  <2>2. Booked(c, attempts) /\ Consistent(c) /\ Closed(c)
    BY <1>3, <1>8 DEF OpenSucceeds, Next_is
  <2> HIDE DEF c
  <2>3. /\ opened \in Ctl /\ opened.called = c.called /\ opened.tx_queue = c.tx_queue
        /\ ~ opened.reading /\ opened.is_connected
    BY <2>2, FlagAssumption DEF Consistent, Closed, Ctl
  <2>4. Consistent(opened)
    <3>1. /\ opened.writing = c.writing /\ opened.state = c.state
          /\ opened.tx_write_in_progress = c.tx_write_in_progress
          /\ opened.reading = c.reading
          /\ opened.stale_ops = c.stale_ops /\ opened.pending_serial_ops = c.pending_serial_ops
      BY <2>2 DEF Consistent, Ctl
    <3>2. opened.tx_write_in_progress = opened.writing
      BY <2>2, <3>1 DEF Consistent
    <3>3. Accounted(opened)
      BY <2>2, <3>1 DEF Consistent, Accounted
    <3> QED
      BY <2>2, <2>3, <3>1, <3>2, <3>3 DEF Consistent
  <2> HIDE DEF opened
  <2>5. Booked(opened, attempts)
    BY <2>2, <2>3, SameBooks
  <2>6. Booked(reading, attempts) /\ reading \in Ctl
    BY <2>3, <2>4, <2>5, StartBooks, ReadStarts DEF Consistent
  <2> HIDE DEF reading
  <2>7. Booked(Post(reading, Send(Handshake)), attempts)
    BY <2>6, TasksType, CallsKept, SameBooks
  <2> QED
    BY <1>2, <2>1, <2>6, <2>7
<1> QED
  BY <1>4, <1>5, <1>6, <1>7, <1>8

\* Steps that send, handle packets or finish a write.
LEMMA TrafficBooks ==
  ASSUME IInv, Booked(ctl, attempts), NEW throws \in BOOLEAN,
         \/ RunSend(throws) \/ ReliableAttempt(throws) \/ WriteDone(throws)
         \/ \E n \in 0 .. ChunkPackets : ReadDone(n, throws)
         \/ ParsePacket(throws)
         \/ \E more, sendThrows \in BOOLEAN : ParseAck(more, sendThrows, throws)
  PROVE  Booked(ctl', attempts')
<1>1. /\ ctl \in Ctl /\ Consistent(ctl) /\ Accounted(ctl)
      /\ attempts \in Nat /\ MaxAttempts \in Nat
  BY SizeAssumption DEF IInv, Fine, Consistent, Around
<1>2. ASSUME attempts < MaxAttempts
      PROVE  /\ Reliable(attempts + 1) \in Frame
             /\ Reliable(attempts + 1).attempt = attempts + 1
  <2>1. attempts + 1 \in 0 .. MaxAttempts
    BY <1>1, <1>2
  <2> QED
    BY <2>1, TasksType DEF Reliable
<1>3. CASE RunSend(throws)
  <2> DEFINE f == Head(ctl.strand).frame
  <2>1. /\ ctl.strand # <<>> /\ ctl' = SendImpl(Popped, f, throws)
        /\ attempts' = attempts
    BY <1>3 DEF RunSend, Next_is
  <2>2. /\ Booked(Popped, attempts) /\ Consistent(Popped)
        /\ f \in Frame /\ f.attempt = 0
    BY <2>1, PoppedBooks
  <2> HIDE DEF f
  <2>3. Booked(SendImpl(Popped, f, throws), attempts)
    BY <1>1, <2>2, FramesCounted, SendBooks
  <2> QED
    BY <2>1, <2>3
<1>4. CASE ReliableAttempt(throws)
  <2>1. /\ attempts < MaxAttempts /\ attempts' = attempts + 1
        /\ ctl' = SendImpl(ctl, Reliable(attempts + 1), throws)
    BY <1>4 DEF ReliableAttempt
  <2>2. Counted(attempts, Reliable(attempts + 1), attempts + 1)
    BY <1>1, <1>2, <2>1, FramesCounted
  <2> QED
    BY <1>1, <1>2, <2>1, <2>2, SendBooks
<1>5. CASE WriteDone(throws)
  <2>1. ctl.writing /\ ctl' = StartNextWrite(WriteOver, throws) /\ attempts' = attempts
    BY <1>5 DEF WriteDone
  <2>2. /\ WriteOver \in Ctl /\ Accounted(WriteOver) /\ ~ WriteOver.writing
        /\ Booked(WriteOver, attempts)
    BY <2>1, WriteOverCounts, WriteBooks
  <2> QED
    BY <2>1, <2>2, StartBooks
<1>6. ASSUME NEW n \in 0 .. ChunkPackets, ReadDone(n, throws)
      PROVE  Booked(ctl', attempts')
  <2> DEFINE c == [CompleteOp(ctl) EXCEPT !.reading = FALSE]
  <2>1. /\ ctl.reading /\ Continue(c, SubSeq(line, 1, n), throws)
        /\ attempts' = attempts
    BY <1>6 DEF ReadDone
  <2>2. ctl.pending_serial_ops > 0
    BY <1>1, <2>1 DEF Ctl, Accounted, One
  <2>3. /\ CompleteOp(ctl) \in Ctl /\ CompleteOp(ctl).called = ctl.called
        /\ CompleteOp(ctl).tx_queue = ctl.tx_queue
    BY <1>1, <2>2, CompleteOpCounts, CallsKept
  <2>4. c.called = ctl.called /\ c.tx_queue = ctl.tx_queue /\ ~ c.reading
    BY <2>3 DEF Ctl
  <2>5. Consistent(c)
    BY <1>1, <2>1, ReadOver
  <2> HIDE DEF c
  <2>6. Booked(c, attempts)
    BY <2>4, SameBooks
  <2> QED
    BY <2>1, <2>4, <2>5, <2>6, ContinueBooks
<1> DEFINE h == [ctl EXCEPT !.ring = Tail(@)]
<1>7. ASSUME ctl.ring # <<>>
      PROVE  /\ Head(ctl.ring) \in Packet /\ Consistent(h) /\ Served(h) /\ ~ h.reading
             /\ Booked(h, attempts)
  <2>1. h.called = ctl.called /\ h.tx_queue = ctl.tx_queue
    BY <1>1 DEF Ctl
  <2>2. Head(ctl.ring) \in Packet /\ Consistent(h) /\ Served(h) /\ ~ h.reading
    BY <1>7, HeadHandled
  <2> HIDE DEF h
  <2> QED
    BY <2>1, <2>2, SameBooks
<1>8. CASE ParsePacket(throws)
  <2> DEFINE d == HandlePacket(h, Head(ctl.ring))
  <2>1. ctl.ring # <<>> /\ Continue(d, rest, throws) /\ attempts' = attempts
    BY <1>8 DEF ParsePacket
  <2> HIDE DEF h
  <2>2. /\ Head(ctl.ring) \in Packet /\ Consistent(h) /\ ~ h.reading
        /\ Booked(h, attempts) /\ h \in Ctl
    BY <1>7, <2>1 DEF Consistent
  <2>3. Consistent(d) /\ d.reading = h.reading /\ Booked(d, attempts)
    BY <2>2, PacketKeeps, PacketBooks
  <2> HIDE DEF d
  <2>4. ~ d.reading
    BY <2>2, <2>3
  <2> QED
    BY <2>1, <2>3, <2>4, ContinueBooks
<1>9. ASSUME NEW more \in BOOLEAN, NEW sendThrows \in BOOLEAN,
             ParseAck(more, sendThrows, throws)
      PROVE  Booked(ctl', attempts')
  <2> DEFINE d == IF more THEN SendImpl(h, Reliable(attempts + 1), sendThrows) ELSE h
  <2>1. /\ ctl.ring # <<>> /\ Continue(d, rest, throws)
        /\ more => attempts < MaxAttempts
        /\ attempts' = attempts + One(more)
    BY <1>9 DEF ParseAck
  <2> HIDE DEF h
  <2>2. Consistent(h) /\ Served(h) /\ ~ h.reading /\ Booked(h, attempts)
    BY <1>7, <2>1
  <2>3. Consistent(d) /\ ~ d.reading /\ Booked(d, attempts')
    <3>1. CASE more
      <4> DEFINE s == SendImpl(h, Reliable(attempts + 1), sendThrows)
      <4>1. /\ Reliable(attempts + 1) \in Frame
            /\ Reliable(attempts + 1).attempt = attempts + 1
            /\ attempts' = attempts + 1
        BY <1>2, <2>1, <3>1 DEF One
      <4>2. Consistent(s) /\ (Closed(s) \/ SameLink(h, s))
        BY <2>2, <4>1, SendKeeps
      <4>3. Booked(s, attempts + 1)
        <5>1. Counted(attempts, Reliable(attempts + 1), attempts + 1)
          BY <1>1, <4>1, FramesCounted
        <5> QED
          BY <1>1, <2>2, <4>1, <5>1, SendBooks
      <4> HIDE DEF s
      <4>4. ~ s.reading
        BY <2>2, <4>2 DEF Closed, SameLink
      <4> QED
        BY <3>1, <4>1, <4>2, <4>3, <4>4 DEF s
    <3>2. CASE ~ more
      <4>1. attempts' = attempts
        BY <1>1, <2>1, <3>2 DEF One
      <4> QED
        BY <2>2, <3>2, <4>1
    <3> QED
      BY <3>1, <3>2
  <2> HIDE DEF d
  <2> QED
    BY <2>1, <2>3, ContinueBooks
<1> QED
  BY <1>3, <1>4, <1>5, <1>6, <1>8, <1>9

\* The completion of each reliable send is called once, when its frame has left
\* the queue: written, refused, or dropped by a reset.
THEOREM CompletesOnce == Spec => []CompletedOnce
<1> DEFINE Books == Booked(ctl, attempts)
<1>1. Init => Booked(ctl, attempts)
  <2> SUFFICES ASSUME Init, NEW a \in 1 .. MaxAttempts
               PROVE  ctl.called[a] + Held(ctl.tx_queue, a) = One(a <= attempts)
    BY DEF Booked
  <2>1. ctl.called[a] = 0 /\ ctl.tx_queue = <<>> /\ attempts = 0
    BY DEF Init
  <2>2. Handshake \in Frame
    BY CountsType, SizeAssumption DEF Handshake, Frame
  <2>3. Held(<<>>, a) = 0
    BY <2>2, HeldSmall
  <2>4. One(a <= attempts) = 0
    BY <2>1 DEF One
  <2> QED
    BY <2>1, <2>3, <2>4
<1>2. ASSUME IInv, Booked(ctl, attempts), [Next]_vars
      PROVE  Booked(ctl', attempts')
  <2>1. CASE \/ TimerTick("check") \/ TimerTick("heartbeat")
             \/ SendData \/ Shutdown \/ LatePosts
             \/ CheckConnected \/ HeartbeatWaiting \/ HeartbeatRetry \/ HeartbeatNext
             \/ RunDrained \/ StaleDone \/ Flush \/ LoseReply \/ WindowPasses
    BY <1>2, <2>1, QuietBooks
  <2>2. CASE \/ OpenFails \/ HeartbeatTimeout \/ RunDestroy \/ ReadFails \/ WriteFails
             \/ \E throws \in BOOLEAN : OpenSucceeds(throws)
    BY <1>2, <2>2, PortBooks
  <2>3. CASE \E throws \in BOOLEAN : RunSend(throws) \/ ReliableAttempt(throws) \/ WriteDone(throws)
    BY <1>2, <2>3, TrafficBooks
  <2>4. CASE \E n \in 0 .. ChunkPackets, throws \in BOOLEAN : ReadDone(n, throws)
    BY <1>2, <2>4, TrafficBooks
  <2>5. CASE \E throws \in BOOLEAN : ParsePacket(throws)
    BY <1>2, <2>5, TrafficBooks
  <2>6. CASE \E more, sendThrows, throws \in BOOLEAN : ParseAck(more, sendThrows, throws)
    BY <1>2, <2>6, TrafficBooks
  <2>7. CASE UNCHANGED vars
    BY <1>2, <2>7 DEF vars
  <2> QED
    BY <1>2, <2>1, <2>2, <2>3, <2>4, <2>5, <2>6, <2>7 DEF Next, LatePosts
<1>3. ASSUME IInv, Booked(ctl, attempts) PROVE CompletedOnce
  <2> SUFFICES ASSUME NEW a \in 1 .. MaxAttempts
               PROVE  ctl.called[a] =
                        One(a <= attempts /\ \A i \in 1 .. Len(ctl.tx_queue) :
                                               ctl.tx_queue[i].attempt # a)
    BY DEF CompletedOnce
  <2>1. ctl.tx_queue \in Seq(Frame) /\ ctl.called[a] \in Nat
    BY <1>3 DEF IInv, Fine, Consistent, Ctl
  <2>2. ctl.called[a] + Held(ctl.tx_queue, a) = One(a <= attempts)
    BY <1>3 DEF Booked
  <2>3. IsFiniteSet(Places(ctl.tx_queue, a)) /\ Held(ctl.tx_queue, a) \in Nat
    BY <2>1, PlacesFinite
  <2>4. Held(ctl.tx_queue, a) = 0 <=>
          \A i \in 1 .. Len(ctl.tx_queue) : ctl.tx_queue[i].attempt # a
    <3>1. Held(ctl.tx_queue, a) = 0 <=> Places(ctl.tx_queue, a) = {}
      BY <2>3, FS_EmptySet DEF Held
    <3> QED
      BY <3>1 DEF Places
  <2> QED
    BY <2>1, <2>2, <2>3, <2>4 DEF One
<1>4. Init => Books
  BY <1>1
<1>5. Books /\ IInv /\ [Next]_vars => Books'
  BY <1>2
<1>6. Books /\ IInv => CompletedOnce
  BY <1>3
<1> HIDE DEF Books
<1> QED
  BY <1>4, <1>5, <1>6, Inductive, PTL DEF Spec

-----------------------------------------------------------------------------
(* The tasks of the strand: what each function does to them.               *)

\* A record with the members that matter here, whatever its tasks are.
Strands(c) ==
  /\ c = [x \in DOMAIN c |-> c[x]]
  /\ {"strand", "drain", "is_connected", "reading", "writing", "ring",
      "pending_serial_ops", "shutdown_requested"} \subseteq DOMAIN c

\* d has the tasks of c.
SameTasks(c, d) == Strands(d) /\ d.strand = c.strand /\ d.drain = c.drain

\* Completing frames posts nothing.
LEMMA CompleteTasks ==
  ASSUME NEW c, Strands(c), NEW fs
  PROVE  SameTasks(c, Complete(c, fs))
BY DEF Complete, SameTasks, Strands

\* Nor does a reset, unless the destructor is waiting.
LEMMA ResetTasks ==
  ASSUME NEW c, Strands(c), c.drain # "waiting"
  PROVE  SameTasks(c, Reset(c))
<1> DEFINE d == Complete(c, c.tx_queue)
           r1 == [d EXCEPT
              !.ready_state = FALSE, !.is_connected = FALSE,
              !.stale_ops = @ + One(c.reading) + One(c.writing),
              !.reading = FALSE, !.writing = FALSE,
              !.shutdown_requested = TRUE,
              !.tx_queue = <<>>]
           r == [r1 EXCEPT !.tx_write_in_progress = FALSE,
              !.ring = <<>>,
              !.state = FirstState,
              !.heartbeat_count = 0, !.last_heartbeat_tx_count = 0,
              !.awaiting_heartbeat_ack = FALSE]
<1>1. SameTasks(c, d)
  BY CompleteTasks
<1> HIDE DEF d
<1>2. SameTasks(c, r1)
  BY <1>1 DEF SameTasks, Strands
<1> HIDE DEF r1
<1>3. SameTasks(c, r)
  BY <1>2 DEF SameTasks, Strands
<1>4. Reset(c) = r
  BY <1>3 DEF Reset, SameTasks, r1, d
<1> QED
  BY <1>3, <1>4

\* Nor does the end of an operation.
LEMMA CompleteOpTasks ==
  ASSUME NEW c, Strands(c), c.drain # "waiting"
  PROVE  SameTasks(c, CompleteOp(c))
BY DEF CompleteOp, SameTasks, Strands

\* Nor a read, whether it starts or throws.
LEMMA ReadTasks ==
  ASSUME NEW c, Strands(c), c.drain # "waiting", NEW throws
  PROVE  SameTasks(c, StartReceive(c, throws))
<1> DEFINE started == [c EXCEPT !.pending_serial_ops = @ + 1, !.reading = TRUE]
           over == [CompleteOp(started) EXCEPT !.reading = FALSE]
<1>1. SameTasks(c, started)
  BY DEF SameTasks, Strands
<1>2. SameTasks(c, CompleteOp(started))
  BY <1>1, CompleteOpTasks DEF SameTasks
<1>3. StartReceive(c, throws) \in {c, started, Reset(over)}
  BY DEF StartReceive
<1> HIDE DEF started
<1>4. SameTasks(c, over)
  BY <1>2 DEF SameTasks, Strands
<1> HIDE DEF over
<1>5. SameTasks(c, Reset(over))
  BY <1>4, ResetTasks DEF SameTasks
<1>6. SameTasks(c, c)
  BY DEF SameTasks
<1> QED
  BY <1>1, <1>3, <1>5, <1>6

\* Nor a write.
LEMMA WriteTasks ==
  ASSUME NEW c, Strands(c), c.drain # "waiting", NEW throws
  PROVE  SameTasks(c, StartNextWrite(c, throws))
<1> DEFINE started == [c EXCEPT !.pending_serial_ops = @ + 1, !.writing = TRUE,
                                !.tx_write_in_progress = TRUE]
           over == [CompleteOp(started) EXCEPT !.writing = FALSE,
                                               !.tx_write_in_progress = FALSE]
<1>1. SameTasks(c, started)
  BY DEF SameTasks, Strands
<1>2. SameTasks(c, CompleteOp(started))
  BY <1>1, CompleteOpTasks DEF SameTasks
<1>3. StartNextWrite(c, throws) \in {c, started, Reset(over)}
  BY DEF StartNextWrite
<1> HIDE DEF started
<1>4. SameTasks(c, over)
  BY <1>2 DEF SameTasks, Strands
<1> HIDE DEF over
<1>5. SameTasks(c, Reset(over))
  BY <1>4, ResetTasks DEF SameTasks
<1>6. SameTasks(c, c)
  BY DEF SameTasks
<1> QED
  BY <1>1, <1>3, <1>5, <1>6

\* Nor a frame, sent or refused.
LEMMA SendTasks ==
  ASSUME NEW c, Strands(c), c.drain # "waiting", NEW f, NEW throws
  PROVE  SameTasks(c, SendImpl(c, f, throws))
<1> DEFINE queued == [c EXCEPT !.tx_queue = Append(@, f)]
<1>1. SameTasks(c, queued)
  BY DEF SameTasks, Strands
<1>2. SendImpl(c, f, throws) \in {StartNextWrite(queued, throws), Complete(c, <<f>>)}
  BY DEF SendImpl
<1> HIDE DEF queued
<1>3. SameTasks(c, StartNextWrite(queued, throws))
  BY <1>1, WriteTasks DEF SameTasks
<1>4. SameTasks(c, Complete(c, <<f>>))
  BY CompleteTasks
<1> QED
  BY <1>2, <1>3, <1>4

\* Nor a packet.
LEMMA PacketTasks ==
  ASSUME NEW c, Strands(c), NEW p
  PROVE  SameTasks(c, HandlePacket(c, p))
<1>1. SameTasks(c, c)
  BY DEF SameTasks
<1>2. SameTasks(c, ProcessHandshake(c))
  BY <1>1 DEF ProcessHandshake, SameTasks, Strands
<1>3. SameTasks(c, [c EXCEPT !.awaiting_heartbeat_ack = FALSE])
  BY DEF SameTasks, Strands
<1>4. HandlePacket(c, p) \in {c, ProcessHandshake(c), [c EXCEPT !.awaiting_heartbeat_ack = FALSE]}
  BY DEF HandlePacket
<1> QED
  BY <1>1, <1>2, <1>3, <1>4

\* Nor what goes on with a chunk.
LEMMA ContinueTasks ==
  ASSUME NEW c, Strands(c), c.drain # "waiting", NEW left, NEW throws,
         Continue(c, left, throws)
  PROVE  SameTasks(c, ctl')
<1>1. SameTasks(c, c)
  BY DEF SameTasks
<1>2. SameTasks(c, StartReceive(c, throws))
  BY ReadTasks
<1>3. SameTasks(c, [c EXCEPT !.ring = Fits(left)])
  BY DEF SameTasks, Strands
<1>4. ctl' \in {c, StartReceive(c, throws), [c EXCEPT !.ring = Fits(left)]}
  BY DEF Continue
<1> QED
  BY <1>1, <1>2, <1>3, <1>4

-----------------------------------------------------------------------------
(* The tasks of the strand while the destructor waits.                     *)

\* Lists of tasks.
IsList(s) == s \in Seq(Range(s))

\* Every sequence is a list in this sense, whatever its elements are known to be.
LEMMA ListOf ==
  ASSUME NEW S, NEW s \in Seq(S)
  PROVE  IsList(s)
<1>1. PICK n \in Nat : n = Len(s) /\ DOMAIN s = 1 .. n
  BY LenProperties
<1>2. s \in [1 .. n -> Range(s)]
  BY <1>1 DEF Range
<1> HIDE DEF Range
<1> QED
  BY <1>2, SeqDef DEF IsList

\* A list that grows or shrinks is one.
LEMMA ListGrows ==
  ASSUME NEW s, IsList(s), NEW t
  PROVE  /\ IsList(Append(s, t)) /\ Len(Append(s, t)) = Len(s) + 1 /\ Len(s) \in Nat
         /\ \A i \in 1 .. Len(s) : Append(s, t)[i] = s[i]
         /\ Append(s, t)[Len(s) + 1] = t
<1> DEFINE S == Range(s) \cup {t}
<1>1. s \in Seq(S) /\ t \in S
  <2>1. s \in Seq(Range(s))
    BY DEF IsList
  <2> HIDE DEF Range
  <2> QED
    BY <2>1
<1> HIDE DEF S
<1>2. /\ Append(s, t) \in Seq(S) /\ Len(Append(s, t)) = Len(s) + 1
      /\ \A i \in 1 .. Len(s) : Append(s, t)[i] = s[i]
      /\ Append(s, t)[Len(s) + 1] = t
  BY <1>1, AppendProperties
<1>3. Len(s) \in Nat
  BY <1>1, LenProperties
<1>4. IsList(Append(s, t))
  BY <1>2, ListOf
<1> QED
  BY <1>2, <1>3, <1>4

\* Tail of a list moves the other elements one place forward.
LEMMA ListShrinks ==
  ASSUME NEW s, IsList(s), s # <<>>
  PROVE  /\ IsList(Tail(s)) /\ Len(Tail(s)) = Len(s) - 1 /\ Len(s) \in Nat \ {0}
         /\ \A i \in 1 .. Len(s) - 1 : Tail(s)[i] = s[i + 1]
         /\ Head(s) = s[1]
<1> DEFINE S == Range(s)
<1>1. s \in Seq(S)
  BY DEF IsList
<1> HIDE DEF S
<1>2. /\ Tail(s) \in Seq(S) /\ Len(Tail(s)) = Len(s) - 1 /\ Head(s) = s[1]
      /\ \A i \in 1 .. Len(Tail(s)) : Tail(s)[i] = s[i + 1]
  BY <1>1, HeadTailProperties
<1>3. Len(s) \in Nat \ {0}
  BY <1>1, EmptySeq, LenProperties
<1>4. IsList(Tail(s))
  BY <1>2, ListOf
<1> QED
  BY <1>2, <1>3, <1>4

Plain(t) == t.do \notin {"destroy", "drained"}

\* What a thread can still post that passed the check before shutdown, unless
\* it is a check of the connection, which could open the port again.
Late(t) == t.do \in {"send", "heartbeat"} /\ MaxRacers # 0
NoLateCheck == MaxRacers = 0 \/ "check" \notin LateTasks

\* The tasks before shutdown, between shutdown and the destructor's lambda,
\* after it, and once the drain callback is posted.
Staying(s)  == \A i \in 1 .. Len(s) : Plain(s[i])
Leaving(s)  == \E p \in 1 .. Len(s) :
                 /\ s[p].do = "destroy"
                 /\ \A i \in 1 .. p - 1 : Plain(s[i])
                 /\ \A i \in p + 1 .. Len(s) : Late(s[i])
Left(s)     == \A i \in 1 .. Len(s) : Late(s[i])
Draining(s) == \E p \in 1 .. Len(s) :
                 /\ s[p].do = "drained"
                 /\ \A i \in 1 .. Len(s) : i # p => Late(s[i])

\* Taking a task.
LEMMA StayingTail ==
  ASSUME NEW s, IsList(s), s # <<>>, Staying(s)
  PROVE  Plain(Head(s)) /\ Staying(Tail(s))
<1> DEFINE n == Len(s)
           r == Tail(s)
<1>1. /\ n \in Nat \ {0} /\ Len(r) = n - 1 /\ Head(s) = s[1]
      /\ \A i \in 1 .. n - 1 : r[i] = s[i + 1]
  BY ListShrinks
<1>2. \A i \in 1 .. n : Plain(s[i])
  BY DEF Staying
<1> HIDE DEF n, r, Plain
<1>3. \A i \in 1 .. n - 1 : i + 1 \in 1 .. n
  BY <1>1
<1>4. 1 \in 1 .. n
  BY <1>1
<1> QED
  BY <1>1, <1>2, <1>3, <1>4 DEF Staying, r

\* What is left behind the destructor's lambdas stays late when its head runs.
LEMMA LeftTail ==
  ASSUME NEW s, IsList(s), s # <<>>, Left(s)
  PROVE  Late(Head(s)) /\ Left(Tail(s))
<1> DEFINE n == Len(s)
           r == Tail(s)
<1>1. /\ n \in Nat \ {0} /\ Len(r) = n - 1 /\ Head(s) = s[1]
      /\ \A i \in 1 .. n - 1 : r[i] = s[i + 1]
  BY ListShrinks
<1>2. \A i \in 1 .. n : Late(s[i])
  BY DEF Left
<1> HIDE DEF n, r, Late
<1>3. \A i \in 1 .. n - 1 : i + 1 \in 1 .. n
  BY <1>1
<1>4. 1 \in 1 .. n
  BY <1>1
<1> QED
  BY <1>1, <1>2, <1>3, <1>4 DEF Left, r

\* The destructor's lambda runs when nothing but late tasks is behind it; until
\* then plain tasks run before it.
LEMMA LeavingTail ==
  ASSUME NEW s, IsList(s), Leaving(s)
  PROVE  /\ s # <<>>
         /\ Head(s).do = "destroy" => Left(Tail(s))
         /\ Head(s).do # "destroy" => Plain(Head(s)) /\ Leaving(Tail(s))
<1> DEFINE n == Len(s)
           r == Tail(s)
<1>1. PICK p \in 1 .. n : /\ s[p].do = "destroy"
                          /\ \A i \in 1 .. p - 1 : Plain(s[i])
                          /\ \A i \in p + 1 .. n : Late(s[i])
  BY DEF Leaving
<1>2. s # <<>>
  BY <1>1
<1>3. /\ n \in Nat \ {0} /\ Len(r) = n - 1 /\ Head(s) = s[1]
      /\ \A i \in 1 .. n - 1 : r[i] = s[i + 1]
  BY <1>2, ListShrinks
<1>4. \A i \in 1 .. p - 1 : s[i].do # "destroy"
  BY <1>1 DEF Plain
<1> HIDE DEF n, r, Plain, Late
<1>5. CASE p = 1
  <2>1. \A i \in 1 .. n - 1 : i + 1 \in p + 1 .. n
    BY <1>3, <1>5
  <2>2. Left(r)
    BY <1>1, <1>3, <2>1 DEF Left
  <2> QED
    BY <1>1, <1>2, <1>3, <1>5, <2>2 DEF r
<1>6. CASE p # 1
  <2> DEFINE q == p - 1
  <2>1. q \in 1 .. n - 1 /\ p = q + 1 /\ 1 \in 1 .. p - 1
    BY <1>1, <1>3, <1>6
  <2>2. /\ \A i \in 1 .. q - 1 : i \in 1 .. n - 1 /\ i + 1 \in 1 .. p - 1
        /\ \A i \in q + 1 .. n - 1 : i \in 1 .. n - 1 /\ i + 1 \in p + 1 .. n
    BY <1>3, <2>1
  <2> HIDE DEF q
  <2>3. r[q].do = "destroy"
    BY <1>1, <1>3, <2>1
  <2>4. \A i \in 1 .. q - 1 : Plain(r[i])
    BY <1>1, <1>3, <2>2
  <2>5. \A i \in q + 1 .. Len(r) : Late(r[i])
    BY <1>1, <1>3, <2>2
  <2>6. Leaving(r)
    BY <1>3, <2>1, <2>3, <2>4, <2>5 DEF Leaving
  <2> QED
    BY <1>1, <1>2, <1>3, <1>4, <2>1, <2>6 DEF r
<1> QED
  BY <1>5, <1>6

\* The same for the lambda that leaves the destructor, posted by the last
\* handler.
LEMMA DrainingTail ==
  ASSUME NEW s, IsList(s), Draining(s)
  PROVE  /\ s # <<>>
         /\ Head(s).do = "drained" => Left(Tail(s))
         /\ Head(s).do # "drained" => Late(Head(s)) /\ Draining(Tail(s))
<1> DEFINE n == Len(s)
           r == Tail(s)
<1>1. PICK p \in 1 .. n : /\ s[p].do = "drained"
                          /\ \A i \in 1 .. n : i # p => Late(s[i])
  BY DEF Draining
<1>2. s # <<>>
  BY <1>1
<1>3. /\ n \in Nat \ {0} /\ Len(r) = n - 1 /\ Head(s) = s[1]
      /\ \A i \in 1 .. n - 1 : r[i] = s[i + 1]
  BY <1>2, ListShrinks
<1>4. \A i \in 1 .. n : i # p => s[i].do # "drained"
  BY <1>1 DEF Late
<1> HIDE DEF n, r, Late
<1>5. 1 \in 1 .. n /\ \A i \in 1 .. n - 1 : i + 1 \in 1 .. n
  BY <1>3
<1>6. CASE p = 1
  <2>1. \A i \in 1 .. n - 1 : i + 1 # p
    BY <1>6
  <2>2. Left(r)
    BY <1>1, <1>3, <1>5, <2>1 DEF Left
  <2> QED
    BY <1>1, <1>2, <1>3, <1>6, <2>2 DEF r
<1>7. CASE p # 1
  <2> DEFINE q == p - 1
  <2>1. q \in 1 .. n - 1 /\ p = q + 1
    BY <1>1, <1>3, <1>7
  <2>2. \A i \in 1 .. n - 1 : i # q => i + 1 # p
    BY <2>1
  <2> HIDE DEF q
  <2>3. \A i \in 1 .. n - 1 : i # q => Late(r[i])
    BY <1>1, <1>3, <1>5, <2>2
  <2>4. r[q].do = "drained"
    BY <1>1, <1>3, <2>1
  <2>5. Draining(r)
    BY <1>3, <2>1, <2>3, <2>4 DEF Draining
  <2> QED
    BY <1>1, <1>2, <1>3, <1>4, <1>5, <1>7, <2>5 DEF r
<1> QED
  BY <1>6, <1>7

\* Posting one.
LEMMA Posts ==
  ASSUME NEW s, IsList(s), NEW t
  PROVE  /\ Staying(s) /\ Plain(t) => Staying(Append(s, t))
         /\ Staying(s) /\ t.do = "destroy" => Leaving(Append(s, t))
         /\ Leaving(s) /\ Late(t) => Leaving(Append(s, t))
         /\ Left(s) /\ Late(t) => Left(Append(s, t))
         /\ Left(s) /\ t.do = "drained" => Draining(Append(s, t))
         /\ Draining(s) /\ Late(t) => Draining(Append(s, t))
<1> DEFINE n == Len(s)
           r == Append(s, t)
<1>1. n \in Nat /\ Len(r) = n + 1 /\ r[n + 1] = t /\ \A i \in 1 .. n : r[i] = s[i]
  BY ListGrows
<1> HIDE DEF r, Plain, Late
<1>2. \A i \in 1 .. n + 1 : i = n + 1 \/ i \in 1 .. n
  BY <1>1
<1>3. Staying(s) /\ Plain(t) => Staying(r)
  BY <1>1, <1>2 DEF Staying
<1>4. Left(s) /\ Late(t) => Left(r)
  BY <1>1, <1>2 DEF Left
<1>5. ASSUME Staying(s), t.do = "destroy" PROVE Leaving(r)
  <2> HIDE DEF n
  <2>1. n + 1 \in 1 .. n + 1
    BY <1>1
  <2>2. \A i \in 1 .. (n + 1) - 1 : i \in 1 .. n
    BY <1>1
  <2>3. \A i \in (n + 1) + 1 .. n + 1 : FALSE
    BY <1>1
  <2>4. \A i \in 1 .. n : Plain(s[i])
    BY <1>5 DEF Staying, n
  <2> QED
    BY <1>1, <1>5, <2>1, <2>2, <2>3, <2>4 DEF Leaving
<1>6. ASSUME Leaving(s), Late(t) PROVE Leaving(r)
  <2>1. PICK p \in 1 .. n : /\ s[p].do = "destroy"
                            /\ \A i \in 1 .. p - 1 : Plain(s[i])
                            /\ \A i \in p + 1 .. n : Late(s[i])
    BY <1>6 DEF Leaving
  <2> HIDE DEF n
  <2>2. p \in 1 .. n + 1 /\ \A i \in 1 .. p - 1 : i \in 1 .. n
    BY <1>1
  <2>3. \A i \in p + 1 .. n + 1 : i = n + 1 \/ (i \in p + 1 .. n /\ i \in 1 .. n)
    BY <1>1
  <2> QED
    BY <1>1, <1>6, <2>1, <2>2, <2>3 DEF Leaving
<1>7. ASSUME Left(s), t.do = "drained" PROVE Draining(r)
  <2>1. \A i \in 1 .. n : Late(s[i])
    BY <1>7 DEF Left
  <2> HIDE DEF n
  <2>2. n + 1 \in 1 .. n + 1
    BY <1>1
  <2> QED
    BY <1>1, <1>2, <1>7, <2>1, <2>2 DEF Draining
<1>8. ASSUME Draining(s), Late(t) PROVE Draining(r)
  <2>1. PICK p \in 1 .. n : /\ s[p].do = "drained"
                            /\ \A i \in 1 .. n : i # p => Late(s[i])
    BY <1>8 DEF Draining
  <2> HIDE DEF n
  <2>2. p \in 1 .. n + 1
    BY <1>1
  <2> QED
    BY <1>1, <1>2, <1>8, <2>1, <2>2 DEF Draining
<1> QED
  BY <1>3, <1>4, <1>5, <1>6, <1>7, <1>8 DEF r

\* A controller with nothing to wait for but its tasks and closed ports.
Parked(c) == ~ c.is_connected /\ ~ c.reading /\ ~ c.writing /\ c.ring = <<>>

\* The tasks that the strand of c can hold, shutdown having begun or not.
Orderly(c, closing) ==
  /\ Strands(c) /\ IsList(c.strand)
  /\ c.drain \in {"none", "waiting", "posted", "done"}
  /\ c.drain = "none" /\ ~ closing => Staying(c.strand)
  /\ c.drain = "none" /\ closing => Leaving(c.strand)
  /\ c.drain \in {"waiting", "done"} => Left(c.strand)
  /\ c.drain = "posted" => Draining(c.strand)
  /\ c.drain # "none" => closing /\ Parked(c)

\* The invariant of the tasks.
TInv ==
  /\ Orderly(ctl, shutting_down) /\ shutting_down \in BOOLEAN
  /\ ctl.drain # "none" => rest = <<>>
  /\ racers \in 0 .. MaxRacers
  /\ racers # 0 => shutting_down

\* The destructor goes on waiting for what it waits for.
Waits(c, d) ==
  /\ d.drain = c.drain /\ d.pending_serial_ops = c.pending_serial_ops
  /\ d.shutdown_requested = c.shutdown_requested

\* What leaves the tasks alone leaves them in order.
LEMMA SameOrder ==
  ASSUME NEW c, NEW d, NEW closing, Orderly(c, closing), SameTasks(c, d),
         c.drain = "none" \/ Parked(d)
  PROVE  Orderly(d, closing)
BY DEF Orderly, SameTasks

\* A reset leaves nothing in flight.
LEMMA ResetParks ==
  ASSUME NEW c, Strands(c), c.drain # "waiting"
  PROVE  Parked(Reset(c)) /\ Reset(c).shutdown_requested = TRUE
<1> DEFINE d == Complete(c, c.tx_queue)
           r1 == [d EXCEPT
              !.ready_state = FALSE, !.is_connected = FALSE,
              !.stale_ops = @ + One(c.reading) + One(c.writing),
              !.reading = FALSE, !.writing = FALSE,
              !.shutdown_requested = TRUE,
              !.tx_queue = <<>>]
           r == [r1 EXCEPT !.tx_write_in_progress = FALSE,
              !.ring = <<>>,
              !.state = FirstState,
              !.heartbeat_count = 0, !.last_heartbeat_tx_count = 0,
              !.awaiting_heartbeat_ack = FALSE]
<1>1. SameTasks(c, d)
  BY CompleteTasks
<1> HIDE DEF d
<1>2. SameTasks(c, r1) /\ r1.shutdown_requested = TRUE /\ r1.is_connected = FALSE /\ r1.reading = FALSE /\ r1.writing = FALSE
  BY <1>1 DEF SameTasks, Strands
<1> HIDE DEF r1
<1>3. SameTasks(c, r) /\ r.ring = <<>> /\ r.is_connected = FALSE /\ r.reading = FALSE
      /\ r.writing = FALSE /\ r.shutdown_requested = TRUE
  BY <1>2 DEF SameTasks, Strands
<1>4. Reset(c) = r
  BY <1>3 DEF Reset, SameTasks, r1, d
<1> HIDE DEF r
<1> QED
  BY <1>3, <1>4 DEF Parked

\* The next task is taken.
LEMMA PoppedOrder ==
  ASSUME TInv, NEW what, Next_is(what), what \notin {"destroy", "drained"}
  PROVE  /\ Orderly(Popped, shutting_down) /\ Strands(Popped)
         /\ Popped.drain = ctl.drain /\ (Parked(ctl) => Parked(Popped))
         /\ what \notin {"send", "heartbeat"} => ctl.drain = "none"
<1>1. /\ Strands(ctl) /\ IsList(ctl.strand) /\ ctl.strand # <<>>
      /\ Head(ctl.strand).do = what
  BY DEF TInv, Orderly, Next_is
<1>2. /\ Strands(Popped) /\ Popped.drain = ctl.drain /\ Popped.strand = Tail(ctl.strand)
      /\ Popped.is_connected = ctl.is_connected /\ Popped.reading = ctl.reading
      /\ Popped.writing = ctl.writing /\ Popped.ring = ctl.ring
  BY <1>1 DEF Popped, Strands
<1> DEFINE s == ctl.strand
           c == Popped
<1> HIDE DEF c
<1>3. IsList(s) /\ s # <<>> /\ IsList(Tail(s)) /\ Head(s).do \notin {"destroy", "drained"}
  BY <1>1, ListShrinks
<1>4. /\ Staying(s) => Staying(Tail(s))
      /\ Leaving(s) => Leaving(Tail(s))
      /\ Left(s) => Left(Tail(s)) /\ Late(Head(s))
      /\ Draining(s) => Draining(Tail(s)) /\ Late(Head(s))
  BY <1>3, StayingTail, LeavingTail, LeftTail, DrainingTail
<1>5. Parked(ctl) => Parked(c)
  BY <1>2 DEF Parked, c
<1>6. Orderly(c, shutting_down)
  BY <1>2, <1>3, <1>4, <1>5 DEF TInv, Orderly, c
<1>7. ctl.drain # "none" => Late(Head(s))
  BY <1>4 DEF TInv, Orderly
<1>8. ctl.drain # "none" => what \in {"send", "heartbeat"}
  BY <1>1, <1>7 DEF Late
<1> QED
  BY <1>2, <1>5, <1>6, <1>8 DEF c

\* A task is posted.
LEMMA PostOrder ==
  ASSUME NEW c, Orderly(c, shutting_down), c.drain = "none", NEW t, Plain(t)
  PROVE  Orderly(Post(c, t), shutting_down) /\ Post(c, t).drain = "none"
<1>1. CASE shutting_down
  BY <1>1 DEF Post
<1>2. CASE ~ shutting_down
  <2> DEFINE s == c.strand
             d == Post(c, t)
  <2>1. Strands(c) /\ IsList(s) /\ Staying(s)
    BY <1>2 DEF Orderly
  <2>2. Strands(d) /\ d.strand = Append(s, t) /\ d.drain = "none"
    BY <1>2, <2>1 DEF Post, Strands
  <2> HIDE DEF d, s
  <2>3. IsList(Append(s, t)) /\ Staying(Append(s, t))
    BY <2>1, ListGrows, Posts
  <2>4. Orderly(d, shutting_down)
    BY <1>2, <2>2, <2>3 DEF Orderly
  <2> QED
    BY <2>2, <2>4 DEF d
<1> QED
  BY <1>1, <1>2

\* A step of a controller that has not been torn down keeps the tasks of x.
LEMMA WorkingStep ==
  ASSUME TInv, NEW x, Orderly(x, shutting_down), x.drain = "none", SameTasks(x, ctl'),
         shutting_down' = shutting_down, racers' = racers
  PROVE  TInv' /\ ctl'.drain = "none"
<1>1. Orderly(ctl', shutting_down)
  BY SameOrder
<1>2. Orderly(ctl', shutting_down')
  BY <1>1
<1> QED
  BY <1>2 DEF TInv, SameTasks

\* Posting, by timers, threads and the destructor.
LEMMA PostingTasks ==
  ASSUME TInv, \/ \E what \in {"check", "heartbeat"} : TimerTick(what)
               \/ SendData \/ Shutdown
  PROVE  TInv' /\ (ctl'.drain = "none" \/ Waits(ctl, ctl'))
<1>1. Orderly(ctl, shutting_down) /\ Strands(ctl) /\ IsList(ctl.strand)
  BY DEF TInv, Orderly
<1>2. ASSUME NEW t, Plain(t), PostTask(t), shutting_down' = shutting_down, racers' = racers
      PROVE  TInv' /\ (ctl'.drain = "none" \/ Waits(ctl, ctl'))
  <2>1. ctl.drain = "none" /\ ctl' = Post(ctl, t)
    BY <1>1, <1>2 DEF PostTask, Orderly
  <2>2. Orderly(ctl', shutting_down) /\ ctl'.drain = "none"
    BY <1>1, <1>2, <2>1, PostOrder
  <2>3. Orderly(ctl', shutting_down')
    BY <1>2, <2>2
  <2> QED
    BY <1>2, <2>2, <2>3 DEF TInv
<1>3. CASE \E what \in {"check", "heartbeat"} : TimerTick(what)
  <2>1. PICK what \in {"check", "heartbeat"} : TimerTick(what)
    BY <1>3
  <2>2. Plain(Do(what))
    BY DEF Plain, Do
  <2> QED
    BY <1>2, <2>1, <2>2 DEF TimerTick, envVars
<1>4. CASE SendData
  <2>1. Plain(Send(DataFrame))
    BY DEF Plain, Send
  <2> QED
    BY <1>2, <1>4, <2>1 DEF SendData, envVars
<1>5. CASE Shutdown
  <2>1. /\ ~ shutting_down /\ shutting_down' = TRUE /\ rest' = rest
        /\ racers' \in 0 .. MaxRacers
        /\ ctl' = [ctl EXCEPT !.strand = Append(@, Do("destroy"))]
    BY <1>5 DEF Shutdown
  <2>2. Staying(ctl.strand) /\ ctl.drain = "none" /\ Do("destroy").do = "destroy"
    BY <1>1, <2>1 DEF Orderly, Do
  <2>3. Leaving(Append(ctl.strand, Do("destroy"))) /\ IsList(Append(ctl.strand, Do("destroy")))
    BY <1>1, <2>2, Posts, ListGrows
  <2>4. /\ Strands(ctl') /\ ctl'.strand = Append(ctl.strand, Do("destroy"))
        /\ ctl'.drain = "none"
    BY <1>1, <2>1, <2>2 DEF Strands
  <2>5. Orderly(ctl', shutting_down')
    BY <2>1, <2>3, <2>4 DEF Orderly
  <2> QED
    BY <2>1, <2>4, <2>5 DEF TInv
<1> QED
  BY <1>3, <1>4, <1>5

\* Posting by those that lost the race, no check of the connection among them.
LEMMA LatePostingTasks ==
  ASSUME TInv, NoLateCheck, LatePosts
  PROVE  TInv' /\ Waits(ctl, ctl')
<1>1. Orderly(ctl, shutting_down) /\ Strands(ctl) /\ IsList(ctl.strand)
  BY DEF TInv, Orderly
<1>2. PICK what \in {"check", "heartbeat", "send"} : LatePost(what)
  BY DEF LatePosts
<1> DEFINE t == IF what = "send" THEN Send(DataFrame) ELSE Do(what)
           s == ctl.strand
<1>3. /\ racers > 0 /\ racers' = racers - 1 /\ shutting_down' = shutting_down
      /\ rest' = rest /\ ctl' = [ctl EXCEPT !.strand = Append(@, t)]
      /\ what \in LateTasks
  BY <1>2 DEF LatePost
<1>4. racers \in 0 .. MaxRacers /\ MaxRacers \in Nat
  BY SizeAssumption DEF TInv
<1>5. MaxRacers # 0 /\ racers' \in 0 .. MaxRacers /\ shutting_down
  BY <1>3, <1>4 DEF TInv
<1>6. what \in {"heartbeat", "send"}
  BY <1>3, <1>5 DEF NoLateCheck
<1>7. Late(t)
  BY <1>5, <1>6 DEF Late, Send, Do
<1>8. /\ Strands(ctl') /\ ctl'.strand = Append(s, t) /\ ctl'.drain = ctl.drain
      /\ ctl'.is_connected = ctl.is_connected /\ ctl'.reading = ctl.reading
      /\ ctl'.writing = ctl.writing /\ ctl'.ring = ctl.ring
      /\ Waits(ctl, ctl')
  BY <1>1, <1>3 DEF Strands, Waits
<1> HIDE DEF t, s
<1>9. /\ IsList(Append(s, t))
      /\ Leaving(s) => Leaving(Append(s, t))
      /\ Left(s) => Left(Append(s, t))
      /\ Draining(s) => Draining(Append(s, t))
  BY <1>1, <1>7, ListGrows, Posts DEF s
<1>10. Orderly(ctl', shutting_down)
  BY <1>1, <1>5, <1>8, <1>9 DEF Orderly, Parked, s
<1>11. Orderly(ctl', shutting_down')
  BY <1>3, <1>10
<1> QED
  BY <1>3, <1>5, <1>8, <1>11 DEF TInv

\* A port is open only as long as the destructor has not run.
LEMMA OpenOrder ==
  ASSUME TInv, ctl.is_connected \/ ctl.reading \/ ctl.writing \/ ctl.ring # <<>> \/ rest # <<>>
  PROVE  ctl.drain = "none"
BY DEF TInv, Orderly, Parked

\* The timers' tasks.  A late heartbeat finds the port closed.
LEMMA TimerTasks ==
  ASSUME TInv, CheckConnected \/ HeartbeatWaiting \/ HeartbeatRetry \/ HeartbeatNext
  PROVE  TInv' /\ (ctl'.drain = "none" \/ Waits(ctl, ctl'))
<1>1. PICK what \in {"check", "heartbeat"} : Next_is(what)
  BY DEF CheckConnected, HeartbeatWaiting, HeartbeatRetry, HeartbeatNext, HeartbeatDue
<1>2. Orderly(Popped, shutting_down) /\ Strands(Popped) /\ Popped.drain = ctl.drain
  BY <1>1, PoppedOrder
<1>3. shutting_down' = shutting_down /\ racers' = racers
  BY DEF CheckConnected, HeartbeatWaiting, HeartbeatRetry, HeartbeatNext, envVars
<1>4. ASSUME NEW x, Orderly(x, shutting_down), x.drain = "none", ctl' = x
      PROVE  TInv' /\ ctl'.drain = "none"
  <2>1. SameTasks(x, ctl')
    BY <1>4 DEF SameTasks, Orderly
  <2> QED
    BY <1>3, <1>4, <2>1, WorkingStep
<1>5. \A f : Plain(Send(f))
  BY DEF Plain, Send
<1>6. CASE CheckConnected
  <2>1. ctl.drain = "none" /\ ctl' = Popped
    BY <1>6, OpenOrder DEF CheckConnected
  <2> QED
    BY <1>2, <1>4, <2>1
<1>7. CASE HeartbeatWaiting
  <2>1. CASE ctl.drain = "none"
    BY <1>2, <1>4, <1>5, <1>7, <2>1, PostOrder DEF HeartbeatWaiting
  <2>2. CASE ctl.drain # "none"
    <3>1. ctl' = Popped /\ rest' = rest
      BY <1>7, <2>2, OpenOrder DEF HeartbeatWaiting
    <3>2. Waits(ctl, ctl')
      BY <3>1 DEF TInv, Orderly, Strands, Popped, Waits
    <3>3. Orderly(ctl', shutting_down')
      BY <1>2, <1>3, <3>1
    <3> QED
      BY <1>2, <1>3, <3>1, <3>2, <3>3 DEF TInv
  <2> QED
    BY <2>1, <2>2
<1>8. CASE HeartbeatRetry
  <2>1. ctl.drain = "none"
    BY <1>8, OpenOrder DEF HeartbeatRetry, HeartbeatDue
  <2> QED
    BY <1>2, <1>4, <1>5, <1>8, <2>1, PostOrder DEF HeartbeatRetry
<1>9. CASE HeartbeatNext
  <2> DEFINE n == ctl.heartbeat_count
             c == [Popped EXCEPT !.heartbeat_count = (n + 1) % HeartbeatValues,
                                 !.last_heartbeat_tx_count = n,
                                 !.awaiting_heartbeat_ack = TRUE]
  <2>1. ctl' = Post(c, Send(Heartbeat(n)))
    BY <1>9 DEF HeartbeatNext
  <2>2. SameTasks(Popped, c)
    BY <1>2 DEF SameTasks, Strands
  <2> HIDE DEF c
  <2>3. ctl.drain = "none"
    BY <1>9, OpenOrder DEF HeartbeatNext, HeartbeatDue
  <2>4. Orderly(c, shutting_down) /\ c.drain = "none"
    BY <1>2, <2>2, <2>3, SameOrder DEF SameTasks
  <2> QED
    BY <1>4, <1>5, <2>1, <2>4, PostOrder
<1> QED
  BY <1>6, <1>7, <1>8, <1>9

\* The timers' tasks that reset do so before the destructor's lambda.
LEMMA ClosingOrder ==
  ASSUME TInv, OpenFails \/ HeartbeatTimeout
  PROVE  ctl.drain = "none"
<1>1. CASE OpenFails
  <2>1. Next_is("check")
    BY <1>1 DEF OpenFails
  <2> QED
    BY <2>1, PoppedOrder
<1>2. CASE HeartbeatTimeout
  BY <1>2, OpenOrder DEF HeartbeatTimeout, HeartbeatDue
<1> QED
  BY <1>1, <1>2

\* The port is closed, and what was in flight is dropped.
LEMMA ResetStepTasks ==
  ASSUME TInv, OpenFails \/ HeartbeatTimeout \/ ReadFails \/ WriteFails
  PROVE  TInv' /\ ctl'.drain = "none"
<1>1. shutting_down' = shutting_down /\ racers' = racers
  BY DEF OpenFails, HeartbeatTimeout, ReadFails, WriteFails, envVars
<1>2. ASSUME NEW x, Orderly(x, shutting_down), x.drain = "none", ctl' = Reset(x)
      PROVE  TInv' /\ ctl'.drain = "none"
  <2>1. SameTasks(x, ctl')
    BY <1>2, ResetTasks DEF Orderly
  <2> QED
    BY <1>1, <1>2, <2>1, WorkingStep
<1>3. CASE OpenFails \/ HeartbeatTimeout
  <2>1. PICK what \in {"check", "heartbeat"} : Next_is(what)
    BY <1>3 DEF OpenFails, HeartbeatTimeout, HeartbeatDue
  <2>2. ctl.drain = "none"
    BY <1>3, ClosingOrder
  <2>3. Orderly(Popped, shutting_down) /\ Popped.drain = "none"
    BY <2>1, <2>2, PoppedOrder
  <2> QED
    BY <1>2, <1>3, <2>3 DEF OpenFails, HeartbeatTimeout
<1>4. ASSUME ctl.reading \/ ctl.writing
      PROVE  /\ Orderly(ctl, shutting_down) /\ ctl.drain = "none"
             /\ SameTasks(ctl, CompleteOp(ctl))
  <2>1. Orderly(ctl, shutting_down) /\ ctl.drain = "none" /\ Strands(ctl)
    BY <1>4 DEF TInv, Orderly, Parked
  <2> QED
    BY <2>1, CompleteOpTasks
<1>5. CASE ReadFails
  <2> DEFINE x == [CompleteOp(ctl) EXCEPT !.reading = FALSE]
  <2>1. ctl' = Reset(x) /\ ctl.reading
    BY <1>5 DEF ReadFails
  <2>2. SameTasks(ctl, x)
    BY <1>4, <2>1 DEF SameTasks, Strands
  <2> HIDE DEF x
  <2>3. Orderly(x, shutting_down) /\ x.drain = "none"
    BY <1>4, <2>1, <2>2, SameOrder DEF SameTasks
  <2> QED
    BY <1>2, <2>1, <2>3
<1>6. CASE WriteFails
  <2> DEFINE y == [CompleteOp(ctl) EXCEPT !.writing = FALSE,
                                          !.tx_write_in_progress = FALSE,
                                          !.tx_queue = Tail(@)]
  <2>1. ctl' = Reset(Complete(y, <<Head(ctl.tx_queue)>>)) /\ ctl.writing
    BY <1>6 DEF WriteFails, WriteOver
  <2>2. SameTasks(ctl, y)
    BY <1>4, <2>1 DEF SameTasks, Strands
  <2> HIDE DEF y
  <2> DEFINE x == Complete(y, <<Head(ctl.tx_queue)>>)
  <2>3. SameTasks(ctl, x)
    BY <2>2, CompleteTasks DEF SameTasks
  <2> HIDE DEF x
  <2>4. Orderly(x, shutting_down) /\ x.drain = "none"
    BY <1>4, <2>1, <2>3, SameOrder DEF SameTasks
  <2> QED
    BY <1>2, <2>1, <2>4 DEF x
<1> QED
  BY <1>3, <1>5, <1>6

\* The destructor's lambda.
LEMMA DestroyTasks ==
  ASSUME TInv, RunDestroy
  PROVE  TInv' /\ ctl.drain = "none" /\ shutting_down
<1> DEFINE r == Reset(Popped)
           s == ctl.strand
<1>1. /\ Orderly(ctl, shutting_down) /\ Strands(ctl) /\ IsList(s)
      /\ s # <<>> /\ Head(s).do = "destroy" /\ rest = <<>>
  BY DEF TInv, Orderly, RunDestroy, Next_is, StrandFree, Handling
<1>2. ctl.drain = "none" /\ shutting_down /\ Leaving(s)
  <2>1. ~ Plain(Head(s)) /\ ~ Late(Head(s))
    BY <1>1 DEF Plain, Late
  <2>2. ~ Staying(s) /\ ~ Left(s)
    BY <1>1, <2>1, StayingTail, LeftTail
  <2>3. ~ Draining(s)
    BY <1>1, <2>1, DrainingTail
  <2> QED
    BY <1>1, <2>2, <2>3 DEF Orderly
<1>3. Left(Tail(s)) /\ IsList(Tail(s))
  BY <1>1, <1>2, LeavingTail, ListShrinks
<1>4. Strands(Popped) /\ Popped.strand = Tail(s) /\ Popped.drain = "none"
  BY <1>1, <1>2 DEF Popped, Strands
<1>5. SameTasks(Popped, r) /\ Parked(r)
  BY <1>4, ResetTasks, ResetParks
<1>6. ctl' = [r EXCEPT !.drain = IF r.pending_serial_ops = 0 THEN "done" ELSE "waiting"]
  BY DEF RunDestroy
<1> HIDE DEF r
<1>7. /\ Strands(ctl') /\ ctl'.strand = Tail(s) /\ ctl'.drain \in {"done", "waiting"}
      /\ Parked(ctl')
  BY <1>4, <1>5, <1>6 DEF SameTasks, Strands, Parked
<1>8. Orderly(ctl', shutting_down)
  BY <1>2, <1>3, <1>7 DEF Orderly
<1>9. shutting_down' = shutting_down /\ racers' = racers /\ rest' = rest
  BY DEF RunDestroy, envVars
<1>10. Orderly(ctl', shutting_down')
  BY <1>8, <1>9
<1> QED
  BY <1>1, <1>2, <1>9, <1>10 DEF TInv

\* The drain callback.
LEMMA DrainedTasks ==
  ASSUME TInv, RunDrained
  PROVE  TInv' /\ ctl.drain = "posted"
<1> DEFINE s == ctl.strand
<1>1. /\ Orderly(ctl, shutting_down) /\ Strands(ctl) /\ IsList(s)
      /\ s # <<>> /\ Head(s).do = "drained"
  BY DEF TInv, Orderly, RunDrained, Next_is
<1>2. ctl.drain = "posted" /\ shutting_down /\ Draining(s) /\ Parked(ctl)
  <2>1. ~ Plain(Head(s)) /\ ~ Late(Head(s))
    BY <1>1 DEF Plain, Late
  <2>2. ~ Staying(s) /\ ~ Left(s)
    BY <1>1, <2>1, StayingTail, LeftTail
  <2>3. ~ Leaving(s)
    BY <1>1, <2>1, LeavingTail
  <2> QED
    BY <1>1, <2>2, <2>3 DEF Orderly
<1>3. Left(Tail(s)) /\ IsList(Tail(s))
  BY <1>1, <1>2, DrainingTail, ListShrinks
<1>4. Strands(Popped) /\ Popped.strand = Tail(s) /\ Parked(Popped)
  BY <1>1, <1>2 DEF Popped, Strands, Parked
<1>5. ctl' = [Popped EXCEPT !.drain = "done"]
  BY DEF RunDrained
<1>6. /\ Strands(ctl') /\ ctl'.strand = Tail(s) /\ ctl'.drain = "done" /\ Parked(ctl')
  BY <1>4, <1>5 DEF Strands, Parked
<1>7. shutting_down' = shutting_down /\ racers' = racers /\ rest' = rest
  BY DEF RunDrained, envVars
<1>8. Orderly(ctl', shutting_down')
  BY <1>2, <1>3, <1>6, <1>7 DEF Orderly
<1> QED
  BY <1>2, <1>7, <1>8 DEF TInv

\* The port is opened, and the handshake posted.
LEMMA OpenTasks ==
  ASSUME TInv, NEW throws \in BOOLEAN, OpenSucceeds(throws)
  PROVE  TInv' /\ ctl'.drain = "none"
<1> DEFINE opened == [Reset(Popped) EXCEPT
                        !.is_connected = TRUE, !.shutdown_requested = FALSE,
                        !.ready_state = ~RequireHandshake]
           reading == StartReceive(opened, throws)
<1>1. Orderly(Popped, shutting_down) /\ Popped.drain = "none" /\ Strands(Popped)
  BY PoppedOrder DEF OpenSucceeds
<1>2. SameTasks(Popped, Reset(Popped))
  BY <1>1, ResetTasks
<1>3. SameTasks(Popped, opened)
  BY <1>2 DEF SameTasks, Strands
<1>4. ctl' = IF RequireHandshake THEN Post(reading, Send(Handshake)) ELSE reading
  BY DEF OpenSucceeds
<1>5. shutting_down' = shutting_down /\ racers' = racers
  BY DEF OpenSucceeds, envVars
<1> HIDE DEF opened
<1>6. SameTasks(Popped, reading)
  BY <1>1, <1>3, ReadTasks DEF SameTasks
<1> HIDE DEF reading
<1>7. Orderly(reading, shutting_down) /\ reading.drain = "none"
  BY <1>1, <1>6, SameOrder DEF SameTasks
<1>8. Plain(Send(Handshake))
  BY DEF Plain, Send
<1>9. Orderly(ctl', shutting_down) /\ ctl'.drain = "none"
  BY <1>4, <1>7, <1>8, PostOrder
<1>10. SameTasks(ctl', ctl')
  BY <1>9 DEF SameTasks, Orderly
<1> QED
  BY <1>5, <1>9, <1>10, WorkingStep

\* Frames are sent, or refused.
LEMMA SendStepTasks ==
  ASSUME TInv, NEW throws \in BOOLEAN, RunSend(throws) \/ ReliableAttempt(throws)
  PROVE  TInv' /\ (ctl'.drain = "none" \/ Waits(ctl, ctl'))
<1>1. shutting_down' = shutting_down /\ racers' = racers /\ rest' = rest
  BY DEF RunSend, ReliableAttempt, envVars
<1>2. ASSUME NEW c, NEW f, Orderly(c, shutting_down), c.drain = ctl.drain, Waits(ctl, c),
             ctl' = SendImpl(c, f, throws), ctl.drain # "none" => rest = <<>>
      PROVE  TInv' /\ (ctl'.drain = "none" \/ Waits(ctl, ctl'))
  <2>1. Strands(c)
    BY <1>2 DEF Orderly
  <2>2. CASE ctl.drain = "none"
    BY <1>1, <1>2, <2>1, <2>2, SendTasks, WorkingStep
  <2>3. CASE ctl.drain # "none"
    <3>1. Parked(c) /\ ~ c.is_connected /\ shutting_down
      BY <1>2, <2>3 DEF Orderly, Parked
    <3>2. ctl' = Complete(c, <<f>>)
      BY <1>2, <3>1 DEF SendImpl, Admits
    <3>3. SameTasks(c, ctl')
      BY <2>1, <3>2, CompleteTasks
    <3>4. Parked(ctl')
      BY <2>1, <3>1, <3>2 DEF Complete, Parked, Strands
    <3>5. Waits(c, ctl')
      BY <2>1, <3>2 DEF Complete, Waits, Strands
    <3>6. Orderly(ctl', shutting_down)
      BY <1>2, <3>3, <3>4, SameOrder
    <3>7. Orderly(ctl', shutting_down') /\ Waits(ctl, ctl')
      BY <1>1, <1>2, <3>5, <3>6 DEF Waits
    <3> QED
      BY <1>1, <1>2, <2>3, <3>1, <3>7 DEF TInv
  <2> QED
    BY <2>2, <2>3
<1>3. CASE ReliableAttempt(throws)
  <2>1. Orderly(ctl, shutting_down) /\ Waits(ctl, ctl) /\ (ctl.drain # "none" => rest = <<>>)
    BY DEF TInv, Waits
  <2>2. ctl' = SendImpl(ctl, Reliable(attempts + 1), throws)
    BY <1>3 DEF ReliableAttempt
  <2> QED
    BY <1>2, <2>1, <2>2
<1>4. CASE RunSend(throws)
  <2>1. /\ Orderly(Popped, shutting_down) /\ Popped.drain = ctl.drain
        /\ ctl.drain # "none" => rest = <<>>
    BY <1>4, PoppedOrder DEF RunSend, TInv
  <2>2. ctl' = SendImpl(Popped, Head(ctl.strand).frame, throws)
    BY <1>4 DEF RunSend
  <2>3. Waits(ctl, Popped)
    BY DEF TInv, Orderly, Strands, Popped, Waits
  <2> QED
    BY <1>2, <2>1, <2>2, <2>3
<1> QED
  BY <1>3, <1>4

\* A chunk arrives, and its packets are handled.
LEMMA ReceiveTasks ==
  ASSUME TInv,
         \/ \E n \in 0 .. ChunkPackets, throws \in BOOLEAN : ReadDone(n, throws)
         \/ \E throws \in BOOLEAN : ParsePacket(throws)
         \/ \E more, sendThrows, throws \in BOOLEAN : ParseAck(more, sendThrows, throws)
  PROVE  TInv' /\ ctl'.drain = "none"
<1>1. shutting_down' = shutting_down /\ racers' = racers
  BY DEF ReadDone, ParsePacket, ParseAck, envVars
<1>2. Orderly(ctl, shutting_down) /\ ctl.drain = "none" /\ Strands(ctl)
  BY OpenOrder DEF TInv, Orderly, ReadDone, ParsePacket, ParseAck
<1>3. ASSUME NEW c, SameTasks(ctl, c), NEW left, NEW throws, Continue(c, left, throws)
      PROVE  TInv' /\ ctl'.drain = "none"
  <2>1. SameTasks(c, ctl')
    BY <1>2, <1>3, ContinueTasks DEF SameTasks
  <2>2. SameTasks(ctl, ctl')
    BY <1>3, <2>1 DEF SameTasks
  <2> QED
    BY <1>1, <1>2, <2>2, WorkingStep
<1>4. ASSUME NEW n \in 0 .. ChunkPackets, NEW throws \in BOOLEAN, ReadDone(n, throws)
      PROVE  TInv' /\ ctl'.drain = "none"
  <2>1. SameTasks(ctl, CompleteOp(ctl))
    BY <1>2, CompleteOpTasks
  <2>2. SameTasks(ctl, [CompleteOp(ctl) EXCEPT !.reading = FALSE])
    BY <2>1 DEF SameTasks, Strands
  <2> QED
    BY <1>3, <1>4, <2>2 DEF ReadDone
<1> DEFINE c == [ctl EXCEPT !.ring = Tail(@)]
<1>5. SameTasks(ctl, c)
  BY <1>2 DEF SameTasks, Strands
<1>6. ASSUME NEW throws \in BOOLEAN, ParsePacket(throws)
      PROVE  TInv' /\ ctl'.drain = "none"
  <2>1. Continue(HandlePacket(c, Head(ctl.ring)), rest, throws)
    BY <1>6 DEF ParsePacket
  <2> HIDE DEF c
  <2>2. SameTasks(ctl, HandlePacket(c, Head(ctl.ring)))
    BY <1>5, PacketTasks DEF SameTasks
  <2> QED
    BY <1>3, <2>1, <2>2
<1>7. ASSUME NEW more \in BOOLEAN, NEW sendThrows \in BOOLEAN, NEW throws \in BOOLEAN,
             ParseAck(more, sendThrows, throws)
      PROVE  TInv' /\ ctl'.drain = "none"
  <2> DEFINE sent == SendImpl(c, Reliable(attempts + 1), sendThrows)
  <2>1. Continue(IF more THEN sent ELSE c, rest, throws)
    BY <1>7 DEF ParseAck
  <2> HIDE DEF c
  <2>2. SameTasks(ctl, sent)
    BY <1>2, <1>5, SendTasks DEF SameTasks
  <2> QED
    BY <1>3, <1>5, <2>1, <2>2
<1> QED
  BY <1>4, <1>6, <1>7

\* A write is over, and the next one starts.
LEMMA WrittenTasks ==
  ASSUME TInv, NEW throws \in BOOLEAN, WriteDone(throws)
  PROVE  TInv' /\ ctl'.drain = "none"
<1> DEFINE y == [CompleteOp(ctl) EXCEPT !.writing = FALSE,
                                        !.tx_write_in_progress = FALSE,
                                        !.tx_queue = Tail(@)]
<1>1. /\ shutting_down' = shutting_down /\ racers' = racers /\ ctl.writing
      /\ ctl' = StartNextWrite(WriteOver, throws)
      /\ WriteOver = Complete(y, <<Head(ctl.tx_queue)>>)
  BY DEF WriteDone, WriteOver, envVars
<1>2. Orderly(ctl, shutting_down) /\ ctl.drain = "none" /\ Strands(ctl)
  BY <1>1 DEF TInv, Orderly, Parked
<1>3. SameTasks(ctl, CompleteOp(ctl))
  BY <1>2, CompleteOpTasks
<1>4. SameTasks(ctl, y)
  BY <1>3 DEF SameTasks, Strands
<1> HIDE DEF y
<1>5. SameTasks(ctl, WriteOver)
  BY <1>1, <1>4, CompleteTasks DEF SameTasks
<1>6. SameTasks(WriteOver, ctl')
  BY <1>1, <1>2, <1>5, WriteTasks DEF SameTasks
<1>7. SameTasks(ctl, ctl')
  BY <1>5, <1>6 DEF SameTasks
<1> QED
  BY <1>1, <1>2, <1>7, WorkingStep

\* A handler of a closed port runs, the last of them for the destructor.
LEMMA StaleTasks ==
  ASSUME TInv, StaleDone
  PROVE  TInv'
<1> DEFINE d == [ctl EXCEPT !.pending_serial_ops = IF @ > 0 THEN @ - 1 ELSE 0]
           s == ctl.strand
<1>1. /\ ctl' = [CompleteOp(ctl) EXCEPT !.stale_ops = @ - 1]
      /\ shutting_down' = shutting_down /\ racers' = racers /\ rest' = rest
  BY DEF StaleDone, envVars
<1>2. Orderly(ctl, shutting_down) /\ Strands(ctl)
  BY DEF TInv, Orderly
<1>3. /\ SameTasks(ctl, d) /\ d.is_connected = ctl.is_connected
      /\ d.reading = ctl.reading /\ d.writing = ctl.writing /\ d.ring = ctl.ring
  BY <1>2 DEF SameTasks, Strands
<1>4. \/ CompleteOp(ctl) = d
      \/ CompleteOp(ctl) = Notify(d) /\ d.drain = "waiting"
  BY DEF CompleteOp
<1> HIDE DEF d
<1>5. CASE CompleteOp(ctl) = d
  <2>1. SameTasks(ctl, ctl') /\ (Parked(ctl) => Parked(ctl'))
    BY <1>1, <1>3, <1>5 DEF SameTasks, Strands, Parked
  <2>2. Orderly(ctl', shutting_down)
    BY <1>2, <2>1, SameOrder DEF Orderly
  <2>3. Orderly(ctl', shutting_down')
    BY <1>1, <2>2
  <2> QED
    BY <1>1, <2>1, <2>3 DEF TInv, SameTasks
<1>6. CASE CompleteOp(ctl) = Notify(d) /\ d.drain = "waiting"
  <2>1. /\ Strands(ctl') /\ ctl'.strand = Append(s, Do("drained")) /\ ctl'.drain = "posted"
        /\ Parked(ctl) => Parked(ctl')
    BY <1>1, <1>3, <1>6 DEF SameTasks, Strands, Parked, Notify
  <2>2. IsList(s) /\ Left(s) /\ shutting_down /\ Parked(ctl) /\ rest = <<>>
    BY <1>2, <1>3, <1>6 DEF TInv, Orderly, SameTasks
  <2>3. Do("drained").do = "drained"
    BY DEF Do
  <2> HIDE DEF s
  <2>4. Draining(Append(s, Do("drained"))) /\ IsList(Append(s, Do("drained")))
    BY <2>2, <2>3, Posts, ListGrows
  <2>5. Orderly(ctl', shutting_down')
    BY <1>1, <2>1, <2>2, <2>4 DEF Orderly, s
  <2> QED
    BY <1>1, <2>2, <2>5 DEF TInv
<1> QED
  BY <1>4, <1>5, <1>6

\* The line and the clock.
LEMMA LineTasks ==
  ASSUME TInv, \/ Flush \/ LoseReply \/ WindowPasses
               \/ UNCHANGED <<ctl, rest, shutting_down, racers>>
  PROVE  TInv'
<1>1. UNCHANGED <<ctl, rest, shutting_down, racers>>
  BY DEF Flush, LoseReply, WindowPasses
<1> QED
  BY <1>1 DEF TInv

\* At the start there are no tasks.
LEMMA FirstTasks == Init => TInv
<1> SUFFICES ASSUME Init PROVE TInv
  OBVIOUS
<1>1. Strands(ctl) /\ ctl.strand = <<>> /\ ctl.drain = "none"
  <2>1. PICK strict \in HeartbeatModes :
          ctl = [is_connected |-> FALSE, strict_heartbeat |-> strict,
                 state |-> FirstState, ready_state |-> FALSE,
                 tx_queue |-> <<>>, tx_write_in_progress |-> FALSE,
                 pending_serial_ops |-> 0, shutdown_requested |-> FALSE,
                 heartbeat_count |-> 0, last_heartbeat_tx_count |-> 0,
                 awaiting_heartbeat_ack |-> FALSE, ring |-> <<>>,
                 drain |-> "none", strand |-> <<>>,
                 reading |-> FALSE, writing |-> FALSE, stale_ops |-> 0,
                 called |-> [a \in 1 .. MaxAttempts |-> 0]]
    BY DEF Init
  <2> QED
    BY <2>1 DEF Strands
<1>2. IsList(<<>>) /\ Staying(<<>>)
  <2>1. <<>> \in Seq(Nat) /\ Len(<<>>) = 0
    BY EmptySeq
  <2>2. IsList(<<>>)
    BY <2>1, ListOf, Zenon
  <2> QED
    BY <2>1, <2>2 DEF Staying
<1>3. 0 \in 0 .. MaxRacers
  BY SizeAssumption
<1> QED
  BY <1>1, <1>2, <1>3 DEF Init, TInv, Orderly

-----------------------------------------------------------------------------
(* The destructor.                                                         *)

\* While the destructor waits there is an operation to wait for, whose handler
\* will wake it; when it has been woken there is none.
Awaited ==
  /\ ctl.drain = "waiting" => ctl.pending_serial_ops # 0 /\ ctl.shutdown_requested
  /\ ctl.drain \in {"posted", "done"} => ctl.pending_serial_ops = 0

\* A step of the destructor, or of a handler that it waits for.
LEMMA AwaitedStep ==
  ASSUME IInv, TInv, Awaited,
         \/ ctl'.drain = "none" \/ Waits(ctl, ctl')
         \/ RunDestroy \/ RunDrained \/ StaleDone
  PROVE  Awaited'
<1>1. Strands(ctl) /\ ctl.pending_serial_ops \in Nat
  BY DEF IInv, Fine, Consistent, Ctl, TInv, Orderly
<1>2. CASE ctl'.drain = "none" \/ Waits(ctl, ctl')
  BY <1>2 DEF Awaited, Waits
<1>3. CASE RunDestroy
  <2> DEFINE r == Reset(Popped)
  <2>1. Strands(Popped) /\ Popped.drain # "waiting"
    <3>1. ctl.drain = "none"
      BY <1>3, DestroyTasks
    <3> QED
      BY <1>1, <3>1 DEF Popped, Strands
  <2>2. SameTasks(Popped, r) /\ r.shutdown_requested = TRUE
    BY <2>1, ResetTasks, ResetParks
  <2>3. ctl' = [r EXCEPT !.drain = IF r.pending_serial_ops = 0 THEN "done" ELSE "waiting"]
    BY <1>3 DEF RunDestroy
  <2> HIDE DEF r
  <2>4. /\ ctl'.drain = IF r.pending_serial_ops = 0 THEN "done" ELSE "waiting"
        /\ ctl'.pending_serial_ops = r.pending_serial_ops
        /\ ctl'.shutdown_requested = TRUE
    BY <2>2, <2>3 DEF SameTasks, Strands
  <2> QED
    BY <2>4 DEF Awaited
<1>4. CASE RunDrained
  <2>1. ctl.drain = "posted" /\ ctl.pending_serial_ops = 0
    BY <1>4, DrainedTasks DEF Awaited
  <2>2. ctl'.drain = "done" /\ ctl'.pending_serial_ops = 0
    BY <1>1, <1>4, <2>1 DEF RunDrained, Popped, Strands
  <2> QED
    BY <2>2 DEF Awaited
<1>5. CASE StaleDone
  <2> DEFINE n == IF ctl.pending_serial_ops > 0 THEN ctl.pending_serial_ops - 1 ELSE 0
             d == [ctl EXCEPT !.pending_serial_ops = n]
  <2>1. /\ Strands(d) /\ d.pending_serial_ops = n /\ d.drain = ctl.drain
        /\ d.shutdown_requested = ctl.shutdown_requested
    BY <1>1 DEF Strands
  <2>2. CompleteOp(ctl) = IF d.shutdown_requested /\ d.pending_serial_ops = 0 /\ d.drain = "waiting"
                          THEN Notify(d) ELSE d
    BY DEF CompleteOp
  <2>3. ctl' = [CompleteOp(ctl) EXCEPT !.stale_ops = @ - 1]
    BY <1>5 DEF StaleDone
  <2>4. n \in Nat /\ (ctl.pending_serial_ops = 0 => n = 0)
    BY <1>1
  <2> HIDE DEF d, n
  <2>5. CASE d.shutdown_requested /\ n = 0 /\ ctl.drain = "waiting"
    <3>1. CompleteOp(ctl) = Notify(d)
      BY <2>1, <2>2, <2>5
    <3>2. ctl'.drain = "posted" /\ ctl'.pending_serial_ops = 0
      BY <2>1, <2>3, <2>5, <3>1 DEF Notify, Strands
    <3> QED
      BY <3>2 DEF Awaited
  <2>6. CASE ~ (d.shutdown_requested /\ n = 0 /\ ctl.drain = "waiting")
    <3>1. CompleteOp(ctl) = d
      BY <2>1, <2>2, <2>6
    <3>2. /\ ctl'.drain = ctl.drain /\ ctl'.pending_serial_ops = n
          /\ ctl'.shutdown_requested = ctl.shutdown_requested
      BY <2>1, <2>3, <3>1 DEF Strands
    <3> QED
      BY <2>1, <2>4, <2>6, <3>2 DEF Awaited
  <2> QED
    BY <2>5, <2>6
<1> QED
  BY <1>2, <1>3, <1>4, <1>5

\* The tasks stay in order, and the destructor is woken when all is over,
\* whatever sends and heartbeats are posted behind its lambda. A check of the
\* connection posted there would open the port and clear shutdown_requested_.
THEOREM LeavesInOrder ==
  ASSUME NoLateCheck
  PROVE  Spec => [](TInv /\ Awaited)
<1>1. Init => TInv /\ Awaited
  <2> SUFFICES ASSUME Init PROVE TInv /\ Awaited
    OBVIOUS
  <2>1. ctl.drain = "none"
    BY DEF Init
  <2> QED
    BY <2>1, FirstTasks DEF Awaited
<1>2. IInv /\ IInv' /\ (TInv /\ Awaited) /\ [Next]_vars => (TInv /\ Awaited)'
  <2> SUFFICES ASSUME IInv, TInv, Awaited, [Next]_vars PROVE TInv' /\ Awaited'
    OBVIOUS
  <2>1. CASE TimerTick("check") \/ TimerTick("heartbeat") \/ SendData \/ Shutdown
    BY <2>1, PostingTasks, AwaitedStep
  <2>12. CASE LatePosts
    BY <2>12, LatePostingTasks, AwaitedStep
  <2>2. CASE CheckConnected \/ HeartbeatWaiting \/ HeartbeatRetry \/ HeartbeatNext
    BY <2>2, TimerTasks, AwaitedStep
  <2>3. CASE OpenFails \/ HeartbeatTimeout \/ ReadFails \/ WriteFails
    BY <2>3, ResetStepTasks, AwaitedStep
  <2>4. CASE \E throws \in BOOLEAN : OpenSucceeds(throws)
    BY <2>4, OpenTasks, AwaitedStep
  <2>5. CASE \E throws \in BOOLEAN : RunSend(throws) \/ ReliableAttempt(throws)
    BY <2>5, SendStepTasks, AwaitedStep
  <2>6. CASE \/ \E n \in 0 .. ChunkPackets, throws \in BOOLEAN : ReadDone(n, throws)
             \/ \E throws \in BOOLEAN : ParsePacket(throws)
             \/ \E more, sendThrows, throws \in BOOLEAN : ParseAck(more, sendThrows, throws)
    BY <2>6, ReceiveTasks, AwaitedStep
  <2>7. CASE \E throws \in BOOLEAN : WriteDone(throws)
    BY <2>7, WrittenTasks, AwaitedStep
  <2>8. CASE StaleDone
    BY <2>8, StaleTasks, AwaitedStep
  <2>9. CASE RunDestroy
    BY <2>9, DestroyTasks, AwaitedStep
  <2>10. CASE RunDrained
    BY <2>10, DrainedTasks, AwaitedStep
  <2>11. CASE Flush \/ LoseReply \/ WindowPasses \/ UNCHANGED vars
    <3>1. UNCHANGED <<ctl, rest, shutting_down, racers>>
      BY <2>11 DEF Flush, LoseReply, WindowPasses, vars
    <3>2. Waits(ctl, ctl')
      BY <3>1 DEF Waits
    <3> QED
      BY <3>1, <3>2, LineTasks, AwaitedStep
  <2> QED
    BY <2>1, <2>2, <2>3, <2>4, <2>5, <2>6, <2>7, <2>8, <2>9, <2>10, <2>11, <2>12 DEF Next, LatePosts
<1> QED
  BY <1>1, <1>2, Inductive, PTL DEF Spec

\* When the destructor has returned nothing is in flight, of this connection
\* or of an earlier one: what is left of the strand are best-effort sends and
\* heartbeats that lost the race, each of which finds the port closed.
HandlersOver ==
  Destroyed => /\ ctl.stale_ops = 0 /\ ~ ctl.reading /\ ~ ctl.writing
               /\ \A i \in 1 .. Len(ctl.strand) :
                    ctl.strand[i].do \in {"send", "heartbeat"}

\* Nothing in flight when the destructor returns, with any number of racers,
\* provided that none of them is in check_connection: its task does not look
\* at shutting_down_, and starts a read on the port that it opens.
THEOREM NothingInFlight ==
  ASSUME NoLateCheck
  PROVE  Spec => []HandlersOver
<1>1. IInv /\ TInv /\ Awaited => HandlersOver
  <2> SUFFICES ASSUME IInv, TInv, Awaited, Destroyed PROVE HandlersOver
    BY DEF HandlersOver
  <2>1. ctl.drain = "done" /\ Left(ctl.strand) /\ Parked(ctl) /\ ctl.pending_serial_ops = 0
    BY DEF Destroyed, TInv, Orderly, Awaited
  <2>2. ctl.stale_ops = 0
    <3>1. ctl \in Ctl /\ Accounted(ctl)
      BY DEF IInv, Fine, Consistent
    <3>2. ctl.stale_ops \in Nat
      BY <3>1 DEF Ctl
    <3> QED
      BY <2>1, <3>1, <3>2 DEF Accounted, Parked, One
  <2> QED
    BY <2>1, <2>2 DEF HandlersOver, Left, Late, Parked
<1> QED
  BY <1>1, Inductive, LeavesInOrder, PTL

\* Nor is any task left, provided that no thread is past the check of
\* post_serial when shutdown begins: DrainedIsQuiet in every behaviour.
\* controller_late_post shows that the proviso is needed.
THEOREM NothingLeft ==
  ASSUME MaxRacers = 0
  PROVE  Spec => []DrainedIsQuiet
<1>1. TInv /\ HandlersOver => DrainedIsQuiet
  <2> SUFFICES ASSUME TInv, HandlersOver, Destroyed PROVE DrainedIsQuiet
    BY DEF DrainedIsQuiet
  <2> DEFINE s == ctl.strand
  <2>1. IsList(s) /\ Left(s)
    BY DEF Destroyed, TInv, Orderly
  <2>2. s = <<>>
    <3> HIDE DEF s
    <3>1. s \in Seq(Range(s))
      BY <2>1 DEF IsList
    <3>2. \A i \in 1 .. Len(s) : FALSE
      BY <2>1 DEF Left, Late
    <3> QED
      BY <3>1, <3>2, EmptySeq
  <2> QED
    BY <2>2 DEF HandlersOver, DrainedIsQuiet
<1>2. NoLateCheck
  BY DEF NoLateCheck
<1>3. (Spec => []HandlersOver) /\ (Spec => [](TInv /\ Awaited))
  BY <1>2, NothingInFlight, LeavesInOrder
<1> QED
  BY <1>1, <1>3, PTL

\* While the destructor waits, a handler has yet to run, and the last one
\* notifies it: no wakeup is lost.
AwaitsAHandler == ctl.drain = "waiting" => ctl.stale_ops > 0 /\ ctl.shutdown_requested

\* The wait of the destructor always has a handler to end it (the while loop
\* over pending_serial_ops_ and the notify of the last stale handler), with any
\* number of racers none of which is in check_connection, whose task clears the
\* shutdown_requested_ that this handler looks for.
THEOREM WillBeWoken ==
  ASSUME NoLateCheck
  PROVE  Spec => []AwaitsAHandler
<1>1. IInv /\ TInv /\ Awaited => AwaitsAHandler
  <2> SUFFICES ASSUME IInv, TInv, Awaited, ctl.drain = "waiting" PROVE AwaitsAHandler
    BY DEF AwaitsAHandler
  <2>1. Parked(ctl) /\ ctl.pending_serial_ops # 0 /\ ctl.shutdown_requested
    BY DEF TInv, Orderly, Awaited
  <2>2. ctl \in Ctl /\ Accounted(ctl)
    BY DEF IInv, Fine, Consistent
  <2>3. ctl.stale_ops \in Nat
    BY <2>2 DEF Ctl
  <2> QED
    BY <2>1, <2>2, <2>3 DEF Accounted, Parked, One, AwaitsAHandler
<1> QED
  BY <1>1, Inductive, LeavesInOrder, PTL

=============================================================================
