------------------------- MODULE SerialBridgeProofs -------------------------
(***************************************************************************)
(* Proofs about the controller and the sender together.  What the          *)
(* controller does to the transmit queue is shown of its functions first,  *)
(* then what the sender is told, then that every step keeps the two in     *)
(* agreement.                                                              *)
(***************************************************************************)
EXTENDS SerialBridge, SerialControllerProofs

-----------------------------------------------------------------------------
(* The transmit queue: what each function of the controller does to it.    *)

\* The members that matter here.
Fields(c) == Strands(c) /\ {"tx_queue", "tx_write_in_progress"} \subseteq DOMAIN c

\* A controller whose queue is a list, empty unless the port is open, and not
\* empty while a write is in progress.
Link(c) ==
  /\ Fields(c) /\ IsList(c.tx_queue)
  /\ c.writing => c.tx_queue # <<>>
  /\ ~ c.is_connected => c.tx_queue = <<>>

\* d has the queue of c, and the port as c has it.
SameQueue(c, d) ==
  Link(d) /\ d.tx_queue = c.tx_queue /\ d.is_connected = c.is_connected

\* The port has been closed.
Shut(d) == Link(d) /\ ~ d.is_connected

\* The empty queue is a list.
LEMMA NoneIsList == IsList(<<>>) /\ Len(<<>>) = 0 /\ Range(<<>>) = {}
<1>1. <<>> \in Seq(Nat) /\ Len(<<>>) = 0
  BY EmptySeq
<1>2. IsList(<<>>)
  BY <1>1, ListOf, Zenon
<1>3. DOMAIN <<>> = {}
  BY EmptySeq
<1> QED
  BY <1>1, <1>2, <1>3 DEF Range

\* One more element.
LEMMA GrownList ==
  ASSUME NEW s, IsList(s), NEW t
  PROVE  /\ IsList(Append(s, t)) /\ Append(s, t) # <<>>
         /\ Range(Append(s, t)) = Range(s) \cup {t}
<1> DEFINE n == Len(s)
           r == Append(s, t)
<1>1. /\ IsList(r) /\ n \in Nat /\ Len(r) = n + 1 /\ r[n + 1] = t
      /\ \A i \in 1 .. n : r[i] = s[i]
  BY ListGrows
<1>2. DOMAIN s = 1 .. n /\ DOMAIN r = 1 .. Len(r)
  <2>1. s \in Seq(Range(s)) /\ r \in Seq(Range(r))
    BY <1>1 DEF IsList
  <2> HIDE DEF r
  <2> QED
    BY <2>1, LenProperties
<1> HIDE DEF r, n
<1>3. DOMAIN r = 1 .. n \cup {n + 1}
  BY <1>1, <1>2
<1>4. Range(r) = Range(s) \cup {t}
  BY <1>1, <1>2, <1>3 DEF Range
<1>5. r # <<>>
  BY <1>1, NoneIsList
<1> QED
  BY <1>1, <1>4, <1>5 DEF r

\* One element less.
LEMMA ShrunkList ==
  ASSUME NEW s, IsList(s), s # <<>>
  PROVE  /\ IsList(Tail(s)) /\ Range(Tail(s)) \subseteq Range(s) /\ Head(s) \in Range(s)
         /\ Head(s) = s[1]
<1> DEFINE n == Len(s)
           r == Tail(s)
<1>1. /\ IsList(r) /\ n \in Nat \ {0} /\ Len(r) = n - 1 /\ Head(s) = s[1]
      /\ \A i \in 1 .. n - 1 : r[i] = s[i + 1]
  BY ListShrinks
<1>2. DOMAIN s = 1 .. n /\ DOMAIN r = 1 .. Len(r)
  <2>1. s \in Seq(Range(s)) /\ r \in Seq(Range(r))
    BY <1>1 DEF IsList
  <2> HIDE DEF r
  <2> QED
    BY <2>1, LenProperties
<1> HIDE DEF r, n
<1>3. 1 \in 1 .. n /\ \A i \in 1 .. n - 1 : i + 1 \in 1 .. n
  BY <1>1
<1>4. Range(r) \subseteq Range(s) /\ s[1] \in Range(s)
  BY <1>1, <1>2, <1>3 DEF Range
<1> QED
  BY <1>1, <1>4 DEF r

\* A part of a list.
LEMMA PartOfList ==
  ASSUME NEW s, IsList(s), NEW m \in Nat, NEW n \in Nat, n <= Len(s)
  PROVE  /\ IsList(SubSeq(s, m + 1, n))
         /\ Range(SubSeq(s, m + 1, n)) \subseteq Range(s)
<1> DEFINE S == Range(s)
           r == SubSeq(s, m + 1, n)
<1>1. s \in Seq(S)
  BY DEF IsList
<1> HIDE DEF S
<1>2. r \in Seq(S)
  <2>1. \A i \in m + 1 .. n : i \in 1 .. Len(s)
    BY <1>1, LenProperties
  <2>2. m + 1 \in Int /\ n \in Int
    OBVIOUS
  <2> QED
    BY <1>1, <2>1, <2>2, SubSeqProperties
<1>3. IsList(r)
  BY <1>2, ListOf
<1>4. \A i \in DOMAIN r : r[i] \in S
  BY <1>2
<1> QED
  BY <1>3, <1>4 DEF Range, S

\* reset_serial empties the queue and closes the port.
LEMMA ResetShuts ==
  ASSUME NEW c, Fields(c)
  PROVE  Shut(Reset(c)) /\ Reset(c).ring = <<>>
<1> DEFINE d == Complete(c, c.tx_queue)
           r1 == [d EXCEPT
              !.ready_state = FALSE, !.is_connected = FALSE,
              !.stale_ops = @ + One(c.reading) + One(c.writing),
              !.reading = FALSE, !.writing = FALSE,
              !.shutdown_requested = TRUE,
              !.tx_queue = <<>>]
           r == [r1 EXCEPT !.tx_write_in_progress = FALSE,
              !.ring = <<>>,
              !.state = FirstState,
              !.heartbeat_count = 0, !.last_heartbeat_tx_count = 0,
              !.awaiting_heartbeat_ack = FALSE]
<1>1. Fields(d)
  BY DEF Complete, Fields, Strands
<1> HIDE DEF d
<1>2. Fields(r1) /\ r1.is_connected = FALSE /\ r1.writing = FALSE /\ r1.tx_queue = <<>>
  BY <1>1 DEF Fields, Strands
<1> HIDE DEF r1
<1>3. /\ Fields(r) /\ r.ring = <<>> /\ r.is_connected = FALSE
      /\ r.writing = FALSE /\ r.tx_queue = <<>>
  BY <1>2 DEF Fields, Strands
<1>4. Reset(c) = IF r.pending_serial_ops = 0 /\ r.drain = "waiting" THEN Notify(r) ELSE r
  BY DEF Reset, r1, d
<1> HIDE DEF r
<1>5. /\ Fields(Notify(r)) /\ Notify(r).ring = <<>> /\ Notify(r).is_connected = FALSE
      /\ Notify(r).writing = FALSE /\ Notify(r).tx_queue = <<>>
  BY <1>3 DEF Notify, Fields, Strands
<1> QED
  BY <1>3, <1>4, <1>5, NoneIsList DEF Shut, Link

\* Completing frames leaves the queue alone.
LEMMA CompleteLink ==
  ASSUME NEW c, Link(c), NEW fs
  PROVE  SameQueue(c, Complete(c, fs)) /\ Complete(c, fs).ring = c.ring
<1>1. /\ Fields(Complete(c, fs)) /\ Complete(c, fs).ring = c.ring
      /\ Complete(c, fs).tx_queue = c.tx_queue
      /\ Complete(c, fs).writing = c.writing
      /\ Complete(c, fs).is_connected = c.is_connected
  BY DEF Complete, Link, Fields, Strands
<1> QED
  BY <1>1 DEF SameQueue, Link

\* So does the end of an operation.
LEMMA CompleteOpLink ==
  ASSUME NEW c, Link(c)
  PROVE  /\ SameQueue(c, CompleteOp(c)) /\ CompleteOp(c).ring = c.ring
         /\ CompleteOp(c).writing = c.writing
<1> DEFINE d == [c EXCEPT !.pending_serial_ops = IF @ > 0 THEN @ - 1 ELSE 0]
<1>1. /\ Fields(d) /\ d.ring = c.ring /\ d.tx_queue = c.tx_queue
      /\ d.writing = c.writing /\ d.is_connected = c.is_connected
  BY DEF Link, Fields, Strands
<1>2. CompleteOp(c) \in {d, Notify(d)}
  BY DEF CompleteOp
<1> HIDE DEF d
<1>3. /\ Fields(Notify(d)) /\ Notify(d).ring = c.ring /\ Notify(d).tx_queue = c.tx_queue
      /\ Notify(d).writing = c.writing /\ Notify(d).is_connected = c.is_connected
  BY <1>1 DEF Notify, Fields, Strands
<1> QED
  BY <1>1, <1>2, <1>3 DEF SameQueue, Link

\* A read is started, unless that throws.
LEMMA ReadLink ==
  ASSUME NEW c, Link(c), NEW throws
  PROVE  LET d == StartReceive(c, throws) IN
           \/ SameQueue(c, d) /\ d.ring = c.ring
           \/ c.is_connected /\ Shut(d) /\ d.ring = <<>>
<1> DEFINE started == [c EXCEPT !.pending_serial_ops = @ + 1, !.reading = TRUE]
           over == [CompleteOp(started) EXCEPT !.reading = FALSE]
<1>1. /\ Fields(started) /\ started.ring = c.ring /\ started.tx_queue = c.tx_queue
      /\ started.writing = c.writing /\ started.is_connected = c.is_connected
  BY DEF Link, Fields, Strands
<1>2. StartReceive(c, throws) = IF ~ c.is_connected THEN c
                                ELSE IF throws THEN Reset(over) ELSE started
  BY DEF StartReceive
<1> HIDE DEF started
<1>3. SameQueue(c, started) /\ Link(started)
  BY <1>1 DEF SameQueue, Link
<1>4. Fields(CompleteOp(started))
  BY <1>3, CompleteOpLink DEF SameQueue, Link
<1>5. Fields(over)
  BY <1>4 DEF Fields, Strands
<1> HIDE DEF over
<1>6. SameQueue(c, c)
  BY DEF SameQueue
<1> QED
  BY <1>1, <1>2, <1>3, <1>5, <1>6, ResetShuts

\* A write is started, unless that throws.
LEMMA WriteLink ==
  ASSUME NEW c, Link(c), NEW throws
  PROVE  LET d == StartNextWrite(c, throws) IN
           \/ SameQueue(c, d) /\ d.ring = c.ring
           \/ c.is_connected /\ Shut(d) /\ d.ring = <<>>
<1> DEFINE started == [c EXCEPT !.pending_serial_ops = @ + 1, !.writing = TRUE,
                                !.tx_write_in_progress = TRUE]
           over == [CompleteOp(started) EXCEPT !.writing = FALSE,
                                               !.tx_write_in_progress = FALSE]
<1>1. /\ Fields(started) /\ started.ring = c.ring /\ started.tx_queue = c.tx_queue
      /\ started.is_connected = c.is_connected
  BY DEF Link, Fields, Strands
<1>2. StartNextWrite(c, throws) = IF c.tx_write_in_progress \/ c.tx_queue = <<>> THEN c
                                  ELSE IF throws THEN Reset(over) ELSE started
  BY DEF StartNextWrite
<1> HIDE DEF started
<1>6. SameQueue(c, c)
  BY DEF SameQueue
<1>7. CASE c.tx_queue # <<>>
  <2>1. SameQueue(c, started) /\ Link(started)
    BY <1>1, <1>7 DEF SameQueue, Link
  <2>2. Fields(CompleteOp(started))
    BY <2>1, CompleteOpLink DEF SameQueue, Link
  <2>3. Fields(over)
    BY <2>2 DEF Fields, Strands
  <2> HIDE DEF over
  <2>4. c.is_connected
    BY <1>7 DEF Link
  <2> QED
    BY <1>1, <1>2, <1>6, <2>1, <2>3, <2>4, ResetShuts
<1> QED
  BY <1>2, <1>6, <1>7

\* A frame is queued or refused; it goes with the rest if writing it throws.
LEMMA SendLink ==
  ASSUME NEW c, Link(c), NEW f, NEW throws
  PROVE  LET d == SendImpl(c, f, throws) IN
           /\ ~ Admits(c, f) => SameQueue(c, d) /\ d.ring = c.ring
           /\ Admits(c, f) =>
                /\ c.is_connected
                /\ \/ /\ Link(d) /\ d.is_connected /\ d.ring = c.ring
                      /\ d.tx_queue = Append(c.tx_queue, f)
                   \/ Shut(d) /\ d.ring = <<>>
<1> DEFINE queued == [c EXCEPT !.tx_queue = Append(@, f)]
<1>1. ASSUME Admits(c, f)
      PROVE  /\ SendImpl(c, f, throws) = StartNextWrite(queued, throws)
             /\ Link(queued) /\ queued.is_connected /\ queued.ring = c.ring
             /\ queued.tx_queue = Append(c.tx_queue, f)
  <2>1. c.is_connected
    BY <1>1 DEF Admits
  <2>2. /\ Fields(queued) /\ queued.ring = c.ring /\ queued.is_connected
        /\ queued.tx_queue = Append(c.tx_queue, f)
    BY <2>1 DEF Link, Fields, Strands
  <2>3. SendImpl(c, f, throws) = StartNextWrite(queued, throws)
    BY <1>1 DEF SendImpl
  <2> HIDE DEF queued
  <2>4. IsList(Append(c.tx_queue, f)) /\ Append(c.tx_queue, f) # <<>>
    BY GrownList DEF Link
  <2> QED
    BY <2>2, <2>3, <2>4 DEF Link
<1> HIDE DEF queued
<1>2. ASSUME Admits(c, f)
      PROVE  LET d == SendImpl(c, f, throws) IN
             \/ /\ Link(d) /\ d.is_connected /\ d.ring = c.ring
                /\ d.tx_queue = Append(c.tx_queue, f)
             \/ Shut(d) /\ d.ring = <<>>
  BY <1>1, <1>2, WriteLink DEF SameQueue
<1>3. ASSUME ~ Admits(c, f) PROVE SendImpl(c, f, throws) = Complete(c, <<f>>)
  BY <1>3 DEF SendImpl
<1> QED
  BY <1>2, <1>3, CompleteLink DEF Admits

\* A packet is handled.
LEMMA PacketLink ==
  ASSUME NEW c, Link(c), NEW p
  PROVE  SameQueue(c, HandlePacket(c, p)) /\ HandlePacket(c, p).ring = c.ring
<1>1. SameQueue(c, c)
  BY DEF SameQueue
<1>2. \A d \in {ProcessHandshake(c), [c EXCEPT !.awaiting_heartbeat_ack = FALSE]} :
        /\ Fields(d) /\ d.ring = c.ring /\ d.tx_queue = c.tx_queue
        /\ d.writing = c.writing /\ d.is_connected = c.is_connected
  BY DEF ProcessHandshake, Link, Fields, Strands
<1>3. HandlePacket(c, p) \in {c, ProcessHandshake(c), [c EXCEPT !.awaiting_heartbeat_ack = FALSE]}
  BY DEF HandlePacket
<1> QED
  BY <1>1, <1>2, <1>3 DEF SameQueue, Link

\* A task is posted.
LEMMA PostLink ==
  ASSUME NEW c, Link(c), NEW t
  PROVE  SameQueue(c, Post(c, t)) /\ Post(c, t).ring = c.ring
<1>1. SameQueue(c, c)
  BY DEF SameQueue
<1>2. LET d == [c EXCEPT !.strand = Append(@, t)] IN
        /\ Fields(d) /\ d.ring = c.ring /\ d.tx_queue = c.tx_queue
        /\ d.writing = c.writing /\ d.is_connected = c.is_connected
  BY DEF Link, Fields, Strands
<1> QED
  BY <1>1, <1>2 DEF Post, SameQueue, Link

\* What is left of a chunk goes into the ring, or the next read is started.
LEMMA ContinueLink ==
  ASSUME NEW c, Link(c), IsList(c.ring), NEW left, IsList(left), NEW throws,
         Continue(c, left, throws)
  PROVE  /\ SameQueue(c, ctl') \/ (c.is_connected /\ Shut(ctl'))
         /\ IsList(ctl'.ring) /\ IsList(rest')
         /\ Range(ctl'.ring) \cup Range(rest') \subseteq Range(c.ring) \cup Range(left)
<1>1. CASE c.ring # <<>>
  BY <1>1 DEF Continue, SameQueue
<1>2. CASE c.ring = <<>> /\ left # <<>>
  <2> DEFINE d == [c EXCEPT !.ring = Fits(left)]
  <2>1. ctl' = d /\ rest' = Spills(left)
    BY <1>2 DEF Continue
  <2>2. /\ Fields(d) /\ d.ring = Fits(left) /\ d.tx_queue = c.tx_queue
        /\ d.writing = c.writing /\ d.is_connected = c.is_connected
    BY DEF Link, Fields, Strands
  <2> HIDE DEF d
  <2>3. SameQueue(c, d)
    BY <2>2 DEF SameQueue, Link
  <2>4. PICK n \in Nat : n = Len(left)
    BY LenProperties DEF IsList
  <2>5. RingPackets \in Nat /\ 0 \in Nat /\ 0 + 1 = 1
    BY SizeAssumption
  <2>6. IsList(Spills(left)) /\ Range(Spills(left)) \subseteq Range(left)
    BY <2>4, <2>5, PartOfList DEF Spills
  <2>7. IsList(Fits(left)) /\ Range(Fits(left)) \subseteq Range(left)
    <3> DEFINE m == IF Len(left) < RingPackets THEN Len(left) ELSE RingPackets
    <3>1. m \in Nat /\ m <= Len(left)
      BY <2>4, <2>5
    <3>2. Fits(left) = SubSeq(left, 0 + 1, m)
      BY <2>5 DEF Fits
    <3> HIDE DEF m
    <3> QED
      BY <2>5, <3>1, <3>2, PartOfList
  <2> QED
    BY <2>1, <2>2, <2>3, <2>6, <2>7
<1>3. CASE c.ring = <<>> /\ left = <<>>
  <2>1. ctl' = StartReceive(c, throws) /\ rest' = <<>>
    BY <1>3 DEF Continue
  <2> QED
    BY <1>3, <2>1, ReadLink, NoneIsList
<1> QED
  BY <1>1, <1>2, <1>3

-----------------------------------------------------------------------------
(* The entries of the sender.                                              *)

Numbers == Sender!Seqs

\* An entry that attempt_send has not seen.
Untouched(e) == ~ e.seq_assigned /\ ~ e.send_in_progress /\ ~ e.awaiting_ack

\* The queues of the sender: only a first entry has been attempted.
Queues == {q \in Seq(Sender!Entry) : \A i \in 2 .. Len(q) : Untouched(q[i])}

\* Remainders.
LEMMA Remainder ==
  ASSUME NEW n \in Nat, NEW m \in Nat \ {0}
  PROVE  n % m \in 0 .. m - 1
OBVIOUS

\* PendingEntry's initializers.
LEMMA NewIsUntouched ==
  ASSUME NEW m \in Nat
  PROVE  /\ Sender!NewEntry(m) \in Sender!Entry /\ Untouched(Sender!NewEntry(m))
         /\ Sender!NewEntry(m).msg = m
BY BridgeAssumption
   DEF Sender!NewEntry, Sender!Entry, Sender!Seqs, Sender!Gens, Untouched

\* attempt_send marks the entry as being written, and numbers it once.
LEMMA LaunchedEntry ==
  ASSUME NEW e \in Sender!Entry, seq_counter \in Numbers
  PROVE  LET l == Sender!Launched(e) IN
           /\ l \in Sender!Entry /\ l.msg = e.msg
           /\ l.seq_assigned /\ l.send_in_progress
           /\ l.expected_seq = IF e.seq_assigned THEN e.expected_seq ELSE seq_counter
           /\ l.awaiting_ack = e.awaiting_ack
<1> DEFINE g == (e.send_generation + 1) % GenValues
<1>1. g \in Sender!Gens
  <2>1. e.send_generation + 1 \in Nat /\ GenValues \in Nat \ {0}
    BY BridgeAssumption DEF Sender!Entry, Sender!Gens
  <2> QED
    BY <2>1, Remainder DEF Sender!Gens
<1>2. Sender!Launched(e) =
        [e EXCEPT !.expected_seq = IF e.seq_assigned THEN @ ELSE seq_counter,
                  !.seq_assigned = TRUE, !.send_in_progress = TRUE,
                  !.send_generation = g]
  BY DEF Sender!Launched
<1> HIDE DEF g
<1> QED
  BY <1>1, <1>2 DEF Sender!Entry, Numbers

\* A completion ends the write and arms the timer.
LEMMA CompletedEntry ==
  ASSUME NEW e \in Sender!Entry, NEW ok \in BOOLEAN
  PROVE  LET d == Sender!Completed(e, ok) IN
           /\ d \in Sender!Entry /\ d.msg = e.msg
           /\ d.seq_assigned = e.seq_assigned /\ d.expected_seq = e.expected_seq
           /\ d.send_generation = e.send_generation
           /\ ~ d.send_in_progress /\ d.timer_armed
           /\ Sender!Completed(d, ok) = d
BY DEF Sender!Completed, Sender!Entry

\* A retry timeout only stops waiting for the ACK and counts the retry.
LEMMA TimedOutEntry ==
  ASSUME NEW e \in Sender!Entry
  PROVE  LET d == Sender!TimedOut(e) IN
           /\ d \in Sender!Entry /\ d.msg = e.msg
           /\ d.seq_assigned = e.seq_assigned /\ d.expected_seq = e.expected_seq
           /\ d.send_generation = e.send_generation
           /\ d.send_in_progress = e.send_in_progress /\ d.timer_armed = e.timer_armed
           /\ ~ d.awaiting_ack
<1> DEFINE r == IF e.retries_since_warning + 1 >= WarnThreshold
                THEN 0 ELSE e.retries_since_warning + 1
<1>1. r \in 0 .. WarnThreshold - 1
  BY BridgeAssumption DEF Sender!Entry
<1>2. Sender!TimedOut(e) =
        [e EXCEPT !.awaiting_ack = FALSE, !.retries_since_warning = r]
  BY DEF Sender!TimedOut
<1> HIDE DEF r
<1> QED
  BY <1>1, <1>2 DEF Sender!Entry

\* A timer that fires changes nothing else.
LEMMA FiredEntry ==
  ASSUME NEW e \in Sender!Entry
  PROVE  LET d == Sender!Fired(e) IN
           /\ d \in Sender!Entry /\ d.msg = e.msg
           /\ d.seq_assigned = e.seq_assigned /\ d.expected_seq = e.expected_seq
           /\ d.send_generation = e.send_generation
           /\ d.send_in_progress = e.send_in_progress
           /\ d.awaiting_ack = e.awaiting_ack
BY DEF Sender!Fired, Sender!Entry

\* A first entry is replaced.
LEMMA FrontReplaced ==
  ASSUME NEW q \in Queues, q # <<>>, NEW e \in Sender!Entry
  PROVE  LET r == Sender!WithFront(q, e) IN
           /\ r \in Queues /\ r # <<>> /\ Len(r) = Len(q) /\ r[1] = e
           /\ \A i \in 2 .. Len(q) : r[i] = q[i]
<1> DEFINE r == Sender!WithFront(q, e)
<1>1. q \in Seq(Sender!Entry) /\ \A i \in 2 .. Len(q) : Untouched(q[i])
  BY DEF Queues
<1> HIDE DEF Untouched
<1>2. /\ r \in Seq(Sender!Entry) /\ r # <<>> /\ Len(r) = Len(q) /\ r[1] = e
      /\ \A i \in 2 .. Len(q) : r[i] = q[i]
  BY <1>1 DEF Sender!WithFront
<1> HIDE DEF r
<1>3. r \in Queues
  BY <1>1, <1>2 DEF Queues
<1> QED
  BY <1>2, <1>3 DEF r

\* The first entry, and the type of all.
LEMMA FrontEntry ==
  ASSUME NEW q \in Queues, q # <<>>
  PROVE  q[1] \in Sender!Entry /\ Len(q) \in Nat /\ Len(q) >= 1 /\ 1 \in 1 .. Len(q)
<1>1. q \in Seq(Sender!Entry)
  BY DEF Queues
<1> QED
  BY <1>1, EmptySeq

\* r holds the messages of q, the first one with the same number.
Alike(q, r) ==
  /\ Len(r) = Len(q) /\ (q = <<>> <=> r = <<>>)
  /\ \A i \in 1 .. Len(q) : r[i].msg = q[i].msg
  /\ q # <<>> => /\ r[1].seq_assigned = q[1].seq_assigned
                 /\ r[1].expected_seq = q[1].expected_seq

\* A first entry replaced by one with the same message and number.
LEMMA FrontAlike ==
  ASSUME NEW q \in Queues, q # <<>>, NEW e \in Sender!Entry,
         e.msg = q[1].msg, e.seq_assigned = q[1].seq_assigned,
         e.expected_seq = q[1].expected_seq
  PROVE  Alike(q, Sender!WithFront(q, e))
<1> DEFINE r == Sender!WithFront(q, e)
<1>1. /\ r \in Queues /\ r # <<>> /\ Len(r) = Len(q) /\ r[1] = e
      /\ \A i \in 2 .. Len(q) : r[i] = q[i]
  BY FrontReplaced
<1>2. Len(q) \in Nat
  BY FrontEntry
<1>3. \A i \in 1 .. Len(q) : i = 1 \/ i \in 2 .. Len(q)
  BY <1>2
<1> HIDE DEF r
<1>4. Alike(q, r)
  BY <1>1, <1>3 DEF Alike
<1> QED
  BY <1>4 DEF r

-----------------------------------------------------------------------------
(* The frames of a reset are completed.                                    *)

Failing == INSTANCE FoldFacts WITH op <- WithFailed

\* AllFailed is a fold of the module FoldFacts.
LEMMA AllFailedIsFold ==
  \A p, txq : AllFailed(p, txq) = Failing!FoldLeft(WithFailed, p, txq)
BY DEF AllFailed, FoldLeft, MapThenFoldSet, Max,
       Failing!FoldLeft, Failing!MapThenFoldSet, Failing!Max

\* Queue q once its first write has failed.
Dropped(q) == Sender!WithFront(q, Sender!Completed(q[1], FALSE))

\* Hearing twice of a failed write is hearing of it once.
LEMMA ToldTwice ==
  ASSUME NEW q \in Queues, NEW w, Sender!IsCurrent(w, q)
  PROVE  /\ q # <<>> /\ Dropped(q) \in Queues /\ Alike(q, Dropped(q))
         /\ Told(q, w, FALSE) = Dropped(q) /\ Told(Dropped(q), w, FALSE) = Dropped(q)
         /\ Dropped(q)[1] = Sender!Completed(q[1], FALSE)
<1> DEFINE e == q[1]
           d == Sender!Completed(e, FALSE)
           r == Sender!WithFront(q, d)
<1>1. q # <<>> /\ e \in Sender!Entry /\ e.expected_seq = w.seq /\ e.send_generation = w.gen
  BY FrontEntry DEF Sender!IsCurrent
<1>2. /\ d \in Sender!Entry /\ d.msg = e.msg /\ d.seq_assigned = e.seq_assigned
      /\ d.expected_seq = e.expected_seq /\ d.send_generation = e.send_generation
      /\ Sender!Completed(d, FALSE) = d
  BY <1>1, CompletedEntry
<1>3. r \in Queues /\ r # <<>> /\ r[1] = d
  BY <1>1, <1>2, FrontReplaced
<1>4. Alike(q, r)
  BY <1>1, <1>2, FrontAlike
<1>5. Told(q, w, FALSE) = r
  BY DEF Told
<1> HIDE DEF d, e
<1>6. Sender!WithFront(r, r[1]) = r
  <2> HIDE DEF r
  <2>1. r \in Seq(Sender!Entry)
    BY <1>3 DEF Queues
  <2> QED
    BY <2>1 DEF Sender!WithFront
<1> HIDE DEF r
<1>7. Told(r, w, FALSE) = r
  BY <1>1, <1>2, <1>3, <1>6 DEF Told, Sender!IsCurrent
<1>8. Dropped(q) = r
  BY DEF Dropped, r, d, e
<1> QED
  BY <1>1, <1>3, <1>4, <1>5, <1>7, <1>8 DEF d, e

\* f is a reliable frame of id k.
IsOf(f, k) == IsReliable(f) /\ f.write.id = k

\* The reliable frames of txq are those of ids, and the sender knows them.
Known(p, txq) ==
  \A i \in 1 .. Len(txq) : IsReliable(txq[i]) =>
    /\ txq[i].write.id \in Ids
    /\ Sender!IsCurrent(txq[i].write, p[txq[i].write.id])

\* What has become of queue q, told of the failure of a frame or not.
Outcome(q, r) == r = q \/ (q # <<>> /\ r = Dropped(q))

\* Completing the frames that a reset drops.
LEMMA FailedQueues ==
  ASSUME NEW p \in [Ids -> Queues], NEW txq, IsList(txq), Known(p, txq)
  PROVE  LET r == AllFailed(p, txq) IN
           /\ r \in [Ids -> Queues]
           /\ \A k \in Ids : Outcome(p[k], r[k])
           /\ \A k \in Ids, i \in 1 .. Len(txq) :
                IsOf(txq[i], k) => p[k] # <<>> /\ r[k] = Dropped(p[k])
<1>1. PICK n \in Nat : n = Len(txq)
  BY LenProperties DEF IsList
<1>2. PICK c : Failing!Sums(c, p, txq, Len(txq)) /\ AllFailed(p, txq) = c[Len(txq)]
  BY Failing!FoldSteps, AllFailedIsFold DEF IsList
<1> DEFINE Good(m) == /\ c[m] \in [Ids -> Queues]
                      /\ \A k \in Ids : Outcome(p[k], c[m][k])
                      /\ \A k \in Ids, i \in 1 .. m :
                           IsOf(txq[i], k) => p[k] # <<>> /\ c[m][k] = Dropped(p[k])
           T == {m \in 0 .. n : Good(m)}
<1>3. 0 \in T
  <2>1. c[0] = p /\ 0 \in 0 .. n /\ \A i \in 1 .. 0 : FALSE
    BY <1>1, <1>2 DEF Failing!Sums
  <2> QED
    BY <2>1 DEF Outcome
<1>4. ASSUME NEW m \in 0 .. n - 1, m \in T PROVE m + 1 \in T
  <2> DEFINE f == txq[m + 1]
             b == c[m]
             d == c[m + 1]
  <2>1. m + 1 \in 1 .. n /\ m + 1 \in 0 .. n /\ (m + 1) - 1 = m
    BY <1>1
  <2>2. d = WithFailed(b, f)
    BY <1>1, <1>2, <2>1 DEF Failing!Sums
  <2>3. /\ b \in [Ids -> Queues]
        /\ \A k \in Ids : Outcome(p[k], b[k])
        /\ \A k \in Ids, i \in 1 .. m :
             IsOf(txq[i], k) => p[k] # <<>> /\ b[k] = Dropped(p[k])
    BY <1>4
  <2>4. IsReliable(f) => f.write.id \in Ids /\ Sender!IsCurrent(f.write, p[f.write.id])
    BY <1>1, <2>1 DEF Known
  <2>5. \A i \in 1 .. m + 1 : i \in 1 .. m \/ i = m + 1
    BY <1>1
  <2> HIDE DEF b, d, f
  <2>6. /\ d \in [Ids -> Queues]
        /\ \A k \in Ids : Outcome(p[k], d[k])
        /\ \A k \in Ids : p[k] # <<>> /\ b[k] = Dropped(p[k]) => d[k] = Dropped(p[k])
        /\ \A k \in Ids : IsOf(f, k) => p[k] # <<>> /\ d[k] = Dropped(p[k])
    <3>1. CASE ~ IsReliable(f)
      BY <2>2, <2>3, <3>1 DEF WithFailed, IsOf
    <3>2. CASE IsReliable(f)
      <4> DEFINE k0 == f.write.id
                 w == f.write
      <4>1. k0 \in Ids /\ Sender!IsCurrent(w, p[k0]) /\ p[k0] \in Queues
        BY <2>4, <3>2
      <4>2. d = [b EXCEPT ![k0] = Told(b[k0], w, FALSE)]
        BY <2>2, <3>2 DEF WithFailed
      <4> HIDE DEF w
      <4>3. /\ p[k0] # <<>> /\ Dropped(p[k0]) \in Queues
            /\ Told(p[k0], w, FALSE) = Dropped(p[k0])
            /\ Told(Dropped(p[k0]), w, FALSE) = Dropped(p[k0])
        BY <4>1, ToldTwice
      <4>4. Told(b[k0], w, FALSE) = Dropped(p[k0])
        BY <2>3, <4>1, <4>3 DEF Outcome
      <4>5. \A k \in Ids : d[k] = IF k = k0 THEN Dropped(p[k0]) ELSE b[k]
        BY <2>3, <4>1, <4>2, <4>4
      <4>6. d \in [Ids -> Queues]
        BY <2>3, <4>1, <4>2, <4>3, <4>4
      <4> QED
        BY <2>3, <4>1, <4>3, <4>5, <4>6 DEF Outcome, IsOf
    <3> QED
      BY <3>1, <3>2
  <2>7. Good(m + 1)
    BY <2>3, <2>5, <2>6 DEF b, d, f
  <2> QED
    BY <2>1, <2>7
<1> HIDE DEF T
<1>5. n \in T
  <2>1. \A m \in 0 .. n : m \in T
    BY <1>1, <1>3, <1>4, Failing!Climbs
  <2> QED
    BY <1>1, <2>1
<1> QED
  BY <1>1, <1>2, <1>5 DEF T

-----------------------------------------------------------------------------
(* The sender and the transmit queue in step.                              *)

\* A reliable frame is one of a declared id.
OwnFrames(txq) ==
  \A i \in 1 .. Len(txq) : IsReliable(txq[i]) => txq[i].write.id \in Ids

NoneOf(k, txq) == \A i \in 1 .. Len(txq) : ~ IsOf(txq[i], k)

\* What txq holds of id k is the latest attempt of the front of q, once.
Single(k, q, txq) ==
  /\ \A i \in 1 .. Len(txq) :
       IsOf(txq[i], k) => Sender!IsLatestWrite(txq[i].write, q)
  /\ \A i, j \in 1 .. Len(txq) : IsOf(txq[i], k) /\ IsOf(txq[j], k) => i = j

\* The front of q will hear of its write, or try again.
Awoken(k, q, txq, fired) ==
  q # <<>> =>
    IF q[1].send_in_progress
    THEN \E i \in 1 .. Len(txq) :
           IsOf(txq[i], k) /\ txq[i].write = Sender!WriteOf(k, q[1])
    ELSE q[1].timer_armed \/ <<k, q[1].expected_seq>> \in fired

InStep(p, txq, fired) ==
  \A k \in Ids : Single(k, p[k], txq) /\ Awoken(k, p[k], txq, fired)

\* The first entries have their numbers.
Numbered(q) == q # <<>> => q[1].seq_assigned

\* A queue without writes of k has nothing wrong with them.
LEMMA NoneIsSingle ==
  ASSUME NEW k, NEW txq, NoneOf(k, txq), NEW q
  PROVE  Single(k, q, txq)
BY DEF NoneOf, Single

\* The latest write is one that its entry takes for current.
LEMMA LatestIsCurrent ==
  ASSUME NEW w, NEW q, Sender!IsLatestWrite(w, q)
  PROVE  Sender!IsCurrent(w, q) /\ q[1].send_in_progress /\ ~ q[1].awaiting_ack
<1>1. q # <<>> /\ Sender!WriteOf(w.id, q[1]) = w
  BY DEF Sender!IsLatestWrite
<1>2. w.seq = q[1].expected_seq /\ w.gen = q[1].send_generation
  BY <1>1 DEF Sender!WriteOf
<1> QED
  BY <1>1, <1>2 DEF Sender!IsCurrent, Sender!IsLatestWrite

\* A reset tells every entry whose write it drops to try again.
LEMMA DropInStep ==
  ASSUME NEW p \in [Ids -> Queues], NEW txq, IsList(txq), OwnFrames(txq),
         NEW fired, InStep(p, txq, fired)
  PROVE  LET r == AllFailed(p, txq) IN
           /\ r \in [Ids -> Queues] /\ InStep(r, <<>>, fired)
           /\ \A k \in Ids : Alike(p[k], r[k])
<1> DEFINE r == AllFailed(p, txq)
<1>1. Known(p, txq)
  <2> SUFFICES ASSUME NEW i \in 1 .. Len(txq), IsReliable(txq[i])
               PROVE  /\ txq[i].write.id \in Ids
                      /\ Sender!IsCurrent(txq[i].write, p[txq[i].write.id])
    BY DEF Known
  <2>1. txq[i].write.id \in Ids
    BY DEF OwnFrames
  <2>2. Single(txq[i].write.id, p[txq[i].write.id], txq)
    BY <2>1 DEF InStep
  <2>3. Sender!IsLatestWrite(txq[i].write, p[txq[i].write.id])
    BY <2>2 DEF Single, IsOf
  <2> QED
    BY <2>1, <2>3, LatestIsCurrent
<1>2. /\ r \in [Ids -> Queues]
      /\ \A k \in Ids : Outcome(p[k], r[k])
      /\ \A k \in Ids, i \in 1 .. Len(txq) :
           IsOf(txq[i], k) => p[k] # <<>> /\ r[k] = Dropped(p[k])
  BY <1>1, FailedQueues
<1> HIDE DEF r
<1>3. ASSUME NEW k \in Ids PROVE Alike(p[k], r[k]) /\ Awoken(k, r[k], <<>>, fired)
  <2> DEFINE q == p[k]
             s == r[k]
  <2>1. q \in Queues /\ Outcome(q, s) /\ Awoken(k, q, txq, fired)
    BY <1>2 DEF InStep
  <2>2. \A i \in 1 .. Len(txq) : IsOf(txq[i], k) => q # <<>> /\ s = Dropped(q)
    BY <1>2
  <2> HIDE DEF q, s
  <2>3. CASE q # <<>> /\ s = Dropped(q)
    <3> DEFINE d == Sender!Completed(q[1], FALSE)
    <3>1. q[1] \in Sender!Entry
      BY <2>1, <2>3, FrontEntry
    <3>2. /\ d \in Sender!Entry /\ d.msg = q[1].msg /\ d.seq_assigned = q[1].seq_assigned
          /\ d.expected_seq = q[1].expected_seq /\ ~ d.send_in_progress /\ d.timer_armed
      BY <3>1, CompletedEntry
    <3>3. s = Sender!WithFront(q, d)
      BY <2>3 DEF Dropped
    <3> HIDE DEF d
    <3>4. Alike(q, s) /\ s[1] = d
      BY <2>1, <2>3, <3>2, <3>3, FrontAlike, FrontReplaced
    <3> QED
      BY <3>2, <3>4 DEF Awoken, q, s
  <2>4. CASE s = q /\ ~ (q # <<>> /\ s = Dropped(q))
    <3>1. Alike(q, s)
      BY <2>4 DEF Alike
    <3>2. q # <<>> => ~ q[1].send_in_progress
      BY <2>1, <2>2, <2>4 DEF Awoken
    <3>3. Awoken(k, s, <<>>, fired)
      BY <2>1, <2>4, <3>2 DEF Awoken
    <3> QED
      BY <3>1, <3>3 DEF q, s
  <2> QED
    BY <2>1, <2>3, <2>4 DEF Outcome
<1>4. \A k \in Ids : Single(k, r[k], <<>>)
  <2>1. \A i \in 1 .. Len(<<>>) : FALSE
    BY NoneIsList
  <2> QED
    BY <2>1 DEF Single
<1> QED
  BY <1>2, <1>3, <1>4 DEF InStep, r

\* clear_all leaves no entry to be told.
LEMMA ClearedStays ==
  ASSUME NEW txq, IsList(txq)
  PROVE  AllFailed(Cleared, txq) = Cleared
<1>1. ASSUME NEW f PROVE WithFailed(Cleared, f) = Cleared
  <2>1. \A k \in Ids : Cleared[k] = <<>>
    BY DEF Cleared
  <2>2. Cleared = [k \in Ids |-> Cleared[k]]
    BY DEF Cleared
  <2>3. ASSUME NEW w, w.id \in Ids PROVE Told(Cleared[w.id], w, FALSE) = Cleared[w.id]
    BY <2>1, <2>3 DEF Told, Sender!IsCurrent
  <2> HIDE DEF Cleared
  <2> QED
    BY <2>2, <2>3 DEF WithFailed
<1>2. Failing!FoldLeft(WithFailed, Cleared, txq) \in {Cleared}
  <2> DEFINE S == Range(txq)
             T == {Cleared}
  <2>1. txq \in Seq(S) /\ Cleared \in T
    BY DEF IsList
  <2>2. \A x \in T, y \in S : WithFailed(x, y) \in T
    BY <1>1
  <2> HIDE DEF S, T
  <2>3. Failing!FoldLeft(WithFailed, Cleared, txq) \in T
    BY <2>1, <2>2, Failing!FoldTyped
  <2> QED
    BY <2>3 DEF T
<1> QED
  BY <1>2, AllFailedIsFold

\* The sender with nothing to send.
LEMMA ClearedInStep ==
  /\ Cleared \in [Ids -> Queues]
  /\ \A k \in Ids : Cleared[k] = <<>>
  /\ \A fired : InStep(Cleared, <<>>, fired)
<1>1. <<>> \in Queues
  <2>1. <<>> \in Seq(Sender!Entry) /\ Len(<<>>) = 0
    BY EmptySeq
  <2>2. \A i \in 2 .. 0 : FALSE
    OBVIOUS
  <2> QED
    BY <2>1, <2>2 DEF Queues
<1>2. \A k \in Ids : Cleared[k] = <<>>
  BY DEF Cleared
<1>3. \A i \in 1 .. Len(<<>>) : FALSE
  BY NoneIsList
<1>4. \A k, fired : Single(k, <<>>, <<>>) /\ Awoken(k, <<>>, <<>>, fired)
  BY <1>3 DEF Single, Awoken
<1> QED
  BY <1>1, <1>2, <1>4 DEF Cleared, InStep

\* What a reset leaves, before shutdown and after.
LEMMA ResetInStep ==
  ASSUME NEW p \in [Ids -> Queues], NEW txq, IsList(txq), OwnFrames(txq),
         NEW fired, InStep(p, txq, fired)
  PROVE  LET r == AfterReset(p, txq) IN
           /\ r \in [Ids -> Queues] /\ InStep(r, <<>>, fired) /\ OwnFrames(<<>>)
           /\ ~ shutting_down => \A k \in Ids : Alike(p[k], r[k])
           /\ shutting_down => r = Cleared
<1>1. OwnFrames(<<>>)
  <2>1. \A i \in 1 .. Len(<<>>) : FALSE
    BY NoneIsList
  <2> QED
    BY <2>1 DEF OwnFrames
<1>2. shutting_down => AfterReset(p, txq) = Cleared
  BY ClearedStays DEF AfterReset
<1>3. ~ shutting_down => AfterReset(p, txq) = AllFailed(p, txq)
  BY DEF AfterReset
<1> QED
  BY <1>1, <1>2, <1>3, DropInStep, ClearedInStep

\* A frame at the end of the queue concerns the sender of its id only.
LEMMA AppendInStep ==
  ASSUME NEW txq, IsList(txq), NEW f, NEW k, NEW q, NEW fired
  PROVE  LET t == Append(txq, f) IN
           /\ ~ IsOf(f, k) /\ Single(k, q, txq) => Single(k, q, t)
           /\ Awoken(k, q, txq, fired) => Awoken(k, q, t, fired)
           /\ NoneOf(k, txq) /\ Sender!IsLatestWrite(f.write, q) => Single(k, q, t)
           /\ q # <<>> /\ q[1].send_in_progress /\ IsOf(f, k) /\ f.write = Sender!WriteOf(k, q[1])
                => Awoken(k, q, t, fired)
           /\ OwnFrames(txq) /\ (IsReliable(f) => f.write.id \in Ids) => OwnFrames(t)
<1> DEFINE n == Len(txq)
           t == Append(txq, f)
<1>1. n \in Nat /\ Len(t) = n + 1 /\ t[n + 1] = f /\ \A i \in 1 .. n : t[i] = txq[i]
  BY ListGrows
<1> HIDE DEF t
<1>2. \A i \in 1 .. n + 1 : i = n + 1 \/ i \in 1 .. n
  BY <1>1
<1>3. \A i \in 1 .. n : i \in 1 .. n + 1
  BY <1>1
<1>4. n + 1 \in 1 .. n + 1
  BY <1>1
<1>5. ~ IsOf(f, k) /\ Single(k, q, txq) => Single(k, q, t)
  <2> HIDE DEF IsOf
  <2> QED
    BY <1>1, <1>2 DEF Single
<1>6. Awoken(k, q, txq, fired) => Awoken(k, q, t, fired)
  <2> HIDE DEF IsOf
  <2> QED
    BY <1>1, <1>3 DEF Awoken
<1>7. NoneOf(k, txq) /\ Sender!IsLatestWrite(f.write, q) => Single(k, q, t)
  <2> HIDE DEF IsOf
  <2> QED
    BY <1>1, <1>2 DEF Single, NoneOf
<1>8. q # <<>> /\ q[1].send_in_progress /\ IsOf(f, k) /\ f.write = Sender!WriteOf(k, q[1])
        => Awoken(k, q, t, fired)
  <2> HIDE DEF IsOf
  <2> QED
    BY <1>1, <1>4 DEF Awoken
<1>9. OwnFrames(txq) /\ (IsReliable(f) => f.write.id \in Ids) => OwnFrames(t)
  <2> HIDE DEF IsReliable
  <2> QED
    BY <1>1, <1>2 DEF OwnFrames
<1> QED
  BY <1>5, <1>6, <1>7, <1>8, <1>9 DEF t

\* A frame that leaves the queue, likewise.
LEMMA TailInStep ==
  ASSUME NEW txq, IsList(txq), txq # <<>>, NEW k, NEW q, NEW fired
  PROVE  LET t == Tail(txq) IN
           /\ Single(k, q, txq) => Single(k, q, t)
           /\ ~ IsOf(Head(txq), k) /\ Awoken(k, q, txq, fired) => Awoken(k, q, t, fired)
           /\ IsOf(Head(txq), k) /\ Single(k, q, txq) => NoneOf(k, t)
           /\ OwnFrames(txq) => OwnFrames(t)
<1> DEFINE n == Len(txq)
           t == Tail(txq)
<1>1. /\ n \in Nat \ {0} /\ Len(t) = n - 1 /\ Head(txq) = txq[1]
      /\ \A i \in 1 .. n - 1 : t[i] = txq[i + 1]
  BY ListShrinks, ShrunkList
<1> HIDE DEF t
<1>2. /\ \A i \in 1 .. n - 1 : i + 1 \in 1 .. n
      /\ \A i, j \in 1 .. n - 1 : i + 1 = j + 1 => i = j
      /\ \A i \in 1 .. n - 1 : i + 1 # 1
      /\ 1 \in 1 .. n
  BY <1>1
<1>3. \A i \in 1 .. n : i = 1 \/ \E j \in 1 .. n - 1 : i = j + 1
  <2> TAKE i \in 1 .. n
  <2>1. i # 1 => i - 1 \in 1 .. n - 1 /\ i = (i - 1) + 1
    BY <1>1
  <2> QED
    BY <2>1
<1>4. Single(k, q, txq) => Single(k, q, t)
  <2> SUFFICES ASSUME Single(k, q, txq) PROVE Single(k, q, t)
    OBVIOUS
  <2>1. /\ \A i \in 1 .. n : IsOf(txq[i], k) => Sender!IsLatestWrite(txq[i].write, q)
        /\ \A i, j \in 1 .. n : IsOf(txq[i], k) /\ IsOf(txq[j], k) => i = j
    BY DEF Single
  <2> HIDE DEF IsOf, n
  <2>2. \A i \in 1 .. n - 1 : IsOf(t[i], k) => Sender!IsLatestWrite(t[i].write, q)
    BY <1>1, <1>2, <2>1
  <2>3. ASSUME NEW i \in 1 .. n - 1, NEW j \in 1 .. n - 1, IsOf(t[i], k), IsOf(t[j], k)
        PROVE  i = j
    <3>1. IsOf(txq[i + 1], k) /\ IsOf(txq[j + 1], k)
      BY <1>1, <2>3
    <3> QED
      BY <1>2, <2>1, <3>1
  <2> QED
    BY <1>1, <2>2, <2>3 DEF Single
<1>5. ~ IsOf(Head(txq), k) /\ Awoken(k, q, txq, fired) => Awoken(k, q, t, fired)
  <2> SUFFICES ASSUME ~ IsOf(txq[1], k), Awoken(k, q, txq, fired), q # <<>>, q[1].send_in_progress
               PROVE  \E i \in 1 .. Len(t) : IsOf(t[i], k) /\ t[i].write = Sender!WriteOf(k, q[1])
    BY <1>1 DEF Awoken
  <2>1. PICK i \in 1 .. n : IsOf(txq[i], k) /\ txq[i].write = Sender!WriteOf(k, q[1])
    BY DEF Awoken
  <2> HIDE DEF IsOf
  <2>2. PICK j \in 1 .. n - 1 : i = j + 1
    BY <1>3, <2>1
  <2> QED
    BY <1>1, <2>1, <2>2
<1>6. IsOf(Head(txq), k) /\ Single(k, q, txq) => NoneOf(k, t)
  <2> HIDE DEF IsOf, n
  <2> QED
    BY <1>1, <1>2 DEF Single, NoneOf, n
<1>7. OwnFrames(txq) => OwnFrames(t)
  <2> HIDE DEF IsReliable, n
  <2> QED
    BY <1>1, <1>2 DEF OwnFrames, n
<1> QED
  BY <1>4, <1>5, <1>6, <1>7 DEF t

-----------------------------------------------------------------------------
(* attempt_send.                                                           *)

\* r holds the messages of q.
SameMessages(q, r) ==
  /\ Len(r) = Len(q) /\ (q = <<>> <=> r = <<>>)
  /\ \A i \in 1 .. Len(q) : r[i].msg = q[i].msg

\* The sender as attempt_send may find it for id k: the others are in step, and
\* so is k if its front is being written.
Attemptable(k, p, txq, fired) ==
  /\ p \in [Ids -> Queues] /\ OwnFrames(txq)
  /\ \A j \in Ids : Single(j, p[j], txq)
  /\ \A j \in Ids : j # k \/ (p[j] # <<>> /\ p[j][1].send_in_progress)
       => Awoken(j, p[j], txq, fired) /\ Numbered(p[j])
  /\ p[k] # <<>> => ~ p[k][1].awaiting_ack

\* All is in step, with queues p and frames txq.
Agreed(p, txq, fired) ==
  /\ p \in [Ids -> Queues] /\ OwnFrames(txq) /\ InStep(p, txq, fired)
  /\ \A j \in Ids : Numbered(p[j])

\* A message number never changes with its queue's other fields.
LEMMA AlikeMessages ==
  ASSUME NEW q, NEW r, NEW s, SameMessages(q, r), Alike(r, s)
  PROVE  SameMessages(q, s)
<1>1. Len(r) = Len(q)
  BY DEF SameMessages
<1> QED
  BY <1>1 DEF SameMessages, Alike

\* A front that is not being written has no write.
LEMMA IdleFront ==
  ASSUME NEW k, NEW q, NEW txq, Single(k, q, txq), q # <<>> => ~ q[1].send_in_progress
  PROVE  NoneOf(k, txq)
BY LatestIsCurrent DEF Single, NoneOf, Sender!IsCurrent

\* What attempt_send leaves of the queues p, number s being the next.
Attempted(k, p, r) ==
  /\ \A j \in Ids : SameMessages(p[j], r[j])
  /\ \A j \in Ids \ {k} : Alike(p[j], r[j])
  /\ p[k] # <<>> =>
       r[k][1].expected_seq = IF p[k][1].seq_assigned THEN p[k][1].expected_seq
                                                      ELSE seq_counter

\* The frame of an entry launched is the latest write of its queue.
LEMMA LaunchedWrite ==
  ASSUME NEW k, NEW q \in Queues, q # <<>>, q[1].send_in_progress, ~ q[1].awaiting_ack
  PROVE  LET f == ReliableFrame(Sender!WriteOf(k, q[1])) IN
           /\ IsReliable(f) /\ f.write.id = k /\ f.write = Sender!WriteOf(k, q[1])
           /\ Sender!IsLatestWrite(f.write, q)
BY DEF ReliableFrame, IsReliable, Sender!WriteOf, Sender!IsLatestWrite

\* attempt_send brings the sender in step with the queue, whether the frame is
\* queued, refused or dropped by the reset of a write that did not start.
LEMMA AttemptAgrees ==
  ASSUME NEW c, Link(c), NEW k \in Ids, NEW p, NEW fired,
         Attemptable(k, p, c.tx_queue, fired), seq_counter \in Numbers, NEW throws
  PROVE  LET r == Attempt(c, p, k, throws) IN
           /\ Link(r.ctl) /\ Agreed(r.pending, r.ctl.tx_queue, fired)
           /\ r.ctl = c \/ \E f : r.ctl = SendImpl(c, f, throws)
           /\ r.ctl.ring = c.ring \/ (Shut(r.ctl) /\ r.ctl.ring = <<>>)
           /\ r.ctl.is_connected => c.is_connected
           /\ ~ shutting_down => Attempted(k, p, r.pending)
<1> DEFINE e == Sender!Launched(p[k][1])
           f == ReliableFrame(Sender!WriteOf(k, e))
           l == [p EXCEPT ![k] = Sender!WithFront(@, e)]
           c1 == SendImpl(c, f, throws)
           d == Sender!Completed(e, FALSE)
           refused == [l EXCEPT ![k] = Sender!WithFront(@, d)]
           txq == c.tx_queue
           txq2 == Append(txq, f)
           r == Attempt(c, p, k, throws)
<1>1. /\ p \in [Ids -> Queues] /\ OwnFrames(txq) /\ IsList(txq)
      /\ \A j \in Ids : Single(j, p[j], txq)
      /\ \A j \in Ids : j # k \/ (p[j] # <<>> /\ p[j][1].send_in_progress)
           => Awoken(j, p[j], txq, fired) /\ Numbered(p[j])
      /\ p[k] # <<>> => ~ p[k][1].awaiting_ack
  BY DEF Attemptable, Link
<1>2. CASE ~ Sender!CanAttempt(p[k])
  <2>1. r = [ctl |-> c, pending |-> p]
    BY <1>2 DEF Attempt
  <2>2. r.ctl = c /\ r.pending = p
    BY <2>1
  <2>3. p[k] = <<>> \/ p[k][1].send_in_progress
    BY <1>2 DEF Sender!CanAttempt
  <2>4. \A j \in Ids : Awoken(j, p[j], txq, fired) /\ Numbered(p[j])
    BY <1>1, <2>3 DEF Awoken, Numbered
  <2>5. Agreed(p, txq, fired)
    BY <1>1, <2>4 DEF Agreed, InStep
  <2>6. Attempted(k, p, p)
    BY <2>3, <2>4 DEF Attempted, SameMessages, Alike, Numbered
  <2> HIDE DEF r
  <2> QED
    BY <2>2, <2>5, <2>6 DEF r
<1>3. CASE Sender!CanAttempt(p[k])
  <2>1. p[k] # <<>> /\ ~ p[k][1].send_in_progress /\ p[k] \in Queues
    BY <1>1, <1>3 DEF Sender!CanAttempt
  <2>2. p[k][1] \in Sender!Entry
    BY <2>1, FrontEntry
  <2>3. /\ e \in Sender!Entry /\ e.msg = p[k][1].msg
        /\ e.seq_assigned /\ e.send_in_progress /\ ~ e.awaiting_ack
        /\ e.expected_seq = IF p[k][1].seq_assigned THEN p[k][1].expected_seq
                                                    ELSE seq_counter
    BY <1>1, <2>1, <2>2, LaunchedEntry
  <2>4. /\ r.ctl = c1
        /\ r.pending = IF ~ Admits(c, f) THEN refused
                       ELSE IF c1.is_connected THEN l
                       ELSE AfterReset(l, txq2)
    BY <1>3 DEF Attempt
  <2> HIDE DEF e, r
  <2>5. NoneOf(k, txq)
    BY <1>1, <2>1, IdleFront
  <2> DEFINE q == Sender!WithFront(p[k], e)
  <2>6. /\ q \in Queues /\ q # <<>> /\ Len(q) = Len(p[k]) /\ q[1] = e
        /\ \A i \in 2 .. Len(p[k]) : q[i] = p[k][i]
    BY <2>1, <2>3, FrontReplaced
  <2>7. l \in [Ids -> Queues] /\ l[k] = q /\ \A j \in Ids \ {k} : l[j] = p[j]
    BY <1>1, <2>6
  <2>8. SameMessages(p[k], q)
    <3>1. Len(p[k]) \in Nat
      BY <2>1, FrontEntry
    <3>2. \A i \in 1 .. Len(p[k]) : i = 1 \/ i \in 2 .. Len(p[k])
      BY <3>1
    <3> QED
      BY <2>1, <2>3, <2>6, <3>2 DEF SameMessages
  <2> HIDE DEF l, q
  <2>9. \A j \in Ids \ {k} : SameMessages(p[j], p[j]) /\ Alike(p[j], p[j])
    BY DEF SameMessages, Alike
  <2>10. CASE ~ Admits(c, f)
    <3>1. SameQueue(c, c1) /\ c1.ring = c.ring
      BY <2>10, SendLink
    <3>2. /\ d \in Sender!Entry /\ d.msg = e.msg /\ d.seq_assigned = e.seq_assigned
          /\ d.expected_seq = e.expected_seq /\ ~ d.send_in_progress /\ d.timer_armed
      BY <2>3, CompletedEntry
    <3> HIDE DEF d
    <3>3. /\ Sender!WithFront(q, d) \in Queues /\ Sender!WithFront(q, d)[1] = d
          /\ Sender!WithFront(q, d) # <<>> /\ Alike(q, Sender!WithFront(q, d))
      BY <2>6, <3>2, FrontReplaced, FrontAlike
    <3>4. /\ refused \in [Ids -> Queues] /\ refused[k] = Sender!WithFront(q, d)
          /\ \A j \in Ids \ {k} : refused[j] = p[j]
      BY <2>7, <3>3
    <3> HIDE DEF refused
    <3>5. \A j \in Ids : Single(j, refused[j], txq)
      BY <1>1, <2>5, <3>4, NoneIsSingle
    <3>6. Awoken(k, refused[k], txq, fired) /\ Numbered(refused[k])
      BY <2>3, <3>2, <3>3, <3>4 DEF Awoken, Numbered
    <3>7. Agreed(refused, txq, fired)
      BY <1>1, <3>4, <3>5, <3>6 DEF Agreed, InStep
    <3>8. SameMessages(p[k], refused[k])
      BY <2>8, <3>3, <3>4, AlikeMessages
    <3>9. Attempted(k, p, refused)
      BY <2>3, <2>9, <3>2, <3>3, <3>4, <3>8 DEF Attempted
    <3>10. r.pending = refused
      BY <2>4, <2>10
    <3> HIDE DEF c1
    <3> QED
      BY <2>4, <3>1, <3>7, <3>9, <3>10 DEF SameQueue, c1, r
  <2>11. CASE Admits(c, f)
    <3>1. /\ c.is_connected
          /\ \/ Link(c1) /\ c1.is_connected /\ c1.ring = c.ring /\ c1.tx_queue = txq2
             \/ Shut(c1) /\ c1.ring = <<>>
      BY <2>11, SendLink
    <3>2. /\ IsReliable(f) /\ f.write.id = k /\ f.write = Sender!WriteOf(k, e)
          /\ Sender!IsLatestWrite(f.write, q)
      BY <2>3, <2>6, LaunchedWrite
    <3>3. r.pending = IF c1.is_connected THEN l ELSE AfterReset(l, txq2)
      BY <2>4, <2>11
    <3> HIDE DEF f, c1
    <3>4. IsOf(f, k) /\ \A j \in Ids \ {k} : ~ IsOf(f, j)
      BY <3>2 DEF IsOf
    <3>5. /\ OwnFrames(txq2) /\ Single(k, q, txq2) /\ Awoken(k, q, txq2, fired)
          /\ \A j \in Ids \ {k} : Single(j, p[j], txq2) /\ Awoken(j, p[j], txq2, fired)
      BY <1>1, <2>3, <2>5, <2>6, <3>2, <3>4, AppendInStep
    <3>6. IsList(txq2)
      BY <1>1, GrownList
    <3> HIDE DEF txq2
    <3>7. InStep(l, txq2, fired)
      BY <2>7, <3>5 DEF InStep
    <3>8. \A j \in Ids : Numbered(l[j])
      BY <1>1, <2>3, <2>6, <2>7 DEF Numbered
    <3>9. Attempted(k, p, l)
      BY <2>3, <2>6, <2>7, <2>8, <2>9 DEF Attempted
    <3>10. CASE Link(c1) /\ c1.is_connected /\ c1.ring = c.ring /\ c1.tx_queue = txq2
      <4>1. Agreed(l, txq2, fired) /\ r.pending = l
        BY <2>7, <3>3, <3>5, <3>7, <3>8, <3>10 DEF Agreed
      <4> QED
        BY <2>4, <3>1, <3>9, <3>10, <4>1 DEF c1, r
    <3>11. CASE Shut(c1) /\ c1.ring = <<>>
      <4> DEFINE s == AfterReset(l, txq2)
      <4>1. /\ s \in [Ids -> Queues] /\ InStep(s, <<>>, fired) /\ OwnFrames(<<>>)
            /\ ~ shutting_down => \A j \in Ids : Alike(l[j], s[j])
            /\ shutting_down => s = Cleared
        BY <2>7, <3>5, <3>6, <3>7, ResetInStep
      <4>2. r.pending = s /\ c1.tx_queue = <<>>
        BY <3>3, <3>11 DEF Shut, Link
      <4> HIDE DEF s
      <4>3. \A j \in Ids : Numbered(s[j])
        BY <3>8, <4>1, ClearedInStep DEF Numbered, Alike
      <4>4. Agreed(s, <<>>, fired)
        BY <4>1, <4>3 DEF Agreed
      <4>5. ~ shutting_down => Attempted(k, p, s)
        <5> SUFFICES ASSUME ~ shutting_down PROVE Attempted(k, p, s)
          OBVIOUS
        <5>1. \A j \in Ids : Alike(l[j], s[j])
          BY <4>1
        <5>2. \A j \in Ids : SameMessages(p[j], s[j])
          BY <3>9, <5>1, AlikeMessages DEF Attempted
        <5>3. \A j \in Ids \ {k} : Alike(p[j], s[j])
          BY <2>7, <5>1
        <5>4. s[k][1].expected_seq = l[k][1].expected_seq
          BY <2>6, <2>7, <5>1 DEF Alike
        <5> QED
          BY <3>9, <5>2, <5>3, <5>4 DEF Attempted
      <4> QED
        BY <2>4, <3>1, <3>11, <4>2, <4>4, <4>5 DEF Shut, c1, r
    <3> QED
      BY <3>1, <3>10, <3>11
  <2> QED
    BY <2>10, <2>11
<1> QED
  BY <1>2, <1>3

-----------------------------------------------------------------------------
(* The steps of the controller, as the sender sees them.                   *)

\* The tasks that the controller posts itself.
OwnTask(t) ==
  \/ t.do \in {"check", "heartbeat", "destroy", "drained"}
  \/ t.do = "send" /\ ~ IsReliable(t.frame)

\* The tasks that the strand of the node can hold.
TaskFits(t) == OwnTask(t) \/ (t.do = "reliable" /\ t.key \in Ids /\ t.msg \in Nat)

\* Strand r is s, or s with one more task of the controller.
Grown(s, r) == r = s \/ \E t : OwnTask(t) /\ r = Append(s, t)

\* The same, after a task of the controller may have been taken.
Moved(s, r) ==
  Grown(s, r) \/ (s # <<>> /\ OwnTask(Head(s)) /\ Grown(Tail(s), r))

\* What the controller's side keeps for the sender.
CInv ==
  /\ TInv /\ Link(ctl)
  /\ \A t \in Range(ctl.strand) : TaskFits(t)
  /\ IsList(ctl.ring) /\ IsList(rest) /\ IsList(line)

\* A task is taken from the strand.
LEMMA Taken ==
  ASSUME CInv, NEW what, Next_is(what)
  PROVE  /\ SameQueue(ctl, Popped) /\ Link(Popped) /\ Strands(Popped)
         /\ Popped.ring = <<>> /\ ctl.ring = <<>> /\ rest = <<>>
         /\ Popped.strand = Tail(ctl.strand) /\ Popped.drain = ctl.drain
         /\ Popped.writing = ctl.writing
         /\ ctl.strand # <<>> /\ Head(ctl.strand).do = what
         /\ TaskFits(Head(ctl.strand))
         /\ what # "reliable" => OwnTask(Head(ctl.strand))
<1>1. /\ ctl.strand # <<>> /\ Head(ctl.strand).do = what
      /\ ctl.ring = <<>> /\ rest = <<>>
  BY DEF Next_is, StrandFree, Handling
<1>2. IsList(ctl.strand) /\ Link(ctl) /\ Fields(ctl) /\ Strands(ctl)
  BY DEF CInv, TInv, Orderly, Link, Fields
<1>3. /\ Fields(Popped) /\ Popped.tx_queue = ctl.tx_queue /\ Popped.ring = ctl.ring
      /\ Popped.is_connected = ctl.is_connected /\ Popped.writing = ctl.writing
      /\ Popped.strand = Tail(ctl.strand) /\ Popped.drain = ctl.drain
  BY <1>2 DEF Fields, Strands, Popped
<1> HIDE DEF Popped
<1>4. SameQueue(ctl, Popped)
  BY <1>2, <1>3 DEF SameQueue, Link
<1>5. TaskFits(Head(ctl.strand))
  BY <1>1, <1>2, ShrunkList DEF CInv
<1>6. what # "reliable" => OwnTask(Head(ctl.strand))
  BY <1>1, <1>5 DEF TaskFits
<1> QED
  BY <1>1, <1>3, <1>4, <1>5, <1>6 DEF SameQueue, Link, Fields

\* A task of the controller is posted, or dropped.
LEMMA PostMoves ==
  ASSUME NEW c, Strands(c), NEW t, OwnTask(t)
  PROVE  Grown(c.strand, Post(c, t).strand)
BY DEF Post, Grown, Strands

\* The controller's own tasks.
LEMMA OwnTasks ==
  /\ \A what \in {"check", "heartbeat", "destroy", "drained"} : OwnTask(Do(what))
  /\ OwnTask(Send(Handshake)) /\ OwnTask(Send(DataFrame))
  /\ \A n : OwnTask(Send(Heartbeat(n)))
BY DEF OwnTask, Do, Send, Handshake, DataFrame, Heartbeat, IsReliable

\* A step that leaves queue and received packets alone.
Quiet ==
  /\ SameQueue(ctl, ctl') /\ Moved(ctl.strand, ctl'.strand)
  /\ ctl'.ring = ctl.ring /\ rest' = rest
  /\ IsList(line') /\ Range(line') \subseteq Range(line)

\* Steps that post.
LEMMA PostingQuiet ==
  ASSUME CInv, \/ \E what \in {"check", "heartbeat"} : TimerTick(what)
               \/ SendData \/ Shutdown
  PROVE  Quiet
<1>1. Link(ctl) /\ Fields(ctl) /\ Strands(ctl) /\ IsList(line)
  BY DEF CInv, Link, Fields
<1>2. rest' = rest /\ line' = line
  BY DEF TimerTick, SendData, Shutdown, envVars
<1>3. ASSUME NEW t, OwnTask(t), ctl' = Post(ctl, t) PROVE Quiet
  BY <1>1, <1>2, <1>3, PostLink, PostMoves DEF Quiet, Moved
<1>4. CASE \E what \in {"check", "heartbeat"} : TimerTick(what)
  BY <1>3, <1>4, OwnTasks DEF TimerTick, PostTask
<1>5. CASE SendData
  BY <1>3, <1>5, OwnTasks DEF SendData, PostTask
<1>6. CASE Shutdown
  <2>1. ctl' = Post(ctl, Do("destroy"))
    BY <1>6 DEF Shutdown, Post
  <2> QED
    BY <1>3, <2>1, OwnTasks
<1> QED
  BY <1>4, <1>5, <1>6

\* Steps of the timers and of the destructor that close nothing.
LEMMA TakenQuiet ==
  ASSUME CInv,
         CheckConnected \/ HeartbeatWaiting \/ HeartbeatRetry \/ HeartbeatNext \/ RunDrained
  PROVE  Quiet
<1>1. PICK what \in {"check", "heartbeat", "drained"} : Next_is(what)
  BY DEF CheckConnected, HeartbeatWaiting, HeartbeatRetry, HeartbeatNext, HeartbeatDue, RunDrained
<1>2. /\ SameQueue(ctl, Popped) /\ Link(Popped) /\ Strands(Popped)
      /\ Popped.ring = ctl.ring /\ Popped.strand = Tail(ctl.strand)
      /\ ctl.strand # <<>> /\ OwnTask(Head(ctl.strand))
  BY <1>1, Taken
<1>3. rest' = rest /\ line' = line /\ IsList(line)
  BY DEF CheckConnected, HeartbeatWaiting, HeartbeatRetry, HeartbeatNext, RunDrained, envVars, CInv
<1>4. ASSUME SameQueue(Popped, ctl'), ctl'.ring = Popped.ring, Grown(Popped.strand, ctl'.strand)
      PROVE  Quiet
  BY <1>2, <1>3, <1>4 DEF Quiet, Moved, SameQueue
<1>5. ASSUME NEW t, OwnTask(t), ctl' = Post(Popped, t) PROVE Quiet
  BY <1>2, <1>4, <1>5, PostLink, PostMoves
<1>6. ASSUME ctl' = Popped PROVE Quiet
  BY <1>2, <1>4, <1>6 DEF SameQueue, Grown
<1>7. CASE CheckConnected
  BY <1>6, <1>7 DEF CheckConnected
<1>8. CASE HeartbeatWaiting
  BY <1>5, <1>6, <1>8, OwnTasks DEF HeartbeatWaiting
<1>9. CASE HeartbeatRetry
  BY <1>5, <1>9, OwnTasks DEF HeartbeatRetry
<1>10. CASE HeartbeatNext
  <2> DEFINE n == ctl.heartbeat_count
             c == [Popped EXCEPT !.heartbeat_count = (n + 1) % HeartbeatValues,
                                 !.last_heartbeat_tx_count = n,
                                 !.awaiting_heartbeat_ack = TRUE]
             t == Send(Heartbeat(n))
  <2>1. ctl' = Post(c, t)
    BY <1>10 DEF HeartbeatNext
  <2>2. /\ Fields(c) /\ c.tx_queue = Popped.tx_queue /\ c.ring = Popped.ring
        /\ c.is_connected = Popped.is_connected /\ c.writing = Popped.writing
        /\ c.strand = Popped.strand
    BY <1>2 DEF Link, Fields, Strands
  <2>3. OwnTask(t)
    BY OwnTasks
  <2> HIDE DEF c, t
  <2>4. SameQueue(Popped, c) /\ Link(c) /\ Strands(c)
    BY <1>2, <2>2 DEF SameQueue, Link, Fields
  <2>5. SameQueue(c, ctl') /\ ctl'.ring = c.ring /\ Grown(c.strand, ctl'.strand)
    BY <2>1, <2>3, <2>4, PostLink, PostMoves
  <2> QED
    BY <1>4, <2>2, <2>4, <2>5 DEF SameQueue
<1>11. CASE RunDrained
  <2>1. ctl' = [Popped EXCEPT !.drain = "done"]
    BY <1>11 DEF RunDrained
  <2>2. /\ Fields(ctl') /\ ctl'.tx_queue = Popped.tx_queue /\ ctl'.ring = Popped.ring
        /\ ctl'.is_connected = Popped.is_connected /\ ctl'.writing = Popped.writing
        /\ ctl'.strand = Popped.strand
    BY <1>2, <2>1 DEF Link, Fields, Strands
  <2>3. SameQueue(Popped, ctl')
    BY <1>2, <2>2 DEF SameQueue, Link
  <2> QED
    BY <1>4, <2>2, <2>3 DEF Grown
<1> QED
  BY <1>7, <1>8, <1>9, <1>10, <1>11

\* The handler of a closed port, the line and the clock.
LEMMA OtherQuiet ==
  ASSUME CInv, StaleDone \/ LoseReply \/ WindowPasses
  PROVE  Quiet
<1>1. Link(ctl) /\ Fields(ctl) /\ Strands(ctl) /\ IsList(line) /\ rest' = rest
  BY DEF CInv, Link, Fields, StaleDone, LoseReply, WindowPasses
<1>2. SameQueue(ctl, ctl) /\ Moved(ctl.strand, ctl.strand)
  BY <1>1 DEF SameQueue, Moved, Grown
<1>3. CASE StaleDone
  <2> DEFINE d == CompleteOp(ctl)
  <2>1. ctl' = [d EXCEPT !.stale_ops = @ - 1] /\ line' = line
    BY <1>3 DEF StaleDone, envVars
  <2>2. SameQueue(ctl, d) /\ d.ring = ctl.ring /\ d.writing = ctl.writing
    BY <1>1, CompleteOpLink
  <2>3. Grown(ctl.strand, d.strand)
    <3> DEFINE b == [ctl EXCEPT !.pending_serial_ops = IF @ > 0 THEN @ - 1 ELSE 0]
    <3>1. Strands(b) /\ b.strand = ctl.strand
      BY <1>1 DEF Strands
    <3>2. d \in {b, Notify(b)}
      BY DEF CompleteOp
    <3> HIDE DEF b, d
    <3>3. Notify(b).strand = Append(b.strand, Do("drained"))
      BY <3>1 DEF Notify, Strands
    <3> QED
      BY <3>1, <3>2, <3>3, OwnTasks DEF Grown
  <2> HIDE DEF d
  <2>4. /\ Fields(ctl') /\ ctl'.tx_queue = d.tx_queue /\ ctl'.ring = d.ring
        /\ ctl'.is_connected = d.is_connected /\ ctl'.writing = d.writing
        /\ ctl'.strand = d.strand
    BY <2>1, <2>2 DEF SameQueue, Link, Fields, Strands
  <2>5. SameQueue(ctl, ctl')
    BY <2>2, <2>4 DEF SameQueue, Link
  <2> QED
    BY <1>1, <2>1, <2>2, <2>3, <2>4, <2>5 DEF Quiet, Moved
<1>4. CASE LoseReply
  <2>1. line # <<>> /\ line' = Tail(line) /\ ctl' = ctl
    BY <1>4 DEF LoseReply
  <2> QED
    BY <1>1, <1>2, <2>1, ShrunkList DEF Quiet
<1>5. CASE WindowPasses
  <2>1. line' = line /\ ctl' = ctl
    BY <1>5 DEF WindowPasses
  <2> QED
    BY <1>1, <1>2, <2>1 DEF Quiet
<1> QED
  BY <1>3, <1>4, <1>5

-----------------------------------------------------------------------------
(* What becomes of the received packets, and of the strand.                *)

\* The packets on their way to handle_packet.
Travelling == Range(ctl.ring) \cup Range(rest) \cup Range(line)

\* The step brings no packet, and no task but the controller's own.
Carries ==
  /\ Moved(ctl.strand, ctl'.strand)
  /\ IsList(ctl'.ring) /\ IsList(rest') /\ IsList(line')
  /\ Travelling' \subseteq Travelling

\* A quiet step is one of them.
LEMMA QuietCarries ==
  ASSUME CInv, Quiet
  PROVE  Carries /\ SameQueue(ctl, ctl')
<1>1. IsList(ctl.ring) /\ IsList(rest)
  BY DEF CInv
<1>2. /\ SameQueue(ctl, ctl') /\ Moved(ctl.strand, ctl'.strand)
      /\ ctl'.ring = ctl.ring /\ rest' = rest
      /\ IsList(line') /\ Range(line') \subseteq Range(line)
  BY DEF Quiet
<1>3. Travelling' = Range(ctl'.ring) \cup Range(rest') \cup Range(line')
  BY DEF Travelling
<1> QED
  BY <1>1, <1>2, <1>3 DEF Carries, Travelling

\* Such a step leaves the strand with tasks of the node.
LEMMA TasksFit ==
  ASSUME CInv, Moved(ctl.strand, ctl'.strand)
  PROVE  \A t \in Range(ctl'.strand) : TaskFits(t)
<1>1. IsList(ctl.strand) /\ \A t \in Range(ctl.strand) : TaskFits(t)
  BY DEF CInv, TInv, Orderly
<1>2. ASSUME NEW s, IsList(s), \A t \in Range(s) : TaskFits(t),
             NEW r, Grown(s, r)
      PROVE  \A t \in Range(r) : TaskFits(t)
  <2>1. CASE r = s
    BY <1>2, <2>1
  <2>2. CASE \E t : OwnTask(t) /\ r = Append(s, t)
    <3>1. PICK t : OwnTask(t) /\ r = Append(s, t)
      BY <2>2
    <3>2. Range(r) = Range(s) \cup {t}
      BY <1>2, <3>1, GrownList
    <3> QED
      BY <1>2, <3>1, <3>2 DEF TaskFits
  <2> QED
    BY <1>2, <2>1, <2>2 DEF Grown
<1>3. CASE Grown(ctl.strand, ctl'.strand)
  BY <1>1, <1>2, <1>3
<1>4. CASE ctl.strand # <<>> /\ Grown(Tail(ctl.strand), ctl'.strand)
  <2>1. IsList(Tail(ctl.strand)) /\ Range(Tail(ctl.strand)) \subseteq Range(ctl.strand)
    BY <1>1, <1>4, ShrunkList
  <2> QED
    BY <1>1, <1>2, <1>4, <2>1
<1> QED
  BY <1>3, <1>4 DEF Moved

\* The controller's side of the invariant is kept.
LEMMA CarriedInv ==
  ASSUME CInv, Carries, TInv', Link(ctl')
  PROVE  CInv'
<1>1. \A t \in Range(ctl'.strand) : TaskFits(t)
  BY TasksFit DEF Carries
<1> QED
  BY <1>1 DEF CInv, Carries, TaskFits, OwnTask, IsReliable

\* A step that takes a task of the controller and posts nothing.
LEMMA PopMoves ==
  ASSUME CInv, NEW what, what # "reliable", Next_is(what), SameTasks(Popped, ctl')
  PROVE  Moved(ctl.strand, ctl'.strand)
<1>1. Popped.strand = Tail(ctl.strand) /\ ctl.strand # <<>> /\ OwnTask(Head(ctl.strand))
  BY Taken
<1> QED
  BY <1>1 DEF Moved, Grown, SameTasks

\* A step after which the ring is empty and the rest as it was.
LEMMA EmptyCarries ==
  ASSUME CInv, Moved(ctl.strand, ctl'.strand), ctl'.ring = <<>>,
         rest' = rest, line' = line
  PROVE  Carries
<1>1. Travelling' = Range(ctl'.ring) \cup Range(rest') \cup Range(line')
  BY DEF Travelling
<1> QED
  BY <1>1, NoneIsList DEF CInv, Carries, Travelling

-----------------------------------------------------------------------------
(* Steps that close the port.                                              *)

\* All of them empty the queue and the ring.
LEMMA ResettingCarries ==
  ASSUME CInv, \/ OpenFails \/ HeartbeatTimeout \/ RunDestroy \/ ReadFails \/ WriteFails
  PROVE  Carries /\ Shut(ctl') /\ ctl.drain = "none"
<1>1. rest' = rest /\ line' = line
  BY DEF OpenFails, HeartbeatTimeout, RunDestroy, ReadFails, WriteFails, envVars
<1>2. TInv /\ Link(ctl) /\ Fields(ctl) /\ Strands(ctl)
  BY DEF CInv, Link, Fields
<1>3. CASE OpenFails \/ HeartbeatTimeout
  <2>1. PICK what \in {"check", "heartbeat"} : Next_is(what)
    BY <1>3 DEF OpenFails, HeartbeatTimeout, HeartbeatDue
  <2>2. Link(Popped) /\ Fields(Popped) /\ Strands(Popped)
    BY <2>1, Taken DEF Link
  <2>3. Popped.drain = "none" /\ ctl.drain = "none"
    BY <1>2, <1>3, <2>1, PoppedOrder, ClosingOrder
  <2>4. ctl' = Reset(Popped)
    BY <1>3 DEF OpenFails, HeartbeatTimeout
  <2>5. SameTasks(Popped, ctl') /\ Shut(ctl') /\ ctl'.ring = <<>>
    BY <2>2, <2>3, <2>4, ResetTasks, ResetShuts
  <2>6. Moved(ctl.strand, ctl'.strand)
    BY <2>1, <2>5, PopMoves
  <2> QED
    BY <1>1, <2>3, <2>5, <2>6, EmptyCarries
<1>4. CASE RunDestroy
  <2> DEFINE r == Reset(Popped)
  <2>1. Next_is("destroy") /\ ctl.drain = "none"
    BY <1>2, <1>4, DestroyTasks DEF RunDestroy
  <2>2. Link(Popped) /\ Fields(Popped) /\ Strands(Popped) /\ Popped.drain = "none"
    BY <2>1, Taken DEF Link
  <2>3. SameTasks(Popped, r) /\ Shut(r) /\ r.ring = <<>>
    BY <2>2, ResetTasks, ResetShuts
  <2>4. ctl' = [r EXCEPT !.drain = IF r.pending_serial_ops = 0 THEN "done" ELSE "waiting"]
    BY <1>4 DEF RunDestroy
  <2> HIDE DEF r
  <2>5. /\ Fields(ctl') /\ ctl'.strand = r.strand /\ ctl'.ring = r.ring
        /\ ctl'.tx_queue = r.tx_queue /\ ctl'.writing = r.writing
        /\ ctl'.is_connected = r.is_connected
    BY <2>3, <2>4 DEF Shut, Link, Fields, Strands
  <2>6. Shut(ctl')
    BY <2>3, <2>5 DEF Shut, Link
  <2>7. ctl.strand # <<>> /\ OwnTask(Head(ctl.strand)) /\ Popped.strand = Tail(ctl.strand)
    BY <2>1, Taken
  <2>8. Moved(ctl.strand, ctl'.strand)
    BY <2>3, <2>5, <2>7 DEF SameTasks, Moved, Grown
  <2> QED
    BY <1>1, <2>1, <2>3, <2>5, <2>6, <2>8, EmptyCarries
<1>5. ASSUME NEW x, Fields(x), SameTasks(ctl, x), ctl.drain = "none", ctl' = Reset(x)
      PROVE  Carries /\ Shut(ctl') /\ ctl.drain = "none"
  <2>1. SameTasks(x, ctl') /\ Shut(ctl') /\ ctl'.ring = <<>>
    BY <1>5, ResetTasks, ResetShuts DEF SameTasks
  <2>2. Moved(ctl.strand, ctl'.strand)
    BY <1>5, <2>1 DEF SameTasks, Moved, Grown
  <2> QED
    BY <1>1, <1>5, <2>1, <2>2, EmptyCarries
<1>6. ASSUME ctl.reading \/ ctl.writing
      PROVE  /\ ctl.drain = "none" /\ SameTasks(ctl, CompleteOp(ctl))
             /\ SameQueue(ctl, CompleteOp(ctl))
  <2>1. ctl.drain = "none"
    BY <1>2, <1>6 DEF TInv, Orderly, Parked
  <2> QED
    BY <1>2, <2>1, CompleteOpTasks, CompleteOpLink
<1>7. CASE ReadFails
  <2> DEFINE d == CompleteOp(ctl)
             x == [d EXCEPT !.reading = FALSE]
  <2>1. ctl' = Reset(x) /\ ctl.reading
    BY <1>7 DEF ReadFails
  <2>2. ctl.drain = "none" /\ SameTasks(ctl, d) /\ Fields(d)
    BY <1>6, <2>1 DEF SameQueue, Link
  <2> HIDE DEF d
  <2>3. Fields(x) /\ SameTasks(ctl, x)
    BY <2>2 DEF Fields, SameTasks, Strands
  <2> QED
    BY <1>5, <2>1, <2>2, <2>3
<1>8. CASE WriteFails
  <2> DEFINE d == CompleteOp(ctl)
             y == [d EXCEPT !.writing = FALSE, !.tx_write_in_progress = FALSE,
                            !.tx_queue = Tail(@)]
             x == Complete(y, <<Head(ctl.tx_queue)>>)
  <2>1. ctl' = Reset(x) /\ ctl.writing
    BY <1>8 DEF WriteFails, WriteOver
  <2>2. ctl.drain = "none" /\ SameTasks(ctl, d) /\ Fields(d)
    BY <1>6, <2>1 DEF SameQueue, Link
  <2> HIDE DEF d
  <2>3. Fields(y) /\ SameTasks(ctl, y)
    BY <2>2 DEF Fields, SameTasks, Strands
  <2> HIDE DEF y
  <2>4. Fields(x)
    BY <2>3 DEF Complete, Fields, Strands
  <2>5. SameTasks(ctl, x)
    BY <2>3, CompleteTasks DEF SameTasks
  <2> QED
    BY <1>5, <2>1, <2>2, <2>4, <2>5
<1> QED
  BY <1>3, <1>4, <1>7, <1>8

\* The port is opened with nothing queued; the read may close it again.
LEMMA OpenCarries ==
  ASSUME CInv, NEW throws \in BOOLEAN, OpenSucceeds(throws)
  PROVE  Carries /\ Link(ctl') /\ ctl'.tx_queue = <<>> /\ ctl.drain = "none"
<1> DEFINE r == Reset(Popped)
           opened == [r EXCEPT !.is_connected = TRUE, !.shutdown_requested = FALSE,
                               !.ready_state = ~RequireHandshake]
           reading == StartReceive(opened, throws)
<1>1. /\ rest' = rest /\ line' = line /\ Next_is("check")
      /\ ctl' = IF RequireHandshake THEN Post(reading, Send(Handshake)) ELSE reading
  BY DEF OpenSucceeds, envVars
<1>2. /\ Link(Popped) /\ Fields(Popped) /\ Strands(Popped)
      /\ ctl.strand # <<>> /\ OwnTask(Head(ctl.strand)) /\ Popped.strand = Tail(ctl.strand)
  BY <1>1, Taken DEF Link
<1>3. Popped.drain = "none" /\ ctl.drain = "none"
  BY <1>1, PoppedOrder DEF CInv
<1>4. SameTasks(Popped, r) /\ Shut(r) /\ r.ring = <<>>
  BY <1>2, <1>3, ResetTasks, ResetShuts
<1> HIDE DEF r
<1>5. /\ Fields(opened) /\ SameTasks(Popped, opened) /\ opened.ring = <<>>
      /\ opened.tx_queue = <<>> /\ opened.writing = r.writing
  BY <1>4 DEF Shut, Link, Fields, SameTasks, Strands
<1>6. Link(opened)
  BY <1>4, <1>5, NoneIsList DEF Shut, Link
<1> HIDE DEF opened
<1>7. SameTasks(Popped, reading)
  BY <1>3, <1>5, ReadTasks DEF SameTasks
<1>8. Link(reading) /\ reading.tx_queue = <<>> /\ reading.ring = <<>>
  BY <1>5, <1>6, ReadLink DEF SameQueue, Shut, Link
<1> HIDE DEF reading
<1>9. CASE RequireHandshake
  <2>1. ctl' = Post(reading, Send(Handshake)) /\ OwnTask(Send(Handshake))
    BY <1>1, <1>9, OwnTasks
  <2>2. SameQueue(reading, ctl') /\ ctl'.ring = <<>>
    BY <1>8, <2>1, PostLink
  <2>3. Grown(reading.strand, ctl'.strand)
    BY <1>7, <2>1, PostMoves DEF SameTasks
  <2>4. Moved(ctl.strand, ctl'.strand)
    BY <1>2, <1>7, <2>3 DEF Moved, SameTasks
  <2> QED
    BY <1>1, <1>3, <1>8, <2>2, <2>4, EmptyCarries DEF SameQueue
<1>10. CASE ~ RequireHandshake
  <2>1. ctl' = reading
    BY <1>1, <1>10
  <2>2. Moved(ctl.strand, ctl'.strand)
    BY <1>2, <1>7, <2>1 DEF Moved, Grown, SameTasks
  <2> QED
    BY <1>1, <1>3, <1>8, <2>1, <2>2, EmptyCarries
<1> QED
  BY <1>9, <1>10

-----------------------------------------------------------------------------
(* Steps that close the port only when a start throws.                     *)

\* The queue is left as it is, dropped, or gets a frame of the controller.
Adds(c, d) ==
  \/ SameQueue(c, d)
  \/ c.is_connected /\ Shut(d)
  \/ /\ c.is_connected /\ d.is_connected /\ Link(d)
     /\ \E f : ~ IsReliable(f) /\ d.tx_queue = Append(c.tx_queue, f)

\* The drain callback is nothing that such a step sets.
KeepsDrain == ctl'.drain = ctl.drain

\* The task of async_send.
LEMMA SendCarries ==
  ASSUME CInv, NEW throws \in BOOLEAN, RunSend(throws)
  PROVE  Carries /\ Adds(ctl, ctl') /\ KeepsDrain
<1> DEFINE f == Head(ctl.strand).frame
<1>1. /\ rest' = rest /\ line' = line /\ Next_is("send")
      /\ ctl' = SendImpl(Popped, f, throws)
  BY DEF RunSend, envVars
<1>2. /\ Link(Popped) /\ Strands(Popped) /\ SameQueue(ctl, Popped)
      /\ Popped.ring = <<>> /\ OwnTask(Head(ctl.strand)) /\ Head(ctl.strand).do = "send"
      /\ Popped.drain = ctl.drain
  BY <1>1, Taken
<1>3. ~ IsReliable(f)
  BY <1>2 DEF OwnTask
<1> HIDE DEF f
<1>4. SameTasks(Popped, ctl')
  <2>1. CASE ctl.drain = "none"
    BY <1>1, <1>2, <2>1, SendTasks
  <2>2. CASE ctl.drain # "none"
    <3>1. ~ Popped.is_connected
      BY <1>2, <2>2 DEF CInv, TInv, Orderly, Parked, SameQueue
    <3>2. ctl' = Complete(Popped, <<f>>)
      BY <1>1, <3>1 DEF SendImpl, Admits
    <3> QED
      BY <1>2, <3>2, CompleteTasks
  <2> QED
    BY <2>1, <2>2
<1>5. /\ ctl'.ring = <<>>
      /\ \/ SameQueue(Popped, ctl')
         \/ /\ Popped.is_connected
            /\ \/ /\ Link(ctl') /\ ctl'.is_connected
                  /\ ctl'.tx_queue = Append(Popped.tx_queue, f)
               \/ Shut(ctl')
  <2>1. CASE Admits(Popped, f)
    BY <1>1, <1>2, <2>1, SendLink
  <2>2. CASE ~ Admits(Popped, f)
    BY <1>1, <1>2, <2>2, SendLink
  <2> QED
    BY <2>1, <2>2
<1>6. Adds(ctl, ctl')
  BY <1>2, <1>3, <1>5 DEF Adds, SameQueue
<1>7. Moved(ctl.strand, ctl'.strand)
  BY <1>1, <1>4, PopMoves
<1>8. KeepsDrain
  BY <1>2, <1>4 DEF SameTasks, KeepsDrain
<1> QED
  BY <1>1, <1>5, <1>6, <1>7, <1>8, EmptyCarries

\* Handling goes on from c, which has what is left of the packets.
LEMMA ContinueCarries ==
  ASSUME CInv, NEW c, SameTasks(ctl, c), ctl.drain = "none", SameQueue(ctl, c),
         IsList(c.ring), NEW left, IsList(left), IsList(line'),
         Range(c.ring) \cup Range(left) \cup Range(line') \subseteq Travelling,
         NEW throws, Continue(c, left, throws)
  PROVE  Carries /\ Adds(ctl, ctl') /\ KeepsDrain
<1>1. Link(c)
  BY DEF SameQueue
<1>2. /\ SameQueue(c, ctl') \/ (c.is_connected /\ Shut(ctl'))
      /\ IsList(ctl'.ring) /\ IsList(rest')
      /\ Range(ctl'.ring) \cup Range(rest') \subseteq Range(c.ring) \cup Range(left)
  BY <1>1, ContinueLink
<1>3. SameTasks(c, ctl')
  BY ContinueTasks DEF SameTasks
<1>4. Travelling' = Range(ctl'.ring) \cup Range(rest') \cup Range(line')
  BY DEF Travelling
<1>5. Adds(ctl, ctl')
  BY <1>2 DEF Adds, SameQueue
<1>6. Moved(ctl.strand, ctl'.strand) /\ KeepsDrain
  BY <1>3 DEF SameTasks, Moved, Grown, KeepsDrain
<1> QED
  BY <1>2, <1>4, <1>5, <1>6 DEF Carries

\* A read returns a chunk.
LEMMA ReadCarries ==
  ASSUME CInv, NEW n \in 0 .. ChunkPackets, NEW throws \in BOOLEAN, ReadDone(n, throws)
  PROVE  Carries /\ Adds(ctl, ctl') /\ KeepsDrain
<1> DEFINE d == CompleteOp(ctl)
           c == [d EXCEPT !.reading = FALSE]
           left == SubSeq(line, 1, n)
<1>1. /\ ctl.reading /\ n <= Len(line) /\ line' = SubSeq(line, n + 1, Len(line))
      /\ Continue(c, left, throws) /\ ctl.ring = <<>>
  BY DEF ReadDone, StrandFree, Handling
<1>2. Link(ctl) /\ Strands(ctl) /\ ctl.drain = "none" /\ IsList(line)
  BY <1>1 DEF CInv, TInv, Orderly, Parked
<1>3. SameTasks(ctl, d) /\ SameQueue(ctl, d) /\ d.ring = ctl.ring
  BY <1>2, CompleteOpTasks, CompleteOpLink
<1> HIDE DEF d
<1>4. /\ SameTasks(ctl, c) /\ Fields(c) /\ c.ring = <<>>
      /\ c.tx_queue = ctl.tx_queue /\ c.is_connected = ctl.is_connected
      /\ c.writing = d.writing
  BY <1>1, <1>3 DEF SameTasks, SameQueue, Link, Fields, Strands
<1>5. SameQueue(ctl, c)
  BY <1>3, <1>4 DEF SameQueue, Link
<1> HIDE DEF c
<1>6. n \in Nat /\ Len(line) \in Nat
  <2>1. ChunkPackets \in Nat
    BY SizeAssumption
  <2>2. Len(line) \in Nat
    BY <1>2, LenProperties DEF IsList
  <2> QED
    BY <2>1, <2>2
<1>7. IsList(line') /\ Range(line') \subseteq Range(line)
  BY <1>1, <1>2, <1>6, PartOfList
<1>8. IsList(left) /\ Range(left) \subseteq Range(line)
  <2>1. 0 \in Nat /\ 0 + 1 = 1
    OBVIOUS
  <2> QED
    BY <1>1, <1>2, <1>6, <2>1, PartOfList
<1> HIDE DEF left
<1>9. Range(c.ring) \cup Range(left) \cup Range(line') \subseteq Travelling
  BY <1>4, <1>7, <1>8, NoneIsList DEF Travelling
<1>10. IsList(c.ring)
  BY <1>4, NoneIsList
<1> QED
  BY <1>1, <1>2, <1>4, <1>5, <1>7, <1>8, <1>9, <1>10, ContinueCarries

\* A packet leaves the ring.
LEMMA PacketTaken ==
  ASSUME CInv, ctl.ring # <<>>
  PROVE  LET c == [ctl EXCEPT !.ring = Tail(@)] IN
           /\ Link(c) /\ SameQueue(ctl, c) /\ SameTasks(ctl, c) /\ ctl.drain = "none"
           /\ c.ring = Tail(ctl.ring) /\ IsList(c.ring)
           /\ Range(c.ring) \subseteq Range(ctl.ring) /\ Head(ctl.ring) \in Range(ctl.ring)
           /\ c.tx_queue = ctl.tx_queue /\ c.is_connected = ctl.is_connected
<1> DEFINE c == [ctl EXCEPT !.ring = Tail(@)]
<1>1. Link(ctl) /\ Strands(ctl) /\ ctl.drain = "none" /\ IsList(ctl.ring)
  BY DEF CInv, TInv, Orderly, Parked
<1>2. /\ SameTasks(ctl, c) /\ Fields(c) /\ c.ring = Tail(ctl.ring)
      /\ c.tx_queue = ctl.tx_queue /\ c.is_connected = ctl.is_connected
      /\ c.writing = ctl.writing
  BY <1>1 DEF SameTasks, Link, Fields, Strands
<1> HIDE DEF c
<1>3. SameQueue(ctl, c)
  BY <1>1, <1>2 DEF SameQueue, Link
<1>4. /\ IsList(Tail(ctl.ring)) /\ Range(Tail(ctl.ring)) \subseteq Range(ctl.ring)
      /\ Head(ctl.ring) \in Range(ctl.ring)
  BY <1>1, ShrunkList
<1> QED
  BY <1>1, <1>2, <1>3, <1>4 DEF SameQueue, c

\* A packet is handled, and the chunk goes on.
LEMMA ParseCarries ==
  ASSUME CInv, NEW throws \in BOOLEAN, ParsePacket(throws)
  PROVE  Carries /\ Adds(ctl, ctl') /\ KeepsDrain
<1> DEFINE c == [ctl EXCEPT !.ring = Tail(@)]
           d == HandlePacket(c, Head(ctl.ring))
<1>1. /\ ctl.ring # <<>> /\ Continue(d, rest, throws) /\ line' = line
  BY DEF ParsePacket, envVars
<1>2. /\ Link(c) /\ SameQueue(ctl, c) /\ SameTasks(ctl, c) /\ ctl.drain = "none"
      /\ IsList(c.ring) /\ Range(c.ring) \subseteq Range(ctl.ring)
  BY <1>1, PacketTaken
<1> HIDE DEF c
<1>3. SameQueue(c, d) /\ d.ring = c.ring /\ SameTasks(c, d)
  BY <1>2, PacketLink, PacketTasks DEF SameTasks
<1> HIDE DEF d
<1>4. SameQueue(ctl, d) /\ SameTasks(ctl, d)
  BY <1>2, <1>3 DEF SameQueue, SameTasks
<1>5. IsList(rest) /\ IsList(line') /\ IsList(d.ring)
  BY <1>1, <1>2, <1>3 DEF CInv
<1>6. Range(d.ring) \cup Range(rest) \cup Range(line') \subseteq Travelling
  BY <1>1, <1>2, <1>3 DEF Travelling
<1> QED
  BY <1>1, <1>2, <1>4, <1>5, <1>6, ContinueCarries

\* Steps of which the sender hears nothing.
LEMMA SilentCarries ==
  ASSUME CInv, \/ \E what \in {"check", "heartbeat"} : TimerTick(what)
               \/ SendData \/ Shutdown
               \/ CheckConnected \/ HeartbeatWaiting \/ HeartbeatRetry \/ HeartbeatNext
               \/ RunDrained \/ StaleDone \/ LoseReply \/ WindowPasses
  PROVE  /\ Carries /\ SameQueue(ctl, ctl') /\ TInv'
         /\ ctl'.drain # "none" => ctl.drain # "none"
<1>1. Quiet
  BY PostingQuiet, TakenQuiet, OtherQuiet
<1>2. Carries /\ SameQueue(ctl, ctl')
  BY <1>1, QuietCarries
<1>3. TInv /\ Strands(ctl)
  BY DEF CInv, Link, Fields
<1>4. CASE \/ \E what \in {"check", "heartbeat"} : TimerTick(what)
           \/ SendData \/ Shutdown
  <2>1. TInv' /\ (ctl'.drain = "none" \/ Waits(ctl, ctl'))
    BY <1>3, <1>4, PostingTasks
  <2> QED
    BY <1>2, <2>1 DEF Waits
<1>5. CASE CheckConnected \/ HeartbeatWaiting \/ HeartbeatRetry \/ HeartbeatNext
  <2>1. TInv' /\ (ctl'.drain = "none" \/ Waits(ctl, ctl'))
    BY <1>3, <1>5, TimerTasks
  <2> QED
    BY <1>2, <2>1 DEF Waits
<1>6. CASE RunDrained
  BY <1>2, <1>3, <1>6, DrainedTasks
<1>7. CASE StaleDone
  <2>1. TInv'
    BY <1>3, <1>7, StaleTasks
  <2>2. ctl.drain = "none" => ctl'.drain = "none"
    <3> SUFFICES ASSUME ctl.drain = "none" PROVE ctl'.drain = "none"
      OBVIOUS
    <3>1. SameTasks(ctl, CompleteOp(ctl))
      BY <1>3, CompleteOpTasks
    <3>2. ctl' = [CompleteOp(ctl) EXCEPT !.stale_ops = @ - 1]
      BY <1>7 DEF StaleDone
    <3> QED
      BY <3>1, <3>2 DEF SameTasks, Strands
  <2> QED
    BY <1>2, <2>1, <2>2
<1>8. CASE LoseReply \/ WindowPasses
  <2>1. ctl' = ctl
    BY <1>8 DEF LoseReply, WindowPasses
  <2> QED
    BY <1>2, <1>3, <1>8, <2>1, LineTasks
<1> QED
  BY <1>4, <1>5, <1>6, <1>7, <1>8

-----------------------------------------------------------------------------
(* The agreement is kept.                                                  *)

\* Through a reset.
LEMMA ResetAgreed ==
  ASSUME NEW p, NEW txq, IsList(txq), NEW fired, Agreed(p, txq, fired)
  PROVE  LET r == AfterReset(p, txq) IN
           /\ Agreed(r, <<>>, fired)
           /\ ~ shutting_down => \A k \in Ids : Alike(p[k], r[k])
           /\ shutting_down => r = Cleared
<1> DEFINE r == AfterReset(p, txq)
<1>1. /\ p \in [Ids -> Queues] /\ OwnFrames(txq) /\ InStep(p, txq, fired)
      /\ \A j \in Ids : Numbered(p[j])
  BY DEF Agreed
<1>2. /\ r \in [Ids -> Queues] /\ InStep(r, <<>>, fired) /\ OwnFrames(<<>>)
      /\ ~ shutting_down => \A k \in Ids : Alike(p[k], r[k])
      /\ shutting_down => r = Cleared
  BY <1>1, ResetInStep
<1> HIDE DEF r
<1>3. \A j \in Ids : Numbered(r[j])
  BY <1>1, <1>2, ClearedInStep DEF Numbered, Alike
<1> QED
  BY <1>2, <1>3 DEF Agreed, r

\* Queues are like themselves.
LEMMA AlikeItself == \A q : Alike(q, q)
BY DEF Alike

\* From c to d, which keeps the frames, adds one that is not reliable, or has
\* closed the port.
LEMMA AddedAgrees ==
  ASSUME NEW c, Link(c), NEW d, Adds(c, d), NEW p, NEW fired,
         Agreed(p, c.tx_queue, fired)
  PROVE  LET r == IF c.is_connected /\ ~ d.is_connected
                  THEN AfterReset(p, c.tx_queue) ELSE p
         IN  /\ Agreed(r, d.tx_queue, fired) /\ Link(d)
             /\ ~ shutting_down => \A k \in Ids : Alike(p[k], r[k])
<1> DEFINE txq == c.tx_queue
           r == IF c.is_connected /\ ~ d.is_connected THEN AfterReset(p, txq) ELSE p
<1>1. IsList(txq)
  BY DEF Link
<1>2. CASE SameQueue(c, d)
  <2>1. r = p /\ d.tx_queue = txq /\ Link(d)
    BY <1>2 DEF SameQueue
  <2> HIDE DEF r
  <2> QED
    BY <2>1, AlikeItself DEF r
<1>3. CASE c.is_connected /\ Shut(d)
  <2>1. r = AfterReset(p, txq) /\ d.tx_queue = <<>> /\ Link(d)
    BY <1>3 DEF Shut, Link
  <2> HIDE DEF r
  <2> QED
    BY <1>1, <2>1, ResetAgreed DEF r
<1>4. CASE /\ c.is_connected /\ d.is_connected /\ Link(d)
           /\ \E f : ~ IsReliable(f) /\ d.tx_queue = Append(txq, f)
  <2>1. PICK f : ~ IsReliable(f) /\ d.tx_queue = Append(txq, f)
    BY <1>4
  <2>2. r = p
    BY <1>4
  <2> HIDE DEF r, txq
  <2>3. p \in [Ids -> Queues] /\ OwnFrames(txq) /\ InStep(p, txq, fired)
        /\ \A j \in Ids : Numbered(p[j])
    BY DEF Agreed, txq
  <2>4. \A k : ~ IsOf(f, k)
    BY <2>1 DEF IsOf
  <2> DEFINE t == Append(txq, f)
  <2>5. OwnFrames(t)
    BY <1>1, <2>1, <2>3, AppendInStep
  <2>6. ASSUME NEW k \in Ids PROVE Single(k, p[k], t) /\ Awoken(k, p[k], t, fired)
    <3>1. Single(k, p[k], txq) /\ Awoken(k, p[k], txq, fired)
      BY <2>3 DEF InStep
    <3> QED
      BY <1>1, <2>4, <3>1, AppendInStep
  <2> HIDE DEF t
  <2>7. Agreed(p, t, fired)
    BY <2>3, <2>5, <2>6 DEF Agreed, InStep
  <2> QED
    BY <1>4, <2>1, <2>2, <2>7, AlikeItself DEF r, t, txq
<1> QED
  BY <1>2, <1>3, <1>4 DEF Adds, txq

\* A write is over, and the sender has been told.
LEMMA ToldAgrees ==
  ASSUME NEW p, NEW txq, IsList(txq), txq # <<>>, NEW fired, Agreed(p, txq, fired)
  PROVE  LET f == Head(txq)
             r == IF IsReliable(f)
                  THEN [p EXCEPT ![f.write.id] = Told(@, f.write, TRUE)] ELSE p
         IN  /\ Agreed(r, Tail(txq), fired)
             /\ \A k \in Ids : Alike(p[k], r[k])
<1> DEFINE f == Head(txq)
           t == Tail(txq)
           r == IF IsReliable(f)
                THEN [p EXCEPT ![f.write.id] = Told(@, f.write, TRUE)] ELSE p
<1>1. /\ p \in [Ids -> Queues] /\ OwnFrames(txq)
      /\ \A k \in Ids : Single(k, p[k], txq) /\ Awoken(k, p[k], txq, fired)
      /\ \A k \in Ids : Numbered(p[k])
  BY DEF Agreed, InStep
<1>2. OwnFrames(t) /\ \A k \in Ids : Single(k, p[k], t)
  BY <1>1, TailInStep
<1>3. \A k \in Ids : ~ IsOf(f, k) => Awoken(k, p[k], t, fired)
  BY <1>1, TailInStep
<1>4. CASE ~ IsReliable(f)
  <2>1. r = p
    BY <1>4
  <2>2. \A k \in Ids : Awoken(k, p[k], t, fired)
    BY <1>3, <1>4 DEF IsOf
  <2> HIDE DEF r, t
  <2>3. Agreed(p, t, fired)
    BY <1>1, <1>2, <2>2 DEF Agreed, InStep
  <2> QED
    BY <2>1, <2>3, AlikeItself DEF r, t
<1>5. CASE IsReliable(f)
  <2> DEFINE k0 == f.write.id
             w == f.write
             q == p[k0]
             e == Sender!Completed(q[1], TRUE)
             s == Sender!WithFront(q, e)
  <2>1. 1 \in 1 .. Len(txq) /\ f = txq[1]
    <3>1. Len(txq) \in Nat \ {0} /\ Head(txq) = txq[1]
      BY ListShrinks
    <3> QED
      BY <3>1
  <2>2. k0 \in Ids /\ IsOf(f, k0) /\ q \in Queues
    BY <1>1, <1>5, <2>1 DEF OwnFrames, IsOf
  <2>3. Sender!IsLatestWrite(w, q)
    BY <1>1, <2>1, <2>2 DEF Single
  <2>4. NoneOf(k0, t)
    BY <1>1, <2>2, TailInStep
  <2>5. q # <<>> /\ Sender!IsCurrent(w, q) /\ q[1] \in Sender!Entry
    BY <2>2, <2>3, LatestIsCurrent, FrontEntry DEF Sender!IsCurrent
  <2>6. r = [p EXCEPT ![k0] = s]
    BY <1>1, <1>5, <2>5 DEF Told
  <2> HIDE DEF r
  <2>7. /\ e \in Sender!Entry /\ e.msg = q[1].msg /\ e.seq_assigned = q[1].seq_assigned
        /\ e.expected_seq = q[1].expected_seq /\ ~ e.send_in_progress /\ e.timer_armed
    BY <2>5, CompletedEntry
  <2> HIDE DEF e
  <2>8. s \in Queues /\ s # <<>> /\ s[1] = e /\ Alike(q, s)
    BY <2>2, <2>5, <2>7, FrontReplaced, FrontAlike
  <2> HIDE DEF s, w
  <2>9. r \in [Ids -> Queues] /\ r[k0] = s /\ \A k \in Ids \ {k0} : r[k] = p[k]
    BY <1>1, <2>2, <2>6, <2>8
  <2>10. Single(k0, s, t) /\ Awoken(k0, s, t, fired) /\ Numbered(s)
    <3>1. Numbered(s)
      BY <1>1, <2>2, <2>8 DEF Numbered, Alike
    <3> QED
      BY <2>4, <2>7, <2>8, <3>1, NoneIsSingle DEF Awoken
  <2>11. \A k \in Ids \ {k0} : ~ IsOf(f, k)
    BY DEF IsOf
  <2> HIDE DEF k0, q, t, f
  <2>12. \A k \in Ids : Single(k, r[k], t) /\ Awoken(k, r[k], t, fired) /\ Numbered(r[k])
    BY <1>1, <1>2, <1>3, <2>2, <2>9, <2>10, <2>11
  <2>13. Agreed(r, t, fired)
    BY <1>2, <2>9, <2>12 DEF Agreed, InStep
  <2>14. \A k \in Ids : Alike(p[k], r[k])
    BY <2>2, <2>8, <2>9, AlikeItself DEF q
  <2> QED
    BY <2>13, <2>14 DEF r, t, f
<1> QED
  BY <1>4, <1>5

-----------------------------------------------------------------------------
(* The invariant of the node.                                              *)

\* The packets that come are acknowledgements of declared ids, or others.
OwnPackets == \A x \in Travelling : IsAck(x) => x.key \in Ids

\* The controller, the sender, and what each takes for granted of the other.
BInv ==
  /\ CInv /\ OwnPackets
  /\ seq_counter \in Numbers
  /\ {last, sent, popped} \subseteq [Ids -> Nat]
  /\ Agreed(pending, ctl.tx_queue, timeouts)
  /\ ctl.drain # "none" => pending = Cleared

\* What has to be shown of a step.
LEMMA BKept ==
  ASSUME BInv, CInv', OwnPackets', seq_counter' \in Numbers,
         {last', sent', popped'} \subseteq [Ids -> Nat],
         Agreed(pending', ctl'.tx_queue, timeouts'),
         ctl'.drain # "none" => pending' = Cleared
  PROVE  BInv'
<1>1. Numbers' = Numbers /\ Cleared' = Cleared
  BY DEF Numbers, Sender!Seqs, Cleared
<1>2. Agreed(pending, ctl.tx_queue, timeouts)'
  OBVIOUS
<1> QED
  BY <1>1, <1>2 DEF BInv

\* A step that hands the sender no message, no ACK and no retry.
Gentle ==
  /\ Moved(ctl.strand, ctl'.strand)
  /\ \A x \in Travelling' : IsAck(x) => x \in Travelling
  /\ UNCHANGED <<seq_counter, historyVars>>
  /\ ~ shutting_down => \A k \in Ids : Alike(pending[k], pending'[k])

\* Such a step keeps the invariant if it keeps the agreement.
LEMMA GentleKept ==
  ASSUME BInv, Gentle, CInv',
         Agreed(pending', ctl'.tx_queue, timeouts'),
         ctl'.drain # "none" => pending' = Cleared
  PROVE  BInv'
<1>1. OwnPackets'
  BY DEF BInv, Gentle, OwnPackets, IsAck
<1>2. seq_counter' \in Numbers /\ {last', sent', popped'} \subseteq [Ids -> Nat]
  BY DEF BInv, Gentle, historyVars
<1> QED
  BY <1>1, <1>2, BKept

\* Steps of which the sender hears nothing.
LEMMA SilentBridge ==
  ASSUME BInv, UNCHANGED senderVars,
         \/ \E what \in {"check", "heartbeat"} : TimerTick(what)
         \/ SendData \/ Shutdown
         \/ CheckConnected \/ HeartbeatWaiting \/ HeartbeatRetry \/ HeartbeatNext
         \/ RunDrained \/ StaleDone \/ LoseReply \/ WindowPasses
  PROVE  BInv' /\ Gentle
<1>1. CInv
  BY DEF BInv
<1>2. /\ Carries /\ SameQueue(ctl, ctl') /\ TInv'
      /\ ctl'.drain # "none" => ctl.drain # "none"
  BY <1>1, SilentCarries
<1>3. /\ pending' = pending /\ timeouts' = timeouts
      /\ UNCHANGED <<seq_counter, historyVars>>
  BY DEF senderVars
<1>4. Gentle
  BY <1>2, <1>3, AlikeItself DEF Gentle, Carries
<1>5. /\ Agreed(pending', ctl'.tx_queue, timeouts') /\ Link(ctl')
      /\ ctl'.drain # "none" => pending' = Cleared
  BY <1>2, <1>3 DEF BInv, SameQueue
<1> QED
  BY <1>1, <1>2, <1>4, <1>5, CarriedInv, GentleKept

\* Steps that close the port, or open it anew.
LEMMA ResettingBridge ==
  ASSUME BInv, \/ Resetting(OpenFails) \/ Resetting(HeartbeatTimeout)
               \/ Resetting(RunDestroy) \/ Resetting(ReadFails) \/ Resetting(WriteFails)
               \/ \E throws \in BOOLEAN : Resetting(OpenSucceeds(throws))
  PROVE  BInv' /\ Gentle
<1>1. CInv /\ TInv /\ Link(ctl) /\ IsList(ctl.tx_queue)
      /\ Agreed(pending, ctl.tx_queue, timeouts)
  BY DEF BInv, CInv, Link
<1>2. /\ pending' = AfterReset(pending, ctl.tx_queue)
      /\ timeouts' = timeouts /\ UNCHANGED <<seq_counter, historyVars>>
  BY DEF Resetting
<1>3. /\ Agreed(pending', <<>>, timeouts')
      /\ ~ shutting_down => \A k \in Ids : Alike(pending[k], pending'[k])
      /\ shutting_down => pending' = Cleared
  BY <1>1, <1>2, ResetAgreed
<1>4. /\ Carries /\ Link(ctl') /\ ctl'.tx_queue = <<>> /\ TInv'
      /\ ctl'.drain # "none" => shutting_down
  <2>1. CASE OpenFails \/ HeartbeatTimeout \/ ReadFails \/ WriteFails
    BY <1>1, <2>1, ResettingCarries, ResetStepTasks DEF Shut, Link
  <2>2. CASE RunDestroy
    BY <1>1, <2>2, ResettingCarries, DestroyTasks DEF Shut, Link
  <2>3. CASE \E throws \in BOOLEAN : OpenSucceeds(throws)
    BY <1>1, <2>3, OpenCarries, OpenTasks
  <2> QED
    BY <2>1, <2>2, <2>3 DEF Resetting
<1>5. Gentle
  BY <1>2, <1>3, <1>4 DEF Gentle, Carries
<1> QED
  BY <1>1, <1>3, <1>4, <1>5, CarriedInv, GentleKept

\* Steps that close the port only when a start throws.
LEMMA StartingBridge ==
  ASSUME BInv, \/ \E throws \in BOOLEAN : Starting(RunSend(throws))
               \/ \E n \in 0 .. ChunkPackets, throws \in BOOLEAN : Starting(ReadDone(n, throws))
               \/ \E throws \in BOOLEAN : Starting(ParsePacket(throws))
  PROVE  BInv' /\ Gentle
<1>1. CInv /\ TInv /\ Link(ctl) /\ Agreed(pending, ctl.tx_queue, timeouts)
  BY DEF BInv, CInv
<1>2. /\ pending' = Survivors(pending, ctl.tx_queue)
      /\ timeouts' = timeouts /\ UNCHANGED <<seq_counter, historyVars>>
  BY DEF Starting
<1>3. Carries /\ Adds(ctl, ctl') /\ KeepsDrain /\ TInv'
  <2>1. CASE \E throws \in BOOLEAN : RunSend(throws)
    BY <1>1, <2>1, SendCarries, SendStepTasks
  <2>2. CASE \E n \in 0 .. ChunkPackets, throws \in BOOLEAN : ReadDone(n, throws)
    BY <1>1, <2>2, ReadCarries, ReceiveTasks
  <2>3. CASE \E throws \in BOOLEAN : ParsePacket(throws)
    BY <1>1, <2>3, ParseCarries, ReceiveTasks
  <2> QED
    BY <2>1, <2>2, <2>3 DEF Starting
<1>4. pending' = IF ctl.is_connected /\ ~ ctl'.is_connected
                 THEN AfterReset(pending, ctl.tx_queue) ELSE pending
  BY <1>2 DEF Survivors
<1>5. /\ Agreed(pending', ctl'.tx_queue, timeouts') /\ Link(ctl')
      /\ ~ shutting_down => \A k \in Ids : Alike(pending[k], pending'[k])
  BY <1>1, <1>2, <1>3, <1>4, AddedAgrees
<1>6. ctl'.drain # "none" => pending' = Cleared
  <2> SUFFICES ASSUME ctl.drain # "none" PROVE pending' = Cleared
    BY <1>3 DEF KeepsDrain
  <2>1. ~ ctl.is_connected
    BY <1>1 DEF TInv, Orderly, Parked
  <2> QED
    BY <1>4, <2>1 DEF BInv
<1>7. Gentle
  BY <1>2, <1>3, <1>5 DEF Gentle, Carries
<1> QED
  BY <1>1, <1>3, <1>5, <1>6, <1>7, CarriedInv, GentleKept

\* Likeness goes on.
LEMMA AlikeAlike ==
  ASSUME NEW q, NEW r, NEW s, Alike(q, r), Alike(r, s)
  PROVE  Alike(q, s)
<1>1. Len(r) = Len(q)
  BY DEF Alike
<1> QED
  BY <1>1 DEF Alike

\* What leaves controller and packets alone carries them.
LEMMA StillCarries ==
  ASSUME CInv, UNCHANGED <<ctl, rest, line>>
  PROVE  Carries
<1>1. Travelling' = Travelling
  BY DEF Travelling
<1> QED
  BY <1>1 DEF CInv, Carries, Moved, Grown

\* The frame in front is completed and the next write started.
LEMMA WriteDoneBridge ==
  ASSUME BInv, NEW throws \in BOOLEAN, BridgeWriteDone(throws)
  PROVE  BInv' /\ Gentle
<1> DEFINE txq == ctl.tx_queue
           f == Head(txq)
           d == CompleteOp(ctl)
           y == [d EXCEPT !.writing = FALSE, !.tx_write_in_progress = FALSE,
                          !.tx_queue = Tail(@)]
           x == Complete(y, <<f>>)
           p == IF IsReliable(f)
                THEN [pending EXCEPT ![f.write.id] = Told(@, f.write, TRUE)]
                ELSE pending
<1>1. CInv /\ TInv /\ Link(ctl) /\ Strands(ctl) /\ Agreed(pending, txq, timeouts)
  BY DEF BInv, CInv, Link, Fields
<1>2. /\ ctl.writing /\ ctl.ring = <<>> /\ rest = <<>> /\ WriteDone(throws)
      /\ ctl' = StartNextWrite(x, throws) /\ rest' = rest /\ line' = line
      /\ pending' = Survivors(p, Tail(txq)) /\ timeouts' = timeouts
      /\ UNCHANGED <<seq_counter, historyVars>>
  BY DEF BridgeWriteDone, WriteDone, WriteOver, StrandFree, Handling, envVars
<1>3. TInv' /\ ctl'.drain = "none" /\ ctl.drain = "none"
  <2>1. ctl.drain = "none"
    BY <1>1, <1>2 DEF TInv, Orderly, Parked
  <2> QED
    BY <1>1, <1>2, <2>1, WrittenTasks
<1>4. IsList(txq) /\ txq # <<>> /\ ctl.is_connected
  BY <1>1, <1>2 DEF Link
<1>5. SameTasks(ctl, d) /\ Fields(d) /\ d.tx_queue = txq /\ d.ring = <<>> /\ d.is_connected
  BY <1>1, <1>2, <1>3, <1>4, CompleteOpTasks, CompleteOpLink DEF SameQueue, Link
<1> HIDE DEF d
<1>6. /\ SameTasks(ctl, y) /\ Fields(y) /\ y.tx_queue = Tail(txq) /\ y.ring = <<>>
      /\ y.is_connected /\ y.writing = FALSE
  BY <1>5 DEF SameTasks, Fields, Strands
<1> HIDE DEF y
<1>7. IsList(Tail(txq))
  BY <1>4, ShrunkList
<1>8. Link(y)
  BY <1>6, <1>7 DEF Link
<1>9. /\ SameQueue(y, x) /\ x.ring = <<>> /\ Link(x) /\ SameTasks(y, x)
  BY <1>6, <1>8, CompleteLink, CompleteTasks DEF SameQueue, SameTasks
<1> HIDE DEF x
<1>10. /\ x.tx_queue = Tail(txq) /\ x.is_connected /\ SameTasks(ctl, x) /\ Strands(x)
  BY <1>6, <1>9 DEF SameQueue, SameTasks
<1>11. /\ SameQueue(x, ctl') \/ Shut(ctl')
       /\ ctl'.ring = <<>> /\ Adds(x, ctl') /\ SameTasks(x, ctl')
  BY <1>2, <1>3, <1>9, <1>10, WriteLink, WriteTasks DEF Adds, SameTasks
<1>12. Moved(ctl.strand, ctl'.strand)
  BY <1>10, <1>11 DEF SameTasks, Moved, Grown
<1>13. Carries
  BY <1>1, <1>2, <1>11, <1>12, EmptyCarries
<1> HIDE DEF f, txq
<1>14. Agreed(p, Tail(txq), timeouts) /\ \A k \in Ids : Alike(pending[k], p[k])
  BY <1>1, <1>4, ToldAgrees DEF f
<1> HIDE DEF p
<1>15. pending' = IF x.is_connected /\ ~ ctl'.is_connected
                  THEN AfterReset(p, x.tx_queue) ELSE p
  BY <1>2, <1>4, <1>10 DEF Survivors
<1>16. /\ Agreed(pending', ctl'.tx_queue, timeouts') /\ Link(ctl')
       /\ ~ shutting_down => \A k \in Ids : Alike(p[k], pending'[k])
  <2>1. Agreed(p, x.tx_queue, timeouts)
    BY <1>10, <1>14
  <2> DEFINE r == IF x.is_connected /\ ~ ctl'.is_connected
                  THEN AfterReset(p, x.tx_queue) ELSE p
  <2>2. Link(x) /\ Adds(x, ctl')
    BY <1>9, <1>11
  <2>3. /\ Agreed(r, ctl'.tx_queue, timeouts) /\ Link(ctl')
        /\ ~ shutting_down => \A k \in Ids : Alike(p[k], r[k])
    BY <2>1, <2>2, AddedAgrees
  <2>4. pending' = r /\ timeouts' = timeouts
    BY <1>2, <1>15
  <2> HIDE DEF r
  <2> QED
    BY <2>3, <2>4
<1>17. Gentle
  BY <1>2, <1>12, <1>13, <1>14, <1>16, AlikeAlike DEF Gentle, Carries
<1> QED
  BY <1>1, <1>3, <1>13, <1>16, <1>17, CarriedInv, GentleKept

\* A retry timer fires.
LEMMA ExpiryBridge ==
  ASSUME BInv, NEW k \in Ids, RetryExpires(k)
  PROVE  BInv' /\ Gentle
<1> DEFINE txq == ctl.tx_queue
           q == pending[k]
           e == q[1]
           d == Sender!Fired(e)
           r == Sender!WithFront(q, d)
           fired == timeouts \cup {<<k, e.expected_seq>>}
<1>1. /\ CInv /\ TInv /\ Link(ctl) /\ pending \in [Ids -> Queues] /\ OwnFrames(txq)
      /\ \A j \in Ids : Single(j, pending[j], txq) /\ Awoken(j, pending[j], txq, timeouts)
      /\ \A j \in Ids : Numbered(pending[j])
  BY DEF BInv, CInv, Agreed, InStep
<1>2. /\ q # <<>> /\ timeouts' = fired /\ pending' = [pending EXCEPT ![k] = r]
      /\ UNCHANGED <<ctl, rest, line, shutting_down, racers, seq_counter, historyVars>>
  BY DEF RetryExpires, vars
<1>3. q \in Queues /\ e \in Sender!Entry
  BY <1>1, <1>2, FrontEntry
<1>4. /\ d \in Sender!Entry /\ d.msg = e.msg /\ d.seq_assigned = e.seq_assigned
      /\ d.expected_seq = e.expected_seq /\ d.send_generation = e.send_generation
      /\ d.send_in_progress = e.send_in_progress /\ d.awaiting_ack = e.awaiting_ack
  BY <1>3, FiredEntry
<1> HIDE DEF d
<1>5. r \in Queues /\ r # <<>> /\ r[1] = d /\ Alike(q, r)
  BY <1>2, <1>3, <1>4, FrontReplaced, FrontAlike
<1> HIDE DEF r
<1>6. pending' \in [Ids -> Queues] /\ pending'[k] = r /\ \A j \in Ids \ {k} : pending'[j] = pending[j]
  BY <1>1, <1>2, <1>5
<1>7. \A w : Sender!WriteOf(w, d) = Sender!WriteOf(w, e)
  BY <1>4 DEF Sender!WriteOf
<1> HIDE DEF txq
<1>8. Single(k, r, txq) /\ Awoken(k, r, txq, fired) /\ Numbered(r)
  <2>1. Single(k, q, txq)
    BY <1>1
  <2>2. \A w : Sender!IsLatestWrite(w, q) => Sender!IsLatestWrite(w, r)
    BY <1>2, <1>4, <1>5, <1>7 DEF Sender!IsLatestWrite
  <2>3. Single(k, r, txq)
    BY <2>1, <2>2 DEF Single
  <2>4. Awoken(k, q, txq, timeouts)
    BY <1>1
  <2>5. Numbered(r)
    BY <1>1, <1>2, <1>4, <1>5 DEF Numbered
  <2>6. e.send_in_progress => Awoken(k, r, txq, fired)
    BY <1>2, <1>4, <1>5, <1>7, <2>4 DEF Awoken
  <2>7. ~ e.send_in_progress => Awoken(k, r, txq, fired)
    BY <1>4, <1>5 DEF Awoken
  <2> QED
    BY <2>3, <2>5, <2>6, <2>7
<1>9. \A j \in Ids : Awoken(j, pending[j], txq, fired)
  BY <1>1 DEF Awoken
<1> HIDE DEF fired, q
<1>10. \A j \in Ids : /\ Single(j, pending'[j], txq) /\ Awoken(j, pending'[j], txq, fired)
                      /\ Numbered(pending'[j])
  BY <1>1, <1>6, <1>8, <1>9
<1>11. Agreed(pending', ctl'.tx_queue, timeouts')
  BY <1>1, <1>2, <1>6, <1>10 DEF Agreed, InStep, txq
<1>12. \A j \in Ids : Alike(pending[j], pending'[j])
  BY <1>5, <1>6, AlikeItself DEF q
<1>13. Carries /\ TInv' /\ Link(ctl')
  BY <1>1, <1>2, StillCarries, LineTasks
<1>14. ctl'.drain # "none" => pending' = Cleared
  <2>1. Cleared[k] = <<>>
    BY ClearedInStep
  <2>2. ctl.drain = "none"
    BY <1>2, <2>1 DEF BInv, q
  <2> QED
    BY <1>2, <2>2
<1>15. Gentle
  BY <1>2, <1>12, <1>13 DEF Gentle, Carries
<1> QED
  BY <1>1, <1>11, <1>13, <1>14, <1>15, CarriedInv, GentleKept

\* The first frame is lost.
LEMMA LossBridge ==
  ASSUME BInv, LoseFrame
  PROVE  BInv' /\ Gentle
<1>1. UNCHANGED <<ctl, rest, line, shutting_down, racers, senderVars>>
  BY DEF LoseFrame
<1>2. CInv /\ TInv /\ Link(ctl)
  BY DEF BInv, CInv
<1>3. Carries /\ TInv' /\ Link(ctl')
  BY <1>1, <1>2, StillCarries, LineTasks
<1>4. /\ Agreed(pending', ctl'.tx_queue, timeouts')
      /\ ctl'.drain # "none" => pending' = Cleared
  BY <1>1 DEF BInv, senderVars
<1>5. Gentle
  BY <1>1, <1>3, AlikeItself DEF Gentle, Carries, senderVars
<1> QED
  BY <1>2, <1>3, <1>4, <1>5, CarriedInv, GentleKept

\* A message is handed to the sender's task.
LEMMA SubmitBridge ==
  ASSUME BInv, NEW k \in Ids, SendReliable(k)
  PROVE  /\ BInv' /\ ctl'.strand = Append(ctl.strand, ReliableTask(k, sent[k] + 1))
         /\ ctl'.ring = ctl.ring /\ UNCHANGED <<rest, line, shutting_down>>
<1> DEFINE t == ReliableTask(k, sent[k] + 1)
<1>1. /\ CInv /\ TInv /\ Link(ctl) /\ Strands(ctl) /\ IsList(ctl.strand)
      /\ Orderly(ctl, shutting_down) /\ \A u \in Range(ctl.strand) : TaskFits(u)
  BY DEF BInv, CInv, TInv, Orderly
<1>2. /\ ~ shutting_down /\ ctl' = Post(ctl, t) /\ sent' = [sent EXCEPT ![k] = @ + 1]
      /\ UNCHANGED <<rest, line, shutting_down, racers, pending, seq_counter,
                     timeouts, last, popped>>
  BY DEF SendReliable, PostTask, envVars
<1>3. /\ t.do = "reliable" /\ t.key = k /\ t.msg = sent[k] + 1
  BY DEF ReliableTask
<1>4. TaskFits(t) /\ Plain(t)
  <2>1. sent[k] \in Nat
    BY DEF BInv
  <2> QED
    BY <1>3, <2>1 DEF TaskFits, Plain
<1> HIDE DEF t
<1>5. ctl'.strand = Append(ctl.strand, t)
  BY <1>1, <1>2 DEF Post, Strands
<1>6. SameQueue(ctl, ctl') /\ ctl'.ring = ctl.ring
  BY <1>1, <1>2, PostLink
<1>7. TInv' /\ ctl'.drain = "none"
  <2>1. ctl.drain = "none"
    BY <1>1, <1>2 DEF Orderly
  <2>2. Orderly(ctl', shutting_down) /\ ctl'.drain = "none"
    BY <1>1, <1>2, <1>4, <2>1, PostOrder
  <2>3. Orderly(ctl', shutting_down')
    BY <1>2, <2>2
  <2> QED
    BY <1>1, <1>2, <2>2, <2>3 DEF TInv
<1>8. \A u \in Range(ctl'.strand) : TaskFits(u)
  <2>1. Range(ctl'.strand) = Range(ctl.strand) \cup {t}
    BY <1>1, <1>5, GrownList
  <2> QED
    BY <1>1, <1>4, <2>1
<1>9. CInv'
  <2>1. (\A u \in Range(ctl.strand) : TaskFits(u))'
    BY <1>8 DEF TaskFits, OwnTask, IsReliable
  <2> QED
    BY <1>1, <1>2, <1>6, <1>7, <2>1 DEF CInv, SameQueue
<1>10. OwnPackets'
  BY <1>2, <1>6 DEF BInv, OwnPackets, Travelling, IsAck
<1>11. {last', sent', popped'} \subseteq [Ids -> Nat]
  <2>1. {last, sent, popped} \subseteq [Ids -> Nat]
    BY DEF BInv
  <2>2. sent' \in [Ids -> Nat]
    BY <1>2, <2>1
  <2> QED
    BY <1>2, <2>1, <2>2
<1>12. /\ Agreed(pending', ctl'.tx_queue, timeouts') /\ seq_counter' \in Numbers
       /\ ctl'.drain # "none" => pending' = Cleared
  BY <1>2, <1>6, <1>7 DEF BInv, SameQueue
<1>13. BInv'
  BY <1>9, <1>10, <1>11, <1>12, BKept
<1> QED
  BY <1>2, <1>5, <1>6, <1>13 DEF t

\* The frame in front, if it is reliable, is its sender's latest attempt.
LEMMA FrontFrame ==
  ASSUME BInv, ctl.writing, IsReliable(Head(ctl.tx_queue))
  PROVE  LET w == Head(ctl.tx_queue).write IN
           /\ w.id \in Ids /\ Sender!IsLatestWrite(w, pending[w.id])
           /\ w.msg = pending[w.id][1].msg /\ w.msg \in Nat
           /\ w.seq = pending[w.id][1].expected_seq
           /\ pending[w.id] # <<>> /\ pending[w.id] \in Queues
<1> DEFINE txq == ctl.tx_queue
           f == Head(txq)
           w == f.write
<1>1. /\ IsList(txq) /\ txq # <<>> /\ pending \in [Ids -> Queues] /\ OwnFrames(txq)
      /\ \A j \in Ids : Single(j, pending[j], txq)
  BY DEF BInv, CInv, Link, Agreed, InStep
<1>2. 1 \in 1 .. Len(txq) /\ f = txq[1]
  <2>1. Len(txq) \in Nat \ {0} /\ Head(txq) = txq[1]
    BY <1>1, ListShrinks
  <2> QED
    BY <2>1
<1>3. w.id \in Ids /\ IsOf(f, w.id)
  BY <1>1, <1>2 DEF OwnFrames, IsOf
<1>4. Sender!IsLatestWrite(w, pending[w.id])
  BY <1>1, <1>2, <1>3 DEF Single
<1> HIDE DEF w
<1>5. pending[w.id] # <<>> /\ Sender!WriteOf(w.id, pending[w.id][1]) = w
  BY <1>4 DEF Sender!IsLatestWrite
<1>6. pending[w.id][1] \in Sender!Entry /\ pending[w.id] \in Queues
  BY <1>1, <1>3, <1>5, FrontEntry
<1>7. w.msg = pending[w.id][1].msg /\ w.seq = pending[w.id][1].expected_seq
  BY <1>5 DEF Sender!WriteOf
<1>8. w.msg \in Nat
  BY <1>6, <1>7 DEF Sender!Entry
<1> QED
  BY <1>3, <1>4, <1>5, <1>6, <1>7, <1>8 DEF w

\* The bytes of the first frame leave, and the MCU answers.
LEMMA FlushBridge ==
  ASSUME BInv, BridgeFlush
  PROVE  /\ BInv' /\ UNCHANGED <<ctl, rest, pending, seq_counter, sent, popped, shutting_down>>
         /\ \/ /\ last' = last
               /\ \A x \in Travelling' : IsAck(x) => x \in Travelling
            \/ LET w == Head(ctl.tx_queue).write IN
                 /\ ctl.writing /\ IsReliable(Head(ctl.tx_queue))
                 /\ last' = [last EXCEPT ![w.id] = w.msg]
                 /\ Travelling' = Travelling \cup {AckPacket(w)}
<1> DEFINE f == Head(ctl.tx_queue)
           w == f.write
           a == AckPacket(w)
<1>1. /\ CInv /\ TInv /\ Link(ctl) /\ IsList(line) /\ OwnPackets
      /\ {last, sent, popped} \subseteq [Ids -> Nat]
  BY DEF BInv, CInv
<1>2. UNCHANGED <<ctl, rest, shutting_down, racers, pending, seq_counter, timeouts, sent, popped>>
  BY DEF BridgeFlush, Flush, senderVars, historyVars
<1>3. TInv'
  BY <1>1, <1>2, LineTasks
<1>4. /\ Agreed(pending', ctl'.tx_queue, timeouts') /\ seq_counter' \in Numbers
      /\ ctl'.drain # "none" => pending' = Cleared
  BY <1>2 DEF BInv
<1>5. ASSUME IsList(line') PROVE CInv'
  BY <1>1, <1>2, <1>3, <1>5 DEF CInv, TaskFits, OwnTask, IsReliable
<1>6. CASE ctl.writing /\ IsReliable(f)
  <2>1. last' = [last EXCEPT ![w.id] = w.msg] /\ line' = Append(line, a)
    BY <1>6 DEF BridgeFlush
  <2>2. w.id \in Ids /\ w.msg \in Nat
    BY <1>6, FrontFrame
  <2>3. a.key = w.id
    BY DEF AckPacket
  <2> HIDE DEF w, a, f
  <2>4. IsList(line') /\ Range(line') = Range(line) \cup {a}
    BY <1>1, <2>1, GrownList
  <2>5. Travelling' = Travelling \cup {a}
    BY <1>2, <2>4 DEF Travelling
  <2>6. OwnPackets'
    BY <1>1, <2>2, <2>3, <2>5 DEF OwnPackets, IsAck
  <2>7. last' \in [Ids -> Nat]
    BY <1>1, <2>1, <2>2
  <2>8. {last', sent', popped'} \subseteq [Ids -> Nat]
    BY <1>1, <1>2, <2>7
  <2>9. BInv'
    BY <1>4, <1>5, <2>4, <2>6, <2>8, BKept
  <2> QED
    BY <1>2, <1>6, <2>1, <2>5, <2>9 DEF w, a, f
<1>7. CASE ~ (ctl.writing /\ IsReliable(f))
  <2>1. /\ ctl.writing /\ ~ IsReliable(f) /\ line' = line \o Reply(f) /\ last' = last
    BY <1>7 DEF BridgeFlush, Flush, senderVars, historyVars
  <2> DEFINE probe == [id |-> "handshake", count |-> 0]
             echo == [id |-> "heartbeat", count |-> f.count]
             R == {probe, echo}
             S == Range(line) \cup R
  <2>2. Reply(f) \in Seq(R)
    <3>1. Reply(f) \in {<<>>, <<probe>>, <<echo>>}
      BY <2>1 DEF Reply, IsReliable
    <3> HIDE DEF probe, echo, f
    <3>2. <<>> \in Seq(R) /\ <<probe>> \in Seq(R) /\ <<echo>> \in Seq(R)
      BY EmptySeq
    <3> QED
      BY <3>1, <3>2
  <2>3. \A x \in R : ~ IsAck(x)
    BY DEF IsAck
  <2> HIDE DEF R
  <2>4. line \in Seq(S) /\ Reply(f) \in Seq(S)
    BY <1>1, <2>2 DEF IsList
  <2> HIDE DEF S, f
  <2>5. line' \in Seq(S)
    BY <2>1, <2>4, ConcatProperties
  <2>6. IsList(line') /\ Range(line') \subseteq S
    <3>1. \A i \in DOMAIN line' : line'[i] \in S
      BY <2>5
    <3> QED
      BY <2>5, <3>1, ListOf DEF Range
  <2>7. \A x \in Travelling' : IsAck(x) => x \in Travelling
    BY <1>2, <2>3, <2>6 DEF Travelling, S
  <2>8. OwnPackets'
    BY <1>1, <2>7 DEF OwnPackets, IsAck
  <2>9. {last', sent', popped'} \subseteq [Ids -> Nat]
    BY <1>1, <1>2, <2>1
  <2>10. BInv'
    BY <1>4, <1>5, <2>6, <2>8, <2>9, BKept
  <2> QED
    BY <1>2, <2>1, <2>7, <2>10
<1> QED
  BY <1>6, <1>7

\* One more message at the end of a queue.
LEMMA LongerQueue ==
  ASSUME NEW q \in Queues, NEW m \in Nat
  PROVE  LET r == Append(q, Sender!NewEntry(m)) IN
           /\ r \in Queues /\ r # <<>> /\ Len(q) \in Nat /\ Len(r) = Len(q) + 1
           /\ q # <<>> => r[1] = q[1] /\ Len(r) # 1
           /\ q = <<>> => r[1] = Sender!NewEntry(m) /\ Len(r) = 1
           /\ \A i \in 1 .. Len(q) : r[i] = q[i]
           /\ r[Len(q) + 1].msg = m
<1> DEFINE e == Sender!NewEntry(m)
           r == Append(q, e)
           n == Len(q)
<1>1. e \in Sender!Entry /\ Untouched(e) /\ e.msg = m
  BY NewIsUntouched
<1> HIDE DEF e
<1>2. q \in Seq(Sender!Entry) /\ \A i \in 2 .. n : Untouched(q[i])
  BY DEF Queues
<1>3. /\ r \in Seq(Sender!Entry) /\ n \in Nat /\ Len(r) = n + 1 /\ r[n + 1] = e
      /\ \A i \in 1 .. n : r[i] = q[i]
  BY <1>1, <1>2
<1>4. r # <<>>
  BY <1>3, EmptySeq
<1>5. q # <<>> => n # 0
  BY <1>2, EmptySeq
<1>6. q = <<>> => n = 0
  BY EmptySeq
<1> HIDE DEF r, n, Untouched
<1>7. \A i \in 2 .. n + 1 : (i \in 2 .. n /\ i \in 1 .. n) \/ i = n + 1
  BY <1>3
<1>8. \A i \in 2 .. Len(r) : Untouched(r[i])
  BY <1>1, <1>2, <1>3, <1>7
<1>9. r \in Queues
  BY <1>3, <1>8 DEF Queues
<1>10. q # <<>> => r[1] = q[1] /\ Len(r) # 1
  <2>1. q # <<>> => 1 \in 1 .. n /\ n + 1 # 1
    BY <1>3, <1>5
  <2> QED
    BY <1>3, <2>1
<1>11. q = <<>> => r[1] = e /\ Len(r) = 1
  <2>1. q = <<>> => n + 1 = 1
    BY <1>6
  <2> QED
    BY <1>3, <2>1
<1> QED
  BY <1>1, <1>3, <1>4, <1>9, <1>10, <1>11 DEF r, e, n

\* The first message leaves a queue.
LEMMA ShorterQueue ==
  ASSUME NEW q \in Queues, q # <<>>
  PROVE  LET r == Tail(q) IN
           /\ r \in Queues /\ Len(q) \in Nat \ {0} /\ Len(r) = Len(q) - 1
           /\ \A i \in 1 .. Len(q) - 1 : r[i] = q[i + 1]
           /\ r # <<>> => r[1] \in Sender!Entry /\ Untouched(r[1])
<1> DEFINE r == Tail(q)
           n == Len(q)
<1>1. q \in Seq(Sender!Entry) /\ \A i \in 2 .. n : Untouched(q[i])
  BY DEF Queues
<1> HIDE DEF Untouched
<1>2. /\ r \in Seq(Sender!Entry) /\ n \in Nat \ {0} /\ Len(r) = n - 1
      /\ \A i \in 1 .. n - 1 : r[i] = q[i + 1]
  BY <1>1, EmptySeq
<1> HIDE DEF r, n
<1>3. \A i \in 1 .. n - 1 : i + 1 \in 2 .. n
  BY <1>2
<1>4. \A i \in 1 .. n - 1 : Untouched(r[i])
  BY <1>1, <1>2, <1>3
<1>5. \A i \in 2 .. n - 1 : i \in 1 .. n - 1
  BY <1>2
<1>6. r \in Queues
  BY <1>2, <1>4, <1>5 DEF Queues
<1>7. r # <<>> => 1 \in 1 .. n - 1
  BY <1>2, EmptySeq
<1>8. r # <<>> => r[1] \in Sender!Entry /\ Untouched(r[1])
  BY <1>4, <1>6, <1>7, FrontEntry
<1> QED
  BY <1>2, <1>6, <1>8 DEF r, n

\* Queues with the same front fare the same.
LEMMA FrontDecides ==
  ASSUME NEW k, NEW q, NEW r, q # <<>>, r # <<>>, r[1] = q[1], NEW txq, NEW fired
  PROVE  /\ Single(k, q, txq) => Single(k, r, txq)
         /\ Awoken(k, q, txq, fired) => Awoken(k, r, txq, fired)
         /\ Numbered(q) => Numbered(r)
BY DEF Single, Awoken, Numbered, Sender!IsLatestWrite

\* The next number.
LEMMA NumberKept ==
  ASSUME seq_counter \in Numbers, NEW q, Number(q)
  PROVE  seq_counter' \in Numbers
<1>1. seq_counter \in Nat /\ SeqValues \in Nat \ {0}
  BY BridgeAssumption DEF Numbers, Sender!Seqs
<1>2. (seq_counter + 1) % SeqValues \in 0 .. SeqValues - 1
  BY <1>1, Remainder
<1>3. (seq_counter + 1) % SeqValues \in Numbers
  BY <1>2 DEF Numbers, Sender!Seqs
<1> QED
  BY <1>3 DEF Number

\* attempt_send posts no task.
LEMMA AttemptTasks ==
  ASSUME NEW c, Strands(c), c.drain # "waiting", NEW throws, NEW r,
         r = c \/ \E f : r = SendImpl(c, f, throws)
  PROVE  SameTasks(c, r)
<1>1. SameTasks(c, c)
  BY DEF SameTasks
<1> QED
  BY <1>1, SendTasks

\* What the task of message m of id k does to the queues, while the node lives.
Queued(k, m) ==
  /\ SameMessages(Append(pending[k], Sender!NewEntry(m)), pending'[k])
  /\ \A j \in Ids \ {k} : Alike(pending[j], pending'[j])
  /\ pending'[k][1].expected_seq =
       IF pending[k] = <<>> THEN seq_counter ELSE pending[k][1].expected_seq

\* The task of reliable_send.
LEMMA EnqueueBridge ==
  ASSUME BInv, NEW throws \in BOOLEAN, RunReliable(throws)
  PROVE  LET t == Head(ctl.strand) IN
           /\ BInv' /\ Next_is("reliable") /\ t.key \in Ids /\ t.msg \in Nat
           /\ ctl'.strand = Tail(ctl.strand) /\ Travelling' \subseteq Travelling
           /\ UNCHANGED <<historyVars, shutting_down>>
           /\ ~ shutting_down => Queued(t.key, t.msg)
<1> DEFINE t == Head(ctl.strand)
           k == t.key
           m == t.msg
           q == Append(pending[k], Sender!NewEntry(m))
           p == [pending EXCEPT ![k] = q]
           txq == ctl.tx_queue
           r == IF Len(q) = 1 THEN Attempt(Popped, p, k, throws)
                              ELSE [ctl |-> Popped, pending |-> p]
<1>1. /\ CInv /\ TInv /\ Link(ctl) /\ pending \in [Ids -> Queues] /\ OwnFrames(txq)
      /\ \A j \in Ids : Single(j, pending[j], txq) /\ Awoken(j, pending[j], txq, timeouts)
      /\ \A j \in Ids : Numbered(pending[j])
      /\ IsList(ctl.ring) /\ IsList(line)
  BY DEF BInv, CInv, Agreed, InStep
<1>2. /\ Next_is("reliable") /\ ctl' = r.ctl /\ pending' = r.pending
      /\ IF Len(q) = 1 THEN Number(q) ELSE UNCHANGED seq_counter
      /\ UNCHANGED <<rest, line, shutting_down, racers, timeouts, historyVars>>
  BY DEF RunReliable, envVars
<1>3. /\ Link(Popped) /\ Strands(Popped) /\ SameQueue(ctl, Popped) /\ Popped.ring = <<>>
      /\ Popped.strand = Tail(ctl.strand) /\ ctl.strand # <<>> /\ TaskFits(t) /\ t.do = "reliable"
  BY <1>1, <1>2, Taken
<1>4. k \in Ids /\ m \in Nat
  BY <1>3 DEF TaskFits, OwnTask
<1>5. Orderly(Popped, shutting_down) /\ Popped.drain = "none"
  BY <1>1, <1>2, PoppedOrder
<1> HIDE DEF t, k, m
<1>6. pending[k] \in Queues
  BY <1>1, <1>4
<1>7. /\ q \in Queues /\ q # <<>>
      /\ pending[k] # <<>> => q[1] = pending[k][1] /\ Len(q) # 1
      /\ pending[k] = <<>> => q[1] = Sender!NewEntry(m) /\ Len(q) = 1
  BY <1>4, <1>6, LongerQueue
<1> HIDE DEF q
<1>8. p \in [Ids -> Queues] /\ p[k] = q /\ \A j \in Ids \ {k} : p[j] = pending[j]
  BY <1>1, <1>4, <1>7
<1> HIDE DEF p
<1>9. Popped.tx_queue = txq
  BY <1>3 DEF SameQueue
<1> HIDE DEF txq, r
<1> DEFINE Done ==
             /\ Link(ctl') /\ Agreed(pending', ctl'.tx_queue, timeouts) /\ ctl'.ring = <<>>
             /\ SameTasks(Popped, ctl') /\ seq_counter' \in Numbers
             /\ ~ shutting_down => Queued(k, m)
<1>10. ASSUME pending[k] = <<>> PROVE Done
  <2> DEFINE a == Attempt(Popped, p, k, throws)
  <2>1. r = a /\ Number(q)
    BY <1>2, <1>7, <1>10 DEF r
  <2>2. NoneOf(k, txq)
    BY <1>1, <1>4, <1>10, IdleFront
  <2>3. ~ q[1].send_in_progress /\ ~ q[1].awaiting_ack /\ ~ q[1].seq_assigned
    BY <1>4, <1>7, <1>10, NewIsUntouched DEF Untouched
  <2>4. \A j \in Ids : Single(j, p[j], txq)
    BY <1>1, <1>8, <2>2, NoneIsSingle
  <2>5. \A j \in Ids : j # k \/ (p[j] # <<>> /\ p[j][1].send_in_progress)
          => Awoken(j, p[j], txq, timeouts) /\ Numbered(p[j])
    BY <1>1, <1>8, <2>3
  <2>6. Attemptable(k, p, Popped.tx_queue, timeouts)
    BY <1>1, <1>8, <1>9, <2>3, <2>4, <2>5 DEF Attemptable
  <2>7. seq_counter \in Numbers
    BY DEF BInv
  <2>8. /\ Link(a.ctl) /\ Agreed(a.pending, a.ctl.tx_queue, timeouts)
        /\ a.ctl = Popped \/ \E f : a.ctl = SendImpl(Popped, f, throws)
        /\ a.ctl.ring = Popped.ring \/ (Shut(a.ctl) /\ a.ctl.ring = <<>>)
        /\ ~ shutting_down => Attempted(k, p, a.pending)
    BY <1>3, <1>4, <2>6, <2>7, AttemptAgrees
  <2> HIDE DEF a
  <2>9. SameTasks(Popped, a.ctl)
    BY <1>3, <1>5, <2>8, AttemptTasks
  <2>10. seq_counter' \in Numbers
    BY <2>1, <2>7, NumberKept
  <2>11. ASSUME Attempted(k, p, a.pending) PROVE Queued(k, m)
    <3>1. /\ \A j \in Ids : SameMessages(p[j], a.pending[j])
          /\ \A j \in Ids \ {k} : Alike(p[j], a.pending[j])
          /\ a.pending[k][1].expected_seq = seq_counter
      BY <1>7, <1>8, <2>3, <2>11 DEF Attempted
    <3>2. pending' = a.pending
      BY <1>2, <2>1
    <3>3. SameMessages(q, pending'[k]) /\ \A j \in Ids \ {k} : Alike(pending[j], pending'[j])
      BY <1>4, <1>8, <3>1, <3>2
    <3> QED
      BY <1>10, <3>1, <3>2, <3>3 DEF Queued, q
  <2>12. /\ Link(ctl') /\ Agreed(pending', ctl'.tx_queue, timeouts) /\ ctl'.ring = <<>>
         /\ SameTasks(Popped, ctl')
    BY <1>2, <1>3, <2>1, <2>8, <2>9
  <2> QED
    BY <1>10, <2>8, <2>10, <2>11, <2>12
<1>11. ASSUME pending[k] # <<>> PROVE Done
  <2>1. r.ctl = Popped /\ r.pending = p
    BY <1>7, <1>11 DEF r
  <2>2. \A j \in Ids : Single(j, p[j], txq) /\ Awoken(j, p[j], txq, timeouts) /\ Numbered(p[j])
    BY <1>1, <1>4, <1>7, <1>8, <1>11, FrontDecides
  <2>3. Agreed(p, txq, timeouts)
    BY <1>1, <1>8, <2>2 DEF Agreed, InStep
  <2>4. /\ Link(ctl') /\ Agreed(pending', ctl'.tx_queue, timeouts) /\ ctl'.ring = <<>>
        /\ SameTasks(Popped, ctl')
    BY <1>2, <1>3, <1>9, <2>1, <2>3 DEF SameTasks
  <2>5. Queued(k, m)
    <3>1. pending' = p
      BY <1>2, <2>1
    <3>2. SameMessages(q, p[k])
      BY <1>8 DEF SameMessages
    <3> QED
      BY <1>7, <1>8, <1>11, <3>1, <3>2, AlikeItself DEF Queued, q
  <2>6. seq_counter' \in Numbers
    BY <1>2, <1>7, <1>11 DEF BInv
  <2> QED
    BY <2>4, <2>5, <2>6
<1>12. /\ Link(ctl') /\ Agreed(pending', ctl'.tx_queue, timeouts) /\ ctl'.ring = <<>>
       /\ SameTasks(Popped, ctl') /\ seq_counter' \in Numbers
       /\ ~ shutting_down => Queued(k, m)
  <2>1. Done
    BY <1>10, <1>11
  <2> QED
    BY <2>1
<1>13. TInv' /\ ctl'.drain = "none" /\ ctl'.strand = Tail(ctl.strand)
  BY <1>1, <1>2, <1>3, <1>5, <1>12, WorkingStep DEF SameTasks
<1>14. Travelling' \subseteq Travelling
  BY <1>2, <1>12, NoneIsList DEF Travelling
<1>15. CInv'
  <2>1. IsList(ctl.strand) /\ \A u \in Range(ctl.strand) : TaskFits(u)
    BY <1>1 DEF CInv, TInv, Orderly
  <2>2. Range(Tail(ctl.strand)) \subseteq Range(ctl.strand)
    BY <1>3, <2>1, ShrunkList
  <2>3. \A u \in Range(ctl'.strand) : TaskFits(u)
    BY <1>13, <2>1, <2>2
  <2>4. (\A u \in Range(ctl.strand) : TaskFits(u))'
    BY <2>3 DEF TaskFits, OwnTask, IsReliable
  <2> QED
    BY <1>1, <1>2, <1>12, <1>13, <2>4, NoneIsList DEF CInv
<1>16. OwnPackets'
  BY <1>14 DEF BInv, OwnPackets, IsAck
<1>17. {last', sent', popped'} \subseteq [Ids -> Nat] /\ timeouts' = timeouts
  BY <1>2 DEF BInv, historyVars
<1>18. BInv'
  BY <1>12, <1>13, <1>15, <1>16, <1>17, BKept
<1> QED
  BY <1>2, <1>4, <1>12, <1>13, <1>14, <1>18 DEF t, k, m

\* The handler of a retry timer.
LEMMA RetryBridge ==
  ASSUME BInv, NEW k \in Ids, NEW s, NEW throws \in BOOLEAN, RunRetry(k, s, throws)
  PROVE  BInv' /\ Gentle
<1> DEFINE txq == ctl.tx_queue
           o == pending[k]
           e == Sender!TimedOut(o[1])
           q == Sender!WithFront(o, e)
           p == [pending EXCEPT ![k] = q]
           r == Attempt(ctl, p, k, throws)
           fired == timeouts \ {<<k, s>>}
           Expected == o # <<>> /\ o[1].expected_seq = s
           Done ==
             /\ Link(ctl') /\ Agreed(pending', ctl'.tx_queue, fired)
             /\ Carries /\ TInv' /\ seq_counter' = seq_counter
             /\ ctl'.drain # "none" => pending' = Cleared
             /\ ~ shutting_down => \A j \in Ids : Alike(pending[j], pending'[j])
<1>1. /\ CInv /\ TInv /\ Link(ctl) /\ pending \in [Ids -> Queues] /\ OwnFrames(txq)
      /\ \A j \in Ids : Single(j, pending[j], txq) /\ Awoken(j, pending[j], txq, timeouts)
      /\ \A j \in Ids : Numbered(pending[j])
      /\ Orderly(ctl, shutting_down) /\ Strands(ctl)
  BY DEF BInv, CInv, Agreed, InStep, TInv, Orderly
<1>2. /\ timeouts' = fired /\ ctl.ring = <<>>
      /\ UNCHANGED <<rest, line, shutting_down, racers, historyVars>>
      /\ Expected => ctl' = r.ctl /\ pending' = r.pending /\ Number(q)
      /\ ~ Expected => UNCHANGED <<ctl, pending, seq_counter>>
  BY DEF RunRetry, StrandFree, Handling, envVars
<1>3. \A j \in Ids \ {k} : Awoken(j, pending[j], txq, fired)
  <2> SUFFICES ASSUME NEW j \in Ids \ {k}, pending[j] # <<>>, ~ pending[j][1].send_in_progress,
                      <<j, pending[j][1].expected_seq>> \in timeouts
               PROVE  <<j, pending[j][1].expected_seq>> \in fired
    BY <1>1 DEF Awoken
  <2> QED
    OBVIOUS
<1> HIDE DEF txq
<1>4. ASSUME ~ Expected PROVE Done
  <2>1. Awoken(k, o, txq, fired)
    <3>1. Awoken(k, o, txq, timeouts)
      BY <1>1
    <3>2. o # <<>> => <<k, o[1].expected_seq>> # <<k, s>>
      BY <1>4
    <3> QED
      BY <3>1, <3>2 DEF Awoken
  <2> HIDE DEF fired
  <2>2. Agreed(pending, txq, fired)
    BY <1>1, <1>3, <2>1 DEF Agreed, InStep
  <2>3. UNCHANGED <<ctl, pending, seq_counter, rest, line, shutting_down, racers>>
    BY <1>2, <1>4
  <2>4. Carries /\ TInv'
    BY <1>1, <2>3, StillCarries, LineTasks
  <2> QED
    BY <1>1, <2>2, <2>3, <2>4, AlikeItself DEF BInv, txq
<1>5. ASSUME Expected PROVE Done
  <2>1. ctl' = r.ctl /\ pending' = r.pending /\ Number(q) /\ o # <<>>
    BY <1>2, <1>5
  <2>2. o \in Queues /\ o[1] \in Sender!Entry
    BY <1>1, <2>1, FrontEntry
  <2>3. /\ e \in Sender!Entry /\ e.msg = o[1].msg /\ e.seq_assigned = o[1].seq_assigned
        /\ e.expected_seq = o[1].expected_seq /\ e.send_generation = o[1].send_generation
        /\ e.send_in_progress = o[1].send_in_progress /\ ~ e.awaiting_ack
    BY <2>2, TimedOutEntry
  <2> HIDE DEF e
  <2>4. q \in Queues /\ q # <<>> /\ q[1] = e /\ Alike(o, q)
    BY <2>1, <2>2, <2>3, FrontReplaced, FrontAlike
  <2> HIDE DEF q
  <2>5. p \in [Ids -> Queues] /\ p[k] = q /\ \A j \in Ids \ {k} : p[j] = pending[j]
    BY <1>1, <2>4
  <2> HIDE DEF p
  <2>6. \A w : Sender!WriteOf(w, e) = Sender!WriteOf(w, o[1])
    BY <2>3 DEF Sender!WriteOf
  <2>7. Single(k, q, txq)
    <3>1. Single(k, o, txq)
      BY <1>1
    <3>2. \A w : Sender!IsLatestWrite(w, o) => Sender!IsLatestWrite(w, q)
      BY <2>1, <2>3, <2>4, <2>6 DEF Sender!IsLatestWrite
    <3> QED
      BY <3>1, <3>2 DEF Single
  <2>8. Numbered(q) /\ e.seq_assigned
    BY <1>1, <2>1, <2>3, <2>4 DEF Numbered
  <2>9. q[1].send_in_progress => Awoken(k, q, txq, fired)
    <3>1. Awoken(k, o, txq, timeouts)
      BY <1>1
    <3> QED
      BY <2>1, <2>3, <2>4, <2>6, <3>1 DEF Awoken
  <2> HIDE DEF o, fired
  <2>10. \A j \in Ids : Single(j, p[j], txq)
    BY <1>1, <2>5, <2>7
  <2>11. \A j \in Ids : j # k \/ (p[j] # <<>> /\ p[j][1].send_in_progress)
           => Awoken(j, p[j], txq, fired) /\ Numbered(p[j])
    BY <1>1, <1>3, <2>5, <2>8, <2>9
  <2>12. Attemptable(k, p, ctl.tx_queue, fired)
    BY <1>1, <2>3, <2>4, <2>5, <2>10, <2>11 DEF Attemptable, txq
  <2>13. /\ Link(r.ctl) /\ Agreed(r.pending, r.ctl.tx_queue, fired)
         /\ r.ctl = ctl \/ \E f : r.ctl = SendImpl(ctl, f, throws)
         /\ r.ctl.ring = ctl.ring \/ (Shut(r.ctl) /\ r.ctl.ring = <<>>)
         /\ ~ shutting_down => Attempted(k, p, r.pending)
    BY <1>1, <2>12, AttemptAgrees DEF BInv
  <2> HIDE DEF r
  <2>14. ctl.drain = "none"
    <3>1. Cleared[k] = <<>>
      BY ClearedInStep
    <3> QED
      BY <2>1, <3>1 DEF BInv, o
  <2>15. SameTasks(ctl, ctl') /\ ctl'.ring = <<>>
    BY <1>1, <1>2, <2>1, <2>13, <2>14, AttemptTasks
  <2>16. TInv' /\ ctl'.drain = "none"
    BY <1>1, <1>2, <2>14, <2>15, WorkingStep
  <2>17. Carries
    <3>1. Moved(ctl.strand, ctl'.strand)
      BY <2>15 DEF SameTasks, Moved, Grown
    <3> QED
      BY <1>1, <1>2, <2>15, <3>1, EmptyCarries
  <2>18. seq_counter' = seq_counter
    BY <2>1, <2>4, <2>8 DEF Number
  <2>19. ASSUME Attempted(k, p, r.pending) PROVE \A j \in Ids : Alike(pending[j], pending'[j])
    <3>1. /\ SameMessages(q, pending'[k])
          /\ \A j \in Ids \ {k} : Alike(pending[j], pending'[j])
          /\ pending'[k][1].expected_seq = q[1].expected_seq
      BY <2>1, <2>4, <2>5, <2>8, <2>19 DEF Attempted
    <3>2. Numbered(pending'[k])
      BY <2>1, <2>13 DEF Agreed
    <3>3. Alike(q, pending'[k])
      BY <2>4, <2>8, <3>1, <3>2 DEF Alike, SameMessages, Numbered
    <3>4. Alike(pending[k], pending'[k])
      BY <2>4, <3>3, AlikeAlike DEF o
    <3> QED
      BY <3>1, <3>4
  <2> QED
    BY <2>1, <2>13, <2>16, <2>17, <2>18, <2>19
<1>6. Done
  BY <1>4, <1>5
<1> HIDE DEF fired
<1>7. Gentle
  BY <1>2, <1>6 DEF Gentle, Carries
<1> QED
  BY <1>1, <1>2, <1>6, <1>7, CarriedInv, GentleKept

\* What an ACK for the front of the queue of k does while the node lives.
Advanced(k, p) ==
  /\ SameMessages(Tail(pending[k]), p[k])
  /\ \A j \in Ids \ {k} : Alike(pending[j], p[j])
  /\ Tail(pending[k]) # <<>> => p[k][1].expected_seq = seq_counter

\* attempt_send for the message after the one acknowledged.
LEMMA AdvanceAgrees ==
  ASSUME BInv, NEW c, Link(c), c.tx_queue = ctl.tx_queue,
         NEW a, a.key \in Ids, Sender!Accepts(a, pending[a.key]), NEW throws,
         Number(Tail(pending[a.key]))
  PROVE  LET p == [pending EXCEPT ![a.key] = Tail(pending[a.key])]
             r == Attempt(c, p, a.key, throws)
         IN  /\ Link(r.ctl) /\ Agreed(r.pending, r.ctl.tx_queue, timeouts)
             /\ r.ctl = c \/ \E f : r.ctl = SendImpl(c, f, throws)
             /\ r.ctl.ring = c.ring \/ (Shut(r.ctl) /\ r.ctl.ring = <<>>)
             /\ ~ shutting_down => Advanced(a.key, r.pending)
             /\ seq_counter' \in Numbers
<1> DEFINE k == a.key
           txq == ctl.tx_queue
           o == pending[k]
           q == Tail(o)
           p == [pending EXCEPT ![k] = q]
           r == Attempt(c, p, k, throws)
<1>1. /\ pending \in [Ids -> Queues] /\ OwnFrames(txq) /\ seq_counter \in Numbers
      /\ \A j \in Ids : Single(j, pending[j], txq) /\ Awoken(j, pending[j], txq, timeouts)
      /\ \A j \in Ids : Numbered(pending[j])
  BY DEF BInv, Agreed, InStep
<1>2. k \in Ids /\ o \in Queues /\ o # <<>> /\ o[1].awaiting_ack
  BY <1>1 DEF Sender!Accepts
<1>3. q \in Queues /\ (q # <<>> => Untouched(q[1]))
  BY <1>2, ShorterQueue
<1>4. q # <<>> => ~ q[1].send_in_progress /\ ~ q[1].awaiting_ack /\ ~ q[1].seq_assigned
  BY <1>3 DEF Untouched
<1>5. seq_counter' \in Numbers
  BY <1>1, NumberKept
<1> HIDE DEF k
<1>6. NoneOf(k, txq)
  <2>1. Single(k, o, txq)
    BY <1>1, <1>2
  <2> QED
    BY <1>2, <2>1 DEF Single, NoneOf, Sender!IsLatestWrite
<1> HIDE DEF q
<1>7. p \in [Ids -> Queues] /\ p[k] = q /\ \A j \in Ids \ {k} : p[j] = pending[j]
  BY <1>1, <1>2, <1>3
<1> HIDE DEF p, txq
<1>8. \A j \in Ids : Single(j, p[j], txq)
  BY <1>1, <1>6, <1>7, NoneIsSingle
<1>9. \A j \in Ids : j # k \/ (p[j] # <<>> /\ p[j][1].send_in_progress)
        => Awoken(j, p[j], txq, timeouts) /\ Numbered(p[j])
  BY <1>1, <1>4, <1>7
<1>10. Attemptable(k, p, c.tx_queue, timeouts)
  BY <1>1, <1>4, <1>7, <1>8, <1>9 DEF Attemptable, txq
<1>11. /\ Link(r.ctl) /\ Agreed(r.pending, r.ctl.tx_queue, timeouts)
       /\ r.ctl = c \/ \E f : r.ctl = SendImpl(c, f, throws)
       /\ r.ctl.ring = c.ring \/ (Shut(r.ctl) /\ r.ctl.ring = <<>>)
       /\ ~ shutting_down => Attempted(k, p, r.pending)
  BY <1>1, <1>2, <1>10, AttemptAgrees
<1> HIDE DEF r
<1>12. ASSUME Attempted(k, p, r.pending) PROVE Advanced(k, r.pending)
  <2>1. /\ SameMessages(q, r.pending[k])
        /\ \A j \in Ids \ {k} : Alike(pending[j], r.pending[j])
        /\ q # <<>> => r.pending[k][1].expected_seq = seq_counter
    BY <1>2, <1>4, <1>7, <1>12 DEF Attempted
  <2> QED
    BY <2>1 DEF Advanced, q, o
<1> QED
  BY <1>5, <1>11, <1>12 DEF r, p, q, o, k

\* An ACK is handled.
LEMMA AckBridge ==
  ASSUME BInv, NEW sendThrows \in BOOLEAN, NEW throws \in BOOLEAN,
         ParseReliableAck(sendThrows, throws)
  PROVE  LET a == Head(ctl.ring)
             k == a.key
         IN  /\ BInv'
             /\ \/ Gentle
                \/ /\ a \in Travelling /\ IsAck(a) /\ k \in Ids
                   /\ Sender!Accepts(a, pending[k])
                   /\ Moved(ctl.strand, ctl'.strand) /\ Travelling' \subseteq Travelling
                   /\ popped' = [popped EXCEPT ![k] = @ + 1]
                   /\ UNCHANGED <<last, sent, shutting_down>>
                   /\ ~ shutting_down => Advanced(k, pending')
<1> DEFINE a == Head(ctl.ring)
           k == a.key
           c == [ctl EXCEPT !.ring = Tail(@)]
           done == Sender!Accepts(a, pending[k])
           p == [pending EXCEPT ![k] = Tail(pending[k])]
           r == IF done THEN Attempt(c, p, k, sendThrows)
                        ELSE [ctl |-> c, pending |-> pending]
           rc == r.ctl
           rp == r.pending
           s == IF rc.is_connected /\ ~ ctl'.is_connected
                THEN AfterReset(rp, rc.tx_queue) ELSE rp
<1>1. /\ CInv /\ TInv /\ Link(ctl) /\ Agreed(pending, ctl.tx_queue, timeouts)
      /\ IsList(rest) /\ IsList(line) /\ seq_counter \in Numbers
      /\ Orderly(ctl, shutting_down) /\ Strands(ctl)
      /\ {last, sent, popped} \subseteq [Ids -> Nat]
  BY DEF BInv, CInv, TInv, Orderly
<1>2. /\ ctl.ring # <<>> /\ IsAck(a)
      /\ popped' = IF done THEN [popped EXCEPT ![k] = @ + 1] ELSE popped
      /\ IF done THEN Number(Tail(pending[k])) ELSE UNCHANGED seq_counter
      /\ Continue(rc, rest, throws) /\ pending' = s
      /\ UNCHANGED <<line, shutting_down, racers, timeouts, last, sent>>
  BY DEF ParseReliableAck, envVars
<1>3. /\ Link(c) /\ SameTasks(ctl, c) /\ ctl.drain = "none" /\ IsList(c.ring)
      /\ Range(c.ring) \subseteq Range(ctl.ring) /\ a \in Range(ctl.ring)
      /\ c.tx_queue = ctl.tx_queue
  BY <1>1, <1>2, PacketTaken
<1>4. a \in Travelling /\ k \in Ids
  BY <1>2, <1>3 DEF BInv, OwnPackets, Travelling
<1> HIDE DEF c, a, k
<1> DEFINE Mid ==
             /\ Link(rc) /\ Agreed(rp, rc.tx_queue, timeouts)
             /\ rc = c \/ \E f : rc = SendImpl(c, f, sendThrows)
             /\ rc.ring = c.ring \/ rc.ring = <<>>
             /\ seq_counter' \in Numbers
             /\ done /\ ~ shutting_down => Advanced(k, rp)
             /\ ~ done => rp = pending /\ seq_counter' = seq_counter
<1>5. Mid
  <2>1. ASSUME done PROVE Mid
    <3> DEFINE b == Attempt(c, p, k, sendThrows)
    <3>1. r = b /\ Number(Tail(pending[k]))
      BY <1>2, <2>1
    <3>2. /\ Link(b.ctl) /\ Agreed(b.pending, b.ctl.tx_queue, timeouts)
          /\ b.ctl = c \/ \E f : b.ctl = SendImpl(c, f, sendThrows)
          /\ b.ctl.ring = c.ring \/ (Shut(b.ctl) /\ b.ctl.ring = <<>>)
          /\ ~ shutting_down => Advanced(k, b.pending)
          /\ seq_counter' \in Numbers
      BY <1>3, <1>4, <2>1, <3>1, AdvanceAgrees DEF k
    <3> HIDE DEF b, r, done
    <3> QED
      BY <2>1, <3>1, <3>2
  <2>2. ASSUME ~ done PROVE Mid
    <3>1. r = [ctl |-> c, pending |-> pending] /\ seq_counter' = seq_counter
      BY <1>2, <2>2
    <3>2. rc = c /\ rp = pending
      BY <3>1
    <3> HIDE DEF r, done
    <3> QED
      BY <1>1, <1>3, <2>2, <3>1, <3>2
  <2> QED
    BY <2>1, <2>2
<1> HIDE DEF r
<1>6. SameTasks(ctl, rc) /\ IsList(rc.ring) /\ Range(rc.ring) \subseteq Range(ctl.ring)
  <2>1. SameTasks(c, rc)
    BY <1>3, <1>5, AttemptTasks DEF SameTasks
  <2> QED
    BY <1>3, <1>5, <2>1, NoneIsList DEF SameTasks
<1>7. /\ SameQueue(rc, ctl') \/ (rc.is_connected /\ Shut(ctl'))
      /\ IsList(ctl'.ring) /\ IsList(rest')
      /\ Range(ctl'.ring) \cup Range(rest') \subseteq Range(rc.ring) \cup Range(rest)
  BY <1>1, <1>2, <1>5, <1>6, ContinueLink
<1>8. SameTasks(rc, ctl')
  BY <1>2, <1>3, <1>6, ContinueTasks DEF SameTasks
<1>9. Carries
  <2>1. Moved(ctl.strand, ctl'.strand)
    BY <1>6, <1>8 DEF SameTasks, Moved, Grown
  <2>2. Travelling' \subseteq Travelling
    BY <1>2, <1>6, <1>7 DEF Travelling
  <2> QED
    BY <1>1, <1>2, <1>7, <2>1, <2>2 DEF Carries
<1>10. TInv' /\ ctl'.drain = "none"
  <2>1. SameTasks(ctl, ctl')
    BY <1>6, <1>8 DEF SameTasks
  <2> QED
    BY <1>1, <1>2, <1>3, <2>1, WorkingStep
<1>11. /\ Agreed(s, ctl'.tx_queue, timeouts) /\ Link(ctl')
       /\ ~ shutting_down => \A j \in Ids : Alike(rp[j], s[j])
  <2>1. Adds(rc, ctl') /\ Link(rc) /\ Agreed(rp, rc.tx_queue, timeouts)
    BY <1>5, <1>7 DEF Adds
  <2> HIDE DEF rc, rp
  <2> QED
    BY <2>1, AddedAgrees
<1> HIDE DEF s
<1>12. CInv'
  BY <1>1, <1>9, <1>10, <1>11, CarriedInv
<1>13. BInv'
  <2>1. OwnPackets'
    BY <1>9 DEF BInv, OwnPackets, Carries, IsAck
  <2>2. {last', sent', popped'} \subseteq [Ids -> Nat]
    <3>1. popped' \in [Ids -> Nat]
      BY <1>1, <1>2, <1>4
    <3> QED
      BY <1>1, <1>2, <3>1
  <2>3. Agreed(pending', ctl'.tx_queue, timeouts')
    BY <1>2, <1>11
  <2> QED
    BY <1>5, <1>10, <1>12, <2>1, <2>2, <2>3, BKept
<1>14. CASE ~ done
  <2>1. ~ shutting_down => \A j \in Ids : Alike(pending[j], pending'[j])
    BY <1>2, <1>5, <1>11, <1>14
  <2>2. UNCHANGED <<seq_counter, historyVars>>
    BY <1>2, <1>5, <1>14 DEF historyVars
  <2>3. Gentle
    BY <1>9, <2>1, <2>2 DEF Gentle, Carries
  <2> QED
    BY <1>13, <2>3
<1>15. CASE done
  <2>1. ASSUME ~ shutting_down PROVE Advanced(k, pending')
    <3>1. Advanced(k, rp) /\ \A j \in Ids : Alike(rp[j], pending'[j])
      BY <1>2, <1>5, <1>11, <1>15, <2>1
    <3> DEFINE q == Tail(pending[k])
    <3>2. /\ SameMessages(q, rp[k]) /\ Alike(rp[k], pending'[k])
          /\ q # <<>> => rp[k][1].expected_seq = seq_counter
      BY <1>4, <3>1 DEF Advanced
    <3>3. \A j \in Ids \ {k} : Alike(pending[j], pending'[j])
      BY <3>1, AlikeAlike DEF Advanced
    <3> HIDE DEF q, rp
    <3>4. SameMessages(q, pending'[k])
      BY <3>2, AlikeMessages
    <3>5. q # <<>> => pending'[k][1].expected_seq = seq_counter
      BY <3>2 DEF SameMessages, Alike
    <3> QED
      BY <3>3, <3>4, <3>5 DEF Advanced, q
  <2>2. popped' = [popped EXCEPT ![k] = @ + 1]
    BY <1>2, <1>15
  <2> HIDE DEF done
  <2> QED
    BY <1>2, <1>4, <1>9, <1>13, <1>15, <2>1, <2>2 DEF Carries, done, k, a
<1> QED
  BY <1>14, <1>15

-----------------------------------------------------------------------------
(* The node from its start.                                                *)

\* The first state.
LEMMA BridgeBegins == BridgeInit => BInv
<1> SUFFICES ASSUME BridgeInit PROVE BInv
  OBVIOUS
<1>1. /\ Init /\ pending = Cleared /\ seq_counter = 0 /\ timeouts = {}
      /\ last = [k \in Ids |-> 0] /\ sent = [k \in Ids |-> 0]
      /\ popped = [k \in Ids |-> 0]
  BY DEF BridgeInit
<1>2. TInv
  BY <1>1, FirstTasks
<1>3. /\ Link(ctl) /\ ctl.strand = <<>> /\ ctl.ring = <<>> /\ ctl.drain = "none"
      /\ ctl.tx_queue = <<>>
  <2>1. PICK strict \in HeartbeatModes :
          ctl = [is_connected |-> FALSE, strict_heartbeat |-> strict,
                 state |-> FirstState, ready_state |-> FALSE,
                 tx_queue |-> <<>>, tx_write_in_progress |-> FALSE,
                 pending_serial_ops |-> 0, shutdown_requested |-> FALSE,
                 heartbeat_count |-> 0, last_heartbeat_tx_count |-> 0,
                 awaiting_heartbeat_ack |-> FALSE, ring |-> <<>>,
                 drain |-> "none", strand |-> <<>>,
                 reading |-> FALSE, writing |-> FALSE, stale_ops |-> 0,
                 called |-> [a \in 1 .. MaxAttempts |-> 0]]
    BY <1>1 DEF Init
  <2>2. Fields(ctl) /\ ~ ctl.writing /\ ctl.tx_queue = <<>>
    BY <2>1 DEF Fields, Strands
  <2> QED
    BY <2>1, <2>2, NoneIsList DEF Link
<1>4. rest = <<>> /\ line = <<>>
  BY <1>1 DEF Init
<1>5. CInv
  BY <1>2, <1>3, <1>4, NoneIsList DEF CInv
<1>6. OwnPackets
  BY <1>3, <1>4, NoneIsList DEF OwnPackets, Travelling
<1>7. Agreed(pending, ctl.tx_queue, timeouts)
  BY <1>1, <1>3, NoneIsList, ClearedInStep DEF Agreed, OwnFrames, Numbered
<1>8. seq_counter \in Numbers
  BY <1>1, BridgeAssumption DEF Numbers, Sender!Seqs
<1>9. {last, sent, popped} \subseteq [Ids -> Nat]
  BY <1>1
<1> QED
  BY <1>1, <1>5, <1>6, <1>7, <1>8, <1>9 DEF BInv

\* A stuttering step.
LEMMA BridgeStutters == BInv /\ UNCHANGED bridgeVars => BInv' /\ Gentle
<1> SUFFICES ASSUME BInv, UNCHANGED bridgeVars PROVE BInv' /\ Gentle
  OBVIOUS
<1>1. /\ UNCHANGED <<ctl, rest, line, shutting_down, racers>>
      /\ UNCHANGED <<pending, seq_counter, timeouts, last, sent, popped>>
  BY DEF bridgeVars, vars, envVars, senderVars, historyVars
<1>2. BInv'
  <2>1. TInv'
    BY <1>1 DEF BInv, CInv, TInv, Orderly
  <2>2. CInv' /\ OwnPackets'
    BY <1>1, <2>1 DEF BInv, CInv, OwnPackets, Travelling, TaskFits, OwnTask, IsReliable, IsAck
  <2>3. /\ seq_counter' \in Numbers /\ {last', sent', popped'} \subseteq [Ids -> Nat]
        /\ Agreed(pending', ctl'.tx_queue, timeouts')
        /\ ctl'.drain # "none" => pending' = Cleared
    BY <1>1 DEF BInv
  <2> QED
    BY <2>2, <2>3, BKept
<1>3. Gentle
  BY <1>1, AlikeItself DEF Gentle, Moved, Grown, Travelling, historyVars
<1> QED
  BY <1>2, <1>3

\* The steps that are more than gentle, each with what it does besides.
Special ==
  \/ \E k \in Ids : SendReliable(k)
  \/ \E throws \in BOOLEAN : RunReliable(throws)
  \/ \E sendThrows, throws \in BOOLEAN : ParseReliableAck(sendThrows, throws)
  \/ BridgeFlush

\* Every step of the node keeps its invariant.
LEMMA BridgeKeeps ==
  ASSUME BInv, [BridgeNext]_bridgeVars
  PROVE  BInv' /\ (Gentle \/ Special)
<1>1. CASE Special
  BY <1>1, SubmitBridge, EnqueueBridge, AckBridge, FlushBridge DEF Special
<1>2. CASE \/ \E k \in Ids : RetryExpires(k)
           \/ \E k \in Ids, s \in 0 .. SeqValues - 1, throws \in BOOLEAN : RunRetry(k, s, throws)
           \/ \E throws \in BOOLEAN : BridgeWriteDone(throws)
           \/ LoseFrame
  BY <1>2, ExpiryBridge, RetryBridge, WriteDoneBridge, LossBridge
<1>3. CASE \/ Silently(TimerTick("check")) \/ Silently(TimerTick("heartbeat"))
           \/ Silently(SendData) \/ Silently(Shutdown)
           \/ Silently(CheckConnected) \/ Silently(HeartbeatWaiting)
           \/ Silently(HeartbeatRetry) \/ Silently(HeartbeatNext)
           \/ Silently(RunDrained) \/ Silently(StaleDone)
           \/ Silently(LoseReply) \/ Silently(WindowPasses)
  <2>1. /\ UNCHANGED senderVars
        /\ \/ TimerTick("check") \/ TimerTick("heartbeat") \/ SendData \/ Shutdown
           \/ CheckConnected \/ HeartbeatWaiting \/ HeartbeatRetry \/ HeartbeatNext
           \/ RunDrained \/ StaleDone \/ LoseReply \/ WindowPasses
    BY <1>3 DEF Silently
  <2>2. TimerTick("check") \/ TimerTick("heartbeat")
          => \E what \in {"check", "heartbeat"} : TimerTick(what)
    OBVIOUS
  <2> QED
    BY <2>1, <2>2, SilentBridge
<1>4. CASE \/ Resetting(OpenFails) \/ Resetting(HeartbeatTimeout)
           \/ Resetting(RunDestroy) \/ Resetting(ReadFails) \/ Resetting(WriteFails)
           \/ \E throws \in BOOLEAN : Resetting(OpenSucceeds(throws))
  BY <1>4, ResettingBridge
<1>5. CASE \/ \E throws \in BOOLEAN : Starting(RunSend(throws))
           \/ \E n \in 0 .. ChunkPackets, throws \in BOOLEAN : Starting(ReadDone(n, throws))
           \/ \E throws \in BOOLEAN : Starting(ParsePacket(throws))
  BY <1>5, StartingBridge
<1>6. CASE UNCHANGED bridgeVars
  BY <1>6, BridgeStutters
<1> QED
  BY <1>1, <1>2, <1>3, <1>4, <1>5, <1>6 DEF BridgeNext, Special

\* The controller and the sender stay in agreement: the reliable frames of the
\* transmit queue are the current attempts of the messages at the fronts, one
\* of each id, and a front that is not being written has its timer armed.
THEOREM StaysInAgreement == BridgeSpec => []BInv
<1>1. BridgeInit => BInv
  BY BridgeBegins
<1>2. BInv /\ [BridgeNext]_bridgeVars => BInv'
  BY BridgeKeeps
<1> QED
  BY <1>1, <1>2, PTL DEF BridgeSpec

\* The destructor's lambda leaves the sender empty, and nothing that comes after
\* it fills it again.
THEOREM DestroyClears == BridgeSpec => []ClearedByDestroy
<1>1. BInv => ClearedByDestroy
  BY DEF BInv, ClearedByDestroy
<1> QED
  BY <1>1, StaysInAgreement, PTL

-----------------------------------------------------------------------------
(* What the sender sees of the transmit queue.                             *)

Writing == INSTANCE FoldFacts WITH op <- WithWrite

\* Writes is a fold of the module FoldFacts.
LEMMA WritesIsFold ==
  \A txq : Writes(txq) = Writing!FoldLeft(WithWrite, <<>>, txq)
BY DEF Writes, FoldLeft, MapThenFoldSet, Max,
       Writing!FoldLeft, Writing!MapThenFoldSet, Writing!Max

\* The list ws holds the writes of the first m frames of txq.
WritesOf(ws, txq, m) ==
  /\ IsList(ws)
  /\ \A j \in 1 .. Len(ws) : \E i \in 1 .. m : IsReliable(txq[i]) /\ txq[i].write = ws[j]
  /\ \A i \in 1 .. m : IsReliable(txq[i]) => \E j \in 1 .. Len(ws) : ws[j] = txq[i].write

\* No two frames of txq are of the same id.
OneEach(txq) ==
  \A i, j \in 1 .. Len(txq) :
    IsReliable(txq[i]) /\ IsReliable(txq[j]) /\ txq[i].write.id = txq[j].write.id => i = j

\* The writes are those of the reliable frames, of one of each id if these are.
LEMMA WritesAre ==
  ASSUME NEW txq, IsList(txq), OneEach(txq)
  PROVE  LET ws == Writes(txq) IN
           /\ WritesOf(ws, txq, Len(txq))
           /\ \A i, j \in 1 .. Len(ws) : ws[i].id = ws[j].id => i = j
<1>1. PICK n \in Nat : n = Len(txq)
  BY LenProperties DEF IsList
<1>2. PICK c : Writing!Sums(c, <<>>, txq, Len(txq)) /\ Writes(txq) = c[Len(txq)]
  BY Writing!FoldSteps, WritesIsFold DEF IsList
<1> DEFINE Good(m) == /\ WritesOf(c[m], txq, m)
                      /\ \A i, j \in 1 .. Len(c[m]) : c[m][i].id = c[m][j].id => i = j
           T == {m \in 0 .. n : Good(m)}
<1>3. 0 \in T
  <2>1. /\ c[0] = <<>> /\ 0 \in 0 .. n /\ \A i \in 1 .. 0 : FALSE
        /\ IsList(<<>>) /\ Len(<<>>) = 0
    BY <1>1, <1>2, NoneIsList DEF Writing!Sums
  <2> QED
    BY <2>1 DEF WritesOf
<1>4. ASSUME NEW m \in 0 .. n - 1, m \in T PROVE m + 1 \in T
  <2> DEFINE f == txq[m + 1]
             b == c[m]
             d == c[m + 1]
             x == Len(b)
             y == Len(d)
  <2>1. /\ m + 1 \in 1 .. n /\ m + 1 \in 0 .. n /\ (m + 1) - 1 = m
        /\ \A i \in 1 .. m + 1 : i \in 1 .. m \/ i = m + 1
        /\ \A i \in 1 .. m : i \in 1 .. m + 1 /\ i \in 1 .. n /\ i # m + 1
    BY <1>1
  <2>2. d = WithWrite(b, f)
    BY <1>1, <1>2, <2>1 DEF Writing!Sums
  <2>3. /\ IsList(b)
        /\ \A j \in 1 .. x : \E i \in 1 .. m : IsReliable(txq[i]) /\ txq[i].write = b[j]
        /\ \A i \in 1 .. m : IsReliable(txq[i]) => \E j \in 1 .. x : b[j] = txq[i].write
        /\ \A i, j \in 1 .. x : b[i].id = b[j].id => i = j
    BY <1>4 DEF WritesOf
  <2>4. \A i \in 1 .. n : i # m + 1 =>
          ~ (IsReliable(txq[i]) /\ IsReliable(f) /\ txq[i].write.id = f.write.id)
    BY <1>1, <2>1 DEF OneEach
  <2> HIDE DEF b, d
  <2>5. CASE ~ IsReliable(f)
    <3>1. d = b
      BY <2>2, <2>5 DEF WithWrite
    <3>2. \A j \in 1 .. x : \E i \in 1 .. m + 1 : IsReliable(txq[i]) /\ txq[i].write = b[j]
      BY <2>1, <2>3
    <3>3. \A i \in 1 .. m + 1 : IsReliable(txq[i]) => \E j \in 1 .. x : b[j] = txq[i].write
      BY <2>1, <2>3, <2>5
    <3>4. Good(m + 1)
      BY <2>3, <3>1, <3>2, <3>3 DEF WritesOf, d
    <3> QED
      BY <2>1, <3>4
  <2>6. CASE IsReliable(f)
    <3>1. d = Append(b, f.write)
      BY <2>2, <2>6 DEF WithWrite
    <3>2. /\ IsList(d) /\ x \in Nat /\ y = x + 1 /\ d[x + 1] = f.write
          /\ \A i \in 1 .. x : d[i] = b[i]
      BY <2>3, <3>1, ListGrows
    <3> HIDE DEF x, y, f
    <3>3. /\ \A j \in 1 .. y : j \in 1 .. x \/ j = x + 1
          /\ \A j \in 1 .. x : j \in 1 .. y /\ x + 1 \in 1 .. y
          /\ x + 1 \in 1 .. y
      BY <3>2
    <3>4. \A j \in 1 .. y : \E i \in 1 .. m + 1 : IsReliable(txq[i]) /\ txq[i].write = d[j]
      <4>1. m + 1 \in 1 .. m + 1 /\ txq[m + 1] = f
        BY <2>1 DEF f
      <4> QED
        BY <2>1, <2>3, <2>6, <3>2, <3>3, <4>1
    <3>5. \A i \in 1 .. m + 1 : IsReliable(txq[i]) => \E j \in 1 .. y : d[j] = txq[i].write
      <4>1. txq[m + 1] = f
        BY DEF f
      <4> QED
        BY <2>1, <2>3, <3>2, <3>3, <4>1
    <3>6. \A j \in 1 .. x : d[j].id # d[x + 1].id
      BY <2>1, <2>3, <2>4, <2>6, <3>2
    <3>7. \A i, j \in 1 .. y : d[i].id = d[j].id => i = j
      BY <2>3, <3>2, <3>3, <3>6
    <3>8. Good(m + 1)
      BY <3>2, <3>4, <3>5, <3>7 DEF WritesOf, d, y
    <3> QED
      BY <2>1, <3>8
  <2> QED
    BY <2>5, <2>6
<1> HIDE DEF T
<1>5. n \in T
  <2>1. \A m \in 0 .. n : m \in T
    BY <1>1, <1>3, <1>4, Writing!Climbs
  <2> QED
    BY <1>1, <2>1
<1> QED
  BY <1>1, <1>2, <1>5 DEF T

\* A front in step has a future in the sender's eyes.
LEMMA ServedFront ==
  ASSUME NEW k, NEW q, NEW txq, NEW fired, Awoken(k, q, txq, fired),
         NEW ws, WritesOf(ws, txq, Len(txq))
  PROVE  Sender!HasFuture(k, q, ws, fired)
BY DEF Awoken, WritesOf, Sender!HasFuture, IsOf

\* The sender is served.
LEMMA BServes == BInv => SenderIsServed
<1> SUFFICES ASSUME BInv PROVE SenderIsServed
  OBVIOUS
<1> DEFINE txq == ctl.tx_queue
           ws == Writes(txq)
<1>1. /\ IsList(txq) /\ OwnFrames(txq)
      /\ \A k \in Ids : Single(k, pending[k], txq) /\ Awoken(k, pending[k], txq, timeouts)
  BY DEF BInv, CInv, Link, Agreed, InStep
<1> HIDE DEF txq
<1>2. OneEach(txq)
  BY <1>1 DEF OneEach, OwnFrames, Single, IsOf
<1>3. /\ WritesOf(ws, txq, Len(txq))
      /\ \A i, j \in 1 .. Len(ws) : ws[i].id = ws[j].id => i = j
  BY <1>1, <1>2, WritesAre
<1> HIDE DEF ws
<1>4. \A k \in Ids : Sender!HasFuture(k, pending[k], ws, timeouts)
  BY <1>1, <1>3, ServedFront
<1>5. \A j \in 1 .. Len(ws) : Sender!IsLatestWrite(ws[j], pending[ws[j].id])
  BY <1>1, <1>3 DEF WritesOf, OwnFrames, Single, IsOf
<1>6. Sender!NeverStranded
  BY <1>4 DEF Sender!NeverStranded, ws, txq
<1>7. Sender!OneCurrentWrite
  BY <1>3, <1>5 DEF Sender!OneCurrentWrite, ws, txq
<1> QED
  BY <1>6, <1>7 DEF SenderIsServed

\* A message at a front has its latest attempt in the transmit queue, or a retry
\* to come, and the queue holds no other write of its id: through refusals,
\* resets, handshakes and shutdown.
THEOREM ServesTheSender == BridgeSpec => []SenderIsServed
<1> QED
  BY BServes, StaysInAgreement, PTL

-----------------------------------------------------------------------------
(* The messages of one id, from the strand to their ACKs.                  *)

OfId(t, k) == t.do = "reliable" /\ t.key = k

\* The tasks of strand s for id k are those of messages from + 1 .. to, in order.
Posted(k, s, from, to) ==
  /\ \A i \in 1 .. Len(s) : OfId(s[i], k) => s[i].msg \in from + 1 .. to
  /\ \A i, j \in 1 .. Len(s) :
       OfId(s[i], k) /\ OfId(s[j], k) /\ i < j => s[i].msg < s[j].msg
  /\ \A m \in from + 1 .. to : \E i \in 1 .. Len(s) : OfId(s[i], k) /\ s[i].msg = m

\* A task of another kind or id comes.
LEMMA OtherComes ==
  ASSUME NEW k, NEW s, IsList(s), NEW a, NEW b, Posted(k, s, a, b), NEW t, ~ OfId(t, k)
  PROVE  Posted(k, Append(s, t), a, b)
<1> DEFINE r == Append(s, t)
           n == Len(s)
           y == Len(r)
<1>1. y = n + 1 /\ n \in Nat /\ r[n + 1] = t /\ \A i \in 1 .. n : r[i] = s[i]
  BY ListGrows
<1> HIDE DEF r, n, y
<1>2. \A i \in 1 .. y : i \in 1 .. n \/ i = n + 1
  BY <1>1
<1>3. \A i \in 1 .. n : i \in 1 .. y
  BY <1>1
<1>4. \A i \in 1 .. y : OfId(r[i], k) => i \in 1 .. n /\ r[i] = s[i]
  BY <1>1, <1>2
<1>5. \A i \in 1 .. y : OfId(r[i], k) => r[i].msg \in a + 1 .. b
  BY <1>4 DEF Posted, n
<1>6. \A i, j \in 1 .. y :
        OfId(r[i], k) /\ OfId(r[j], k) /\ i < j => r[i].msg < r[j].msg
  BY <1>4 DEF Posted, n
<1>7. \A m \in a + 1 .. b : \E i \in 1 .. y : OfId(r[i], k) /\ r[i].msg = m
  BY <1>1, <1>3 DEF Posted, n
<1> QED
  BY <1>5, <1>6, <1>7 DEF Posted, r, y

\* The task of the next message comes.
LEMMA NextComes ==
  ASSUME NEW k, NEW s, IsList(s), NEW a \in Nat, NEW b \in Nat, a <= b,
         Posted(k, s, a, b), NEW t, OfId(t, k), t.msg = b + 1
  PROVE  Posted(k, Append(s, t), a, b + 1)
<1> DEFINE r == Append(s, t)
           n == Len(s)
           y == Len(r)
<1>1. y = n + 1 /\ n \in Nat /\ r[n + 1] = t /\ \A i \in 1 .. n : r[i] = s[i]
  BY ListGrows
<1> HIDE DEF r, n, y
<1>2. \A i \in 1 .. y : i \in 1 .. n \/ i = n + 1
  BY <1>1
<1>3. n + 1 \in 1 .. y /\ \A i \in 1 .. n : i \in 1 .. y
  BY <1>1
<1>4. \A i \in 1 .. n : OfId(s[i], k) => s[i].msg \in a + 1 .. b
  BY DEF Posted, n
<1>5. /\ \A m \in a + 1 .. b : m \in a + 1 .. b + 1 /\ m < b + 1
      /\ b + 1 \in a + 1 .. b + 1
      /\ \A m \in a + 1 .. b + 1 : m \in a + 1 .. b \/ m = b + 1
  OBVIOUS
<1>6. \A i \in 1 .. y : OfId(r[i], k) => r[i].msg \in a + 1 .. b + 1
  BY <1>1, <1>2, <1>4, <1>5
<1>7. ASSUME NEW i \in 1 .. y, NEW j \in 1 .. y, OfId(r[i], k), OfId(r[j], k), i < j
      PROVE  r[i].msg < r[j].msg
  <2>1. i \in 1 .. n /\ r[i] = s[i]
    BY <1>1, <1>7
  <2>2. CASE j \in 1 .. n
    BY <1>1, <1>7, <2>1, <2>2 DEF Posted, n
  <2>3. CASE j = n + 1
    BY <1>1, <1>4, <1>5, <1>7, <2>1, <2>3
  <2> QED
    BY <1>2, <2>2, <2>3
<1>8. \A m \in a + 1 .. b + 1 : \E i \in 1 .. y : OfId(r[i], k) /\ r[i].msg = m
  <2>1. \A m \in a + 1 .. b : \E i \in 1 .. n : OfId(s[i], k) /\ s[i].msg = m
    BY DEF Posted, n
  <2> QED
    BY <1>1, <1>3, <1>5, <2>1
<1> QED
  BY <1>6, <1>7, <1>8 DEF Posted, r, y

\* A task of another kind or id is taken.
LEMMA OtherGoes ==
  ASSUME NEW k, NEW s, IsList(s), s # <<>>, NEW a, NEW b, Posted(k, s, a, b),
         ~ OfId(Head(s), k)
  PROVE  Posted(k, Tail(s), a, b)
<1> DEFINE r == Tail(s)
           n == Len(s)
           y == Len(r)
<1>1. /\ y = n - 1 /\ n \in Nat \ {0} /\ ~ OfId(s[1], k)
      /\ \A i \in 1 .. n - 1 : r[i] = s[i + 1]
  BY ListShrinks
<1> HIDE DEF r, n, y
<1>2. \A i \in 1 .. y : i + 1 \in 1 .. n /\ r[i] = s[i + 1]
  BY <1>1
<1>3. \A i \in 1 .. y : OfId(r[i], k) => r[i].msg \in a + 1 .. b
  BY <1>2 DEF Posted, n
<1>4. ASSUME NEW i \in 1 .. y, NEW j \in 1 .. y, OfId(r[i], k), OfId(r[j], k), i < j
      PROVE  r[i].msg < r[j].msg
  <2>1. i + 1 < j + 1
    BY <1>4
  <2> QED
    BY <1>2, <1>4, <2>1 DEF Posted, n
<1>5. ASSUME NEW m \in a + 1 .. b
      PROVE  \E i \in 1 .. y : OfId(r[i], k) /\ r[i].msg = m
  <2>1. PICK i \in 1 .. n : OfId(s[i], k) /\ s[i].msg = m
    BY DEF Posted, n
  <2>2. i # 1
    BY <1>1, <2>1
  <2>3. i - 1 \in 1 .. y /\ i = (i - 1) + 1
    BY <1>1, <2>2
  <2>4. r[i - 1] = s[i]
    BY <1>1, <2>3
  <2> QED
    BY <2>1, <2>3, <2>4
<1> QED
  BY <1>3, <1>4, <1>5 DEF Posted, r, y

\* The task taken is that of the first of them.
LEMMA FirstGoes ==
  ASSUME NEW k, NEW s, IsList(s), s # <<>>, NEW a \in Nat, NEW b \in Nat,
         Posted(k, s, a, b), OfId(Head(s), k)
  PROVE  Head(s).msg = a + 1 /\ a + 1 <= b /\ Posted(k, Tail(s), a + 1, b)
<1> DEFINE r == Tail(s)
           n == Len(s)
           y == Len(r)
<1>1. /\ y = n - 1 /\ n \in Nat \ {0} /\ OfId(s[1], k) /\ Head(s) = s[1]
      /\ \A i \in 1 .. n - 1 : r[i] = s[i + 1]
  BY ListShrinks
<1> HIDE DEF r, n, y
<1>2. /\ \A i \in 1 .. y : i + 1 \in 1 .. n /\ r[i] = s[i + 1] /\ 1 < i + 1
      /\ 1 \in 1 .. n
  BY <1>1
<1>3. \A i \in 1 .. n : OfId(s[i], k) => s[i].msg \in a + 1 .. b
  BY DEF Posted, n
<1>4. \A i, j \in 1 .. n :
        OfId(s[i], k) /\ OfId(s[j], k) /\ i < j => s[i].msg < s[j].msg
  BY DEF Posted, n
<1>5. \A m \in a + 1 .. b : \E i \in 1 .. n : OfId(s[i], k) /\ s[i].msg = m
  BY DEF Posted, n
<1>6. s[1].msg = a + 1 /\ a + 1 <= b
  <2>1. s[1].msg \in a + 1 .. b
    BY <1>1, <1>2, <1>3
  <2>2. a + 1 \in a + 1 .. b
    BY <2>1
  <2>3. PICK i \in 1 .. n : OfId(s[i], k) /\ s[i].msg = a + 1
    BY <1>5, <2>2
  <2>4. i = 1 \/ 1 < i
    BY <1>1
  <2>5. ~ (s[1].msg < a + 1)
    BY <2>1
  <2>6. i = 1
    BY <1>1, <1>2, <1>4, <2>3, <2>4, <2>5
  <2> QED
    BY <2>1, <2>3, <2>6
<1>7. ASSUME NEW i \in 1 .. y, OfId(r[i], k) PROVE r[i].msg \in (a + 1) + 1 .. b
  <2>1. s[1].msg < r[i].msg /\ r[i].msg \in a + 1 .. b
    BY <1>1, <1>2, <1>3, <1>4, <1>7
  <2> QED
    BY <1>6, <2>1
<1>8. ASSUME NEW i \in 1 .. y, NEW j \in 1 .. y, OfId(r[i], k), OfId(r[j], k), i < j
      PROVE  r[i].msg < r[j].msg
  <2>1. i + 1 < j + 1
    BY <1>8
  <2> QED
    BY <1>2, <1>4, <1>8, <2>1
<1>9. ASSUME NEW m \in (a + 1) + 1 .. b
      PROVE  \E i \in 1 .. y : OfId(r[i], k) /\ r[i].msg = m
  <2>1. m \in a + 1 .. b /\ m # a + 1
    OBVIOUS
  <2>2. PICK i \in 1 .. n : OfId(s[i], k) /\ s[i].msg = m
    BY <1>5, <2>1
  <2>3. i # 1
    BY <1>6, <2>1, <2>2
  <2>4. i - 1 \in 1 .. y /\ i = (i - 1) + 1
    BY <1>1, <2>3
  <2>5. r[i - 1] = s[i]
    BY <1>1, <2>4
  <2> QED
    BY <2>2, <2>4, <2>5
<1> QED
  BY <1>1, <1>6, <1>7, <1>8, <1>9 DEF Posted, r, y

\* Steps of the controller leave the messages posted as they are.
LEMMA MovedPosted ==
  ASSUME NEW k, NEW s, IsList(s), NEW a, NEW b, Posted(k, s, a, b),
         NEW r, Moved(s, r)
  PROVE  Posted(k, r, a, b)
<1>1. \A t : OwnTask(t) => ~ OfId(t, k)
  BY DEF OwnTask, OfId
<1>2. ASSUME NEW u, IsList(u), Posted(k, u, a, b), Grown(u, r)
      PROVE  Posted(k, r, a, b)
  BY <1>1, <1>2, OtherComes DEF Grown
<1>3. CASE Grown(s, r)
  BY <1>2, <1>3
<1>4. CASE s # <<>> /\ OwnTask(Head(s)) /\ Grown(Tail(s), r)
  <2>1. IsList(Tail(s))
    BY <1>4, ListShrinks
  <2>2. Posted(k, Tail(s), a, b)
    BY <1>1, <1>4, OtherGoes
  <2> QED
    BY <1>2, <1>4, <2>1, <2>2
<1> QED
  BY <1>3, <1>4 DEF Moved

\* Of the messages 1 .. m submitted under id k, the first n have left queue q,
\* the MCU has had n or n + 1, q holds the ones that follow and strand s those
\* after them; an ACK among the packets P that q would take is of a message that
\* has arrived.
Kept(k, q, s, n, l, m, P) ==
  /\ n + Len(q) <= m
  /\ l \in {n, n + 1}
  /\ \A i \in 1 .. Len(q) : q[i].msg = n + i
  /\ Posted(k, s, n + Len(q), m)
  /\ \A x \in P : IsAck(x) /\ x.key = k /\ q # <<>> /\ x.seq = q[1].expected_seq
       => l = n + 1

\* The messages of every id are where they should be.
Ordered ==
  \A k \in Ids :
    Kept(k, pending[k], ctl.strand, popped[k], last[k], sent[k], Travelling)

\* No ACK on its way bears the number that is given next.
Unused == \A x \in Travelling : IsAck(x) => x.seq # seq_counter

\* The same queue, to all appearances, with a strand that posts the same.
LEMMA AlikeKept ==
  ASSUME NEW k, NEW q, NEW s, NEW n, NEW l, NEW m, NEW P, Kept(k, q, s, n, l, m, P),
         NEW r, Alike(q, r),
         NEW u, Posted(k, s, n + Len(q), m) => Posted(k, u, n + Len(q), m),
         NEW R, \A x \in R : IsAck(x) /\ x.key = k => x \in P
  PROVE  Kept(k, r, u, n, l, m, R)
<1>1. /\ Len(r) = Len(q) /\ (q = <<>> <=> r = <<>>)
      /\ \A i \in 1 .. Len(q) : r[i].msg = q[i].msg
      /\ q # <<>> => r[1].expected_seq = q[1].expected_seq
  BY DEF Alike
<1> QED
  BY <1>1 DEF Kept

\* What is known of an id.
LEMMA KeptTypes ==
  ASSUME BInv, NEW k \in Ids
  PROVE  /\ pending[k] \in Queues /\ Len(pending[k]) \in Nat
         /\ popped[k] \in Nat /\ last[k] \in Nat /\ sent[k] \in Nat
         /\ IsList(ctl.strand)
<1>1. pending[k] \in Queues /\ IsList(ctl.strand)
  BY DEF BInv, CInv, TInv, Orderly, Agreed
<1>2. Len(pending[k]) \in Nat
  BY <1>1 DEF Queues
<1>3. popped[k] \in Nat /\ last[k] \in Nat /\ sent[k] \in Nat
  BY DEF BInv
<1> QED
  BY <1>1, <1>2, <1>3

\* A gentle step.
LEMMA GentleOrdered ==
  ASSUME BInv, Ordered, ~ shutting_down, Gentle
  PROVE  Ordered'
<1>1. /\ Moved(ctl.strand, ctl'.strand)
      /\ \A x \in Travelling' : IsAck(x) => x \in Travelling
      /\ popped' = popped /\ last' = last /\ sent' = sent
      /\ \A k \in Ids : Alike(pending[k], pending'[k])
  BY DEF Gentle, historyVars
<1>2. ASSUME NEW k \in Ids
      PROVE  Kept(k, pending'[k], ctl'.strand, popped[k], last[k], sent[k], Travelling')
  <2>1. Posted(k, ctl.strand, popped[k] + Len(pending[k]), sent[k])
          => Posted(k, ctl'.strand, popped[k] + Len(pending[k]), sent[k])
    BY <1>1, KeptTypes, MovedPosted
  <2> QED
    BY <1>1, <2>1, AlikeKept DEF Ordered
<1> QED
  BY <1>1, <1>2 DEF Ordered, Kept, Posted, OfId, IsAck

\* reliable_send.
LEMMA SubmitOrdered ==
  ASSUME BInv, Ordered, NEW k \in Ids, SendReliable(k)
  PROVE  Ordered' /\ (~ shutting_down => Promise!Next)
<1> DEFINE t == ReliableTask(k, sent[k] + 1)
<1>1. /\ ctl'.strand = Append(ctl.strand, t) /\ Travelling' = Travelling
      /\ shutting_down' = shutting_down
  BY SubmitBridge DEF Travelling
<1>2. /\ sent' = [sent EXCEPT ![k] = @ + 1] /\ pending' = pending
      /\ popped' = popped /\ last' = last
  BY DEF SendReliable
<1>3. OfId(t, k) /\ t.msg = sent[k] + 1 /\ \A j : j # k => ~ OfId(t, j)
  BY DEF ReliableTask, OfId
<1> HIDE DEF t
<1>4. ASSUME NEW j \in Ids
      PROVE  Kept(j, pending[j], ctl'.strand, popped[j], last[j], sent'[j], Travelling)
  <2> DEFINE q == pending[j]
             n == popped[j]
             m == sent[j]
             s == ctl.strand
  <2>1. Len(q) \in Nat /\ n \in Nat /\ m \in Nat /\ IsList(s) /\ sent[k] \in Nat
    BY KeptTypes
  <2>2. /\ n + Len(q) <= m /\ Posted(j, s, n + Len(q), m)
        /\ Kept(j, q, s, n, last[j], m, Travelling)
    BY DEF Ordered, Kept
  <2>3. sent'[j] = IF j = k THEN m + 1 ELSE m
    BY <1>2 DEF BInv
  <2> HIDE DEF q, n, m, s
  <2>4. n + Len(q) \in Nat /\ n + Len(q) <= m + 1
    BY <2>1, <2>2
  <2>5. Posted(j, Append(s, t), n + Len(q), sent'[j])
    <3>1. CASE j = k
      BY <1>3, <2>1, <2>2, <2>3, <2>4, <3>1, NextComes DEF m
    <3>2. CASE j # k
      BY <1>3, <2>1, <2>2, <2>3, <3>2, OtherComes
    <3> QED
      BY <3>1, <3>2
  <2>6. n + Len(q) <= sent'[j]
    BY <2>2, <2>3, <2>4
  <2>7. Kept(j, q, Append(s, t), n, last[j], sent'[j], Travelling)
    BY <2>2, <2>5, <2>6 DEF Kept
  <2> QED
    BY <1>1, <2>7 DEF q, n, s
<1>5. Ordered'
  BY <1>1, <1>2, <1>4 DEF Ordered, Kept, Posted, OfId, IsAck
<1>6. ~ shutting_down => Promise!Submit(k)
  BY <1>1, <1>2 DEF Promise!Submit
<1> QED
  BY <1>5, <1>6 DEF Promise!Next

\* Its task.
LEMMA EnqueueOrdered ==
  ASSUME BInv, Ordered, Unused, ~ shutting_down,
         NEW throws \in BOOLEAN, RunReliable(throws)
  PROVE  Ordered' /\ UNCHANGED Promise!vars
<1> DEFINE t == Head(ctl.strand)
           k == t.key
           z == t.msg
<1>1. /\ Next_is("reliable") /\ k \in Ids /\ z \in Nat
      /\ ctl'.strand = Tail(ctl.strand) /\ Travelling' \subseteq Travelling
      /\ UNCHANGED <<historyVars, shutting_down>> /\ Queued(k, z)
  BY EnqueueBridge
<1>2. ctl.strand # <<>> /\ t.do = "reliable"
  BY <1>1 DEF Next_is
<1>3. popped' = popped /\ last' = last /\ sent' = sent
  BY <1>1 DEF historyVars
<1>4. OfId(t, k) /\ \A j : j # k => ~ OfId(t, j)
  BY <1>2 DEF OfId
<1>5. ASSUME NEW j \in Ids
      PROVE  Kept(j, pending'[j], ctl'.strand, popped[j], last[j], sent[j], Travelling')
  <2> DEFINE q == pending[j]
             n == popped[j]
             l == last[j]
             m == sent[j]
             s == ctl.strand
  <2>1. Len(q) \in Nat /\ n \in Nat /\ m \in Nat /\ IsList(s) /\ q \in Queues
    BY KeptTypes
  <2>2. /\ n + Len(q) <= m /\ Posted(j, s, n + Len(q), m) /\ l \in {n, n + 1}
        /\ Kept(j, q, s, n, l, m, Travelling)
        /\ \A i \in 1 .. Len(q) : q[i].msg = n + i
        /\ \A x \in Travelling : IsAck(x) /\ x.key = j /\ q # <<>>
             /\ x.seq = q[1].expected_seq => l = n + 1
    BY DEF Ordered, Kept
  <2> HIDE DEF t
  <2>3. CASE j # k
    <3>1. Alike(q, pending'[j])
      BY <1>1, <2>3 DEF Queued
    <3>2. Posted(j, Tail(s), n + Len(q), m)
      BY <1>2, <1>4, <2>1, <2>2, <2>3, OtherGoes DEF t
    <3>3. Kept(j, pending'[j], Tail(s), n, l, m, Travelling')
      BY <1>1, <2>2, <3>1, <3>2, AlikeKept
    <3> QED
      BY <1>1, <3>3
  <2>4. CASE j = k
    <3> DEFINE o == Append(q, Sender!NewEntry(z))
               r == pending'[j]
    <3>1. /\ SameMessages(o, r)
          /\ r[1].expected_seq = IF q = <<>> THEN seq_counter ELSE q[1].expected_seq
      BY <1>1, <2>4 DEF Queued
    <3>2. /\ Len(o) = Len(q) + 1 /\ o[Len(q) + 1].msg = z
          /\ \A i \in 1 .. Len(q) : o[i] = q[i]
      BY <1>1, <2>1, LongerQueue
    <3>3. /\ z = (n + Len(q)) + 1 /\ (n + Len(q)) + 1 <= m
          /\ Posted(j, Tail(s), (n + Len(q)) + 1, m)
      <4>1. n + Len(q) \in Nat /\ OfId(Head(s), j) /\ s # <<>> /\ Head(s).msg = z
        BY <1>2, <1>4, <2>1, <2>4 DEF t
      <4> HIDE DEF q, n, m, s, z
      <4> QED
        BY <2>1, <2>2, <4>1, FirstGoes
    <3> HIDE DEF o, r, q, n, m, s, l, z
    <3>4. Len(r) = Len(q) + 1 /\ \A i \in 1 .. Len(q) + 1 : r[i].msg = o[i].msg
      BY <3>1, <3>2 DEF SameMessages
    <3>5. \A i \in 1 .. Len(q) + 1 : i \in 1 .. Len(q) \/ i = Len(q) + 1
      BY <2>1
    <3>6. \A i \in 1 .. Len(r) : r[i].msg = n + i
      <4>1. (n + Len(q)) + 1 = n + (Len(q) + 1)
        BY <2>1
      <4> QED
        BY <2>2, <3>2, <3>3, <3>4, <3>5, <4>1
    <3>7. n + Len(r) = (n + Len(q)) + 1
      BY <2>1, <3>4
    <3>8. n + Len(r) <= m /\ Posted(j, Tail(s), n + Len(r), m)
      BY <3>3, <3>7
    <3>9. \A x \in Travelling' : IsAck(x) /\ x.key = j /\ x.seq = r[1].expected_seq
            => l = n + 1
      BY <1>1, <2>2, <3>1 DEF Unused
    <3>10. Kept(j, r, Tail(s), n, l, m, Travelling')
      BY <2>2, <3>6, <3>8, <3>9 DEF Kept
    <3> QED
      BY <1>1, <3>10 DEF r, s, n, l, m
  <2> QED
    BY <2>3, <2>4
<1>6. Ordered'
  BY <1>3, <1>5 DEF Ordered, Kept, Posted, OfId, IsAck
<1> QED
  BY <1>1, <1>3, <1>6 DEF Promise!vars

\* An ACK that the sender takes is of a message that has arrived.
LEMMA AckOrdered ==
  ASSUME BInv, Ordered, Unused, ~ shutting_down,
         NEW sendThrows \in BOOLEAN, NEW throws \in BOOLEAN,
         ParseReliableAck(sendThrows, throws)
  PROVE  Ordered' /\ (Promise!Next \/ Gentle)
<1> DEFINE a == Head(ctl.ring)
           k == a.key
<1>1. CASE Gentle
  BY <1>1, GentleOrdered
<1>2. CASE ~ Gentle
  <2>1. /\ a \in Travelling /\ IsAck(a) /\ k \in Ids
        /\ Sender!Accepts(a, pending[k])
        /\ Moved(ctl.strand, ctl'.strand) /\ Travelling' \subseteq Travelling
        /\ popped' = [popped EXCEPT ![k] = @ + 1]
        /\ last' = last /\ sent' = sent /\ shutting_down' = shutting_down
        /\ Advanced(k, pending')
    BY <1>2, AckBridge
  <2> HIDE DEF a
  <2>2. pending[k] # <<>> /\ pending[k][1].expected_seq = a.seq
    BY <2>1 DEF Sender!Accepts
  <2>3. last[k] = popped[k] + 1
    BY <2>1, <2>2 DEF Ordered, Kept
  <2>4. ASSUME NEW j \in Ids
        PROVE  Kept(j, pending'[j], ctl'.strand, popped'[j], last[j], sent[j], Travelling')
    <3> DEFINE q == pending[j]
               n == popped[j]
               l == last[j]
               m == sent[j]
               s == ctl.strand
               u == ctl'.strand
               r == pending'[j]
    <3>1. Len(q) \in Nat /\ n \in Nat /\ m \in Nat /\ IsList(s) /\ q \in Queues
      BY KeptTypes
    <3>2. /\ n + Len(q) <= m /\ Posted(j, s, n + Len(q), m) /\ l \in {n, n + 1}
          /\ Kept(j, q, s, n, l, m, Travelling)
          /\ \A i \in 1 .. Len(q) : q[i].msg = n + i
      BY DEF Ordered, Kept
    <3>3. Posted(j, u, n + Len(q), m)
      BY <2>1, <3>1, <3>2, MovedPosted
    <3>4. popped'[j] = IF j = k THEN n + 1 ELSE n
      BY <2>1 DEF BInv
    <3>5. CASE j # k
      <4>1. Alike(q, r)
        BY <2>1, <3>5 DEF Advanced
      <4> HIDE DEF q, n, l, m, s, u, r
      <4>2. Kept(j, r, u, n, l, m, Travelling')
        BY <2>1, <3>2, <3>3, <4>1, AlikeKept
      <4> QED
        BY <3>4, <3>5, <4>2 DEF q, n, l, m, s, u, r
    <3>6. CASE j = k
      <4>1. /\ SameMessages(Tail(q), r) /\ q # <<>> /\ l = n + 1
            /\ Tail(q) # <<>> => r[1].expected_seq = seq_counter
        BY <2>1, <2>2, <2>3, <3>6 DEF Advanced
      <4>2. /\ Len(q) \in Nat \ {0} /\ Len(Tail(q)) = Len(q) - 1
            /\ \A i \in 1 .. Len(q) - 1 : Tail(q)[i] = q[i + 1]
        BY <3>1, <4>1, ShorterQueue
      <4> HIDE DEF q, n, l, m, s, u, r
      <4>3. /\ Len(r) = Len(q) - 1 /\ \A i \in 1 .. Len(q) - 1 : r[i].msg = q[i + 1].msg
            /\ r # <<>> => r[1].expected_seq = seq_counter
        BY <4>1, <4>2 DEF SameMessages
      <4>4. \A i \in 1 .. Len(r) : r[i].msg = (n + 1) + i
        <5>1. \A i \in 1 .. Len(q) - 1 : i + 1 \in 1 .. Len(q) /\ n + (i + 1) = (n + 1) + i
          BY <3>1, <4>2
        <5> QED
          BY <3>2, <4>3, <5>1
      <4>5. (n + 1) + Len(r) = n + Len(q)
        BY <3>1, <4>2, <4>3
      <4>6. /\ (n + 1) + Len(r) <= m /\ Posted(j, u, (n + 1) + Len(r), m)
            /\ l \in {n + 1, (n + 1) + 1}
        BY <3>2, <3>3, <4>1, <4>5
      <4>7. \A x \in Travelling' : ~ (IsAck(x) /\ r # <<>> /\ x.seq = r[1].expected_seq)
        BY <2>1, <4>3 DEF Unused
      <4>8. Kept(j, r, u, n + 1, l, m, Travelling')
        BY <4>4, <4>6, <4>7 DEF Kept
      <4> QED
        BY <3>4, <3>6, <4>8 DEF n, l, m, u, r
    <3> QED
      BY <3>5, <3>6
  <2>5. Ordered'
    BY <2>1, <2>4 DEF Ordered, Kept, Posted, OfId, IsAck
  <2>6. Promise!Complete(k)
    <3>1. popped[k] < last[k]
      BY <2>1, <2>3, KeptTypes
    <3> QED
      BY <2>1, <3>1 DEF Promise!Complete
  <2> QED
    BY <2>1, <2>5, <2>6 DEF Promise!Next
<1> QED
  BY <1>1, <1>2

\* The bytes of a frame leave.
LEMMA FlushOrdered ==
  ASSUME BInv, Ordered, ~ shutting_down, BridgeFlush
  PROVE  Ordered' /\ (Promise!Next \/ UNCHANGED Promise!vars)
<1> DEFINE f == Head(ctl.tx_queue)
           w == f.write
           k == w.id
<1>1. /\ ctl' = ctl /\ pending' = pending /\ sent' = sent /\ popped' = popped
      /\ shutting_down' = shutting_down
      /\ \/ /\ last' = last
            /\ \A x \in Travelling' : IsAck(x) => x \in Travelling
         \/ /\ ctl.writing /\ IsReliable(f) /\ last' = [last EXCEPT ![k] = w.msg]
            /\ Travelling' = Travelling \cup {AckPacket(w)}
  BY FlushBridge
<1>2. CASE /\ last' = last
           /\ \A x \in Travelling' : IsAck(x) => x \in Travelling
  <2>1. ASSUME NEW j \in Ids
        PROVE  Kept(j, pending[j], ctl.strand, popped[j], last[j], sent[j], Travelling')
    BY <1>2, AlikeItself, AlikeKept DEF Ordered
  <2> QED
    BY <1>1, <1>2, <2>1 DEF Ordered, Kept, Posted, OfId, IsAck, Promise!vars
<1>3. CASE /\ ctl.writing /\ IsReliable(f) /\ last' = [last EXCEPT ![k] = w.msg]
           /\ Travelling' = Travelling \cup {AckPacket(w)}
  <2>1. /\ IsList(ctl.tx_queue) /\ ctl.tx_queue # <<>> /\ OwnFrames(ctl.tx_queue)
        /\ \A j \in Ids : Single(j, pending[j], ctl.tx_queue)
    BY <1>3 DEF BInv, CInv, Link, Agreed, InStep
  <2>2. f = ctl.tx_queue[1] /\ 1 \in 1 .. Len(ctl.tx_queue)
    BY <2>1, ListShrinks
  <2>3. k \in Ids /\ Sender!IsLatestWrite(w, pending[k])
    BY <1>3, <2>1, <2>2 DEF OwnFrames, Single, IsOf
  <2> HIDE DEF w
  <2>4. /\ pending[k] # <<>> /\ w.msg = pending[k][1].msg
        /\ w.seq = pending[k][1].expected_seq
    BY <2>3 DEF Sender!IsLatestWrite, Sender!WriteOf
  <2>5. /\ popped[k] \in Nat /\ last[k] \in Nat /\ sent[k] \in Nat
        /\ Len(pending[k]) \in Nat \ {0} /\ 1 \in 1 .. Len(pending[k])
    <3>1. pending[k] \in Queues
      BY <2>3, KeptTypes
    <3>2. Len(pending[k]) \in Nat \ {0}
      BY <2>4, <3>1, ShorterQueue
    <3> QED
      BY <2>3, <3>2, KeptTypes
  <2>6. /\ w.msg = popped[k] + 1 /\ last[k] \in {popped[k], popped[k] + 1}
        /\ popped[k] + Len(pending[k]) <= sent[k]
    BY <2>3, <2>4, <2>5 DEF Ordered, Kept
  <2>7. /\ \A j \in Ids : last'[j] = IF j = k THEN popped[k] + 1 ELSE last[j]
        /\ last \in [Ids -> Nat]
    BY <1>3, <2>3, <2>6 DEF BInv
  <2>8. ASSUME NEW j \in Ids
        PROVE  Kept(j, pending[j], ctl.strand, popped[j], last'[j], sent[j], Travelling')
    <3>1. Kept(j, pending[j], ctl.strand, popped[j], last[j], sent[j], Travelling)
      BY DEF Ordered
    <3>2. CASE j # k
      <4>1. \A x \in Travelling' : IsAck(x) /\ x.key = j => x \in Travelling
        BY <1>3, <3>2 DEF AckPacket
      <4>2. last'[j] = last[j]
        BY <2>7, <3>2
      <4> QED
        BY <3>1, <4>1, <4>2, AlikeItself, AlikeKept
    <3>3. CASE j = k
      <4>1. last'[j] = popped[j] + 1
        BY <2>7, <3>3
      <4> HIDE DEF k
      <4> QED
        BY <3>1, <4>1 DEF Kept
    <3> QED
      BY <3>2, <3>3
  <2>9. Ordered'
    BY <1>1, <2>8 DEF Ordered, Kept, Posted, OfId, IsAck
  <2>10. CASE last[k] = popped[k]
    <3>1. last[k] < sent[k]
      BY <2>5, <2>6, <2>10
    <3>2. last' = [last EXCEPT ![k] = @ + 1]
      BY <1>3, <2>3, <2>6, <2>7, <2>10
    <3>3. Promise!Deliver(k)
      BY <1>1, <2>10, <3>1, <3>2 DEF Promise!Deliver
    <3> QED
      BY <2>3, <2>9, <3>3 DEF Promise!Next
  <2>11. CASE last[k] = popped[k] + 1
    <3>1. last' = last
      BY <1>3, <2>3, <2>6, <2>7, <2>11
    <3> QED
      BY <1>1, <2>9, <3>1 DEF Promise!vars
  <2> QED
    BY <2>6, <2>10, <2>11
<1> QED
  BY <1>1, <1>2, <1>3

\* Shutdown is for good.
LEMMA ShutdownStays ==
  ASSUME [BridgeNext]_bridgeVars
  PROVE  shutting_down => shutting_down'
<1>1. CASE UNCHANGED bridgeVars
  BY <1>1 DEF bridgeVars, vars
<1>2. CASE \/ \E k \in Ids : SendReliable(k) \/ RetryExpires(k)
           \/ \E throws \in BOOLEAN : RunReliable(throws) \/ BridgeWriteDone(throws)
           \/ \E k \in Ids, s \in 0 .. SeqValues - 1, throws \in BOOLEAN : RunRetry(k, s, throws)
           \/ \E sendThrows, throws \in BOOLEAN : ParseReliableAck(sendThrows, throws)
           \/ BridgeFlush \/ LoseFrame
  BY <1>2 DEF SendReliable, RetryExpires, RunReliable, BridgeWriteDone, WriteDone, RunRetry,
     ParseReliableAck, BridgeFlush, Flush, LoseFrame, envVars, vars
<1>3. CASE \/ TimerTick("check") \/ TimerTick("heartbeat") \/ SendData \/ Shutdown
           \/ CheckConnected \/ HeartbeatWaiting \/ HeartbeatRetry \/ HeartbeatNext
           \/ RunDrained \/ StaleDone \/ LoseReply \/ WindowPasses
  BY <1>3 DEF TimerTick, SendData, Shutdown, CheckConnected, HeartbeatWaiting, HeartbeatRetry,
     HeartbeatNext, RunDrained, StaleDone, LoseReply, WindowPasses, envVars
<1>4. CASE \/ OpenFails \/ HeartbeatTimeout \/ RunDestroy \/ ReadFails \/ WriteFails
           \/ \E throws \in BOOLEAN : OpenSucceeds(throws) \/ RunSend(throws) \/ ParsePacket(throws)
           \/ \E n \in 0 .. ChunkPackets, throws \in BOOLEAN : ReadDone(n, throws)
  BY <1>4 DEF OpenFails, HeartbeatTimeout, RunDestroy, ReadFails, WriteFails, OpenSucceeds,
     RunSend, ParsePacket, ReadDone, envVars
<1> QED
  BY <1>1, <1>2, <1>3, <1>4 DEF BridgeNext, Silently, Resetting, Starting

\* While the node lives, its steps are those of the promise.
PInv == BInv /\ (~ shutting_down => Ordered)

\* A step of the node is one of the promise, or a stutter, until shutdown.
LEMMA PromiseStep ==
  ASSUME PInv, shutting_down \/ Unused, [BridgeNext]_bridgeVars
  PROVE  PInv' /\ [~ shutting_down => Promise!Next]_(Promise!vars)
<1>1. BInv /\ BInv' /\ (Gentle \/ Special)
  BY BridgeKeeps DEF PInv
<1>2. CASE shutting_down
  BY <1>1, <1>2, ShutdownStays DEF PInv
<1>3. CASE ~ shutting_down
  <2>1. Ordered
    BY <1>3 DEF PInv
  <2>2. ASSUME Gentle
        PROVE  Ordered' /\ (Promise!Next \/ UNCHANGED Promise!vars)
    <3>1. Ordered'
      BY <1>1, <1>3, <2>1, <2>2, GentleOrdered
    <3>2. UNCHANGED <<sent, last, popped>>
      BY <2>2 DEF Gentle, historyVars
    <3>3. shutting_down \in BOOLEAN /\ shutting_down' \in BOOLEAN
      BY <1>1 DEF BInv, CInv, TInv
    <3>4. shutting_down' = shutting_down \/ shutting_down' = TRUE
      BY <1>3, <3>3
    <3>5. CASE shutting_down' = shutting_down
      BY <3>1, <3>2, <3>5 DEF Promise!vars
    <3>6. CASE shutting_down' = TRUE
      BY <3>1, <3>2, <3>6 DEF Promise!Next, Promise!Stop
    <3> QED
      BY <3>4, <3>5, <3>6
  <2>3. ASSUME Special
        PROVE  Ordered' /\ (Promise!Next \/ UNCHANGED Promise!vars)
    <3>1. CASE \E k \in Ids : SendReliable(k)
      BY <1>1, <1>3, <2>1, <3>1, SubmitOrdered
    <3>2. CASE \E throws \in BOOLEAN : RunReliable(throws)
      BY <1>1, <1>3, <2>1, <3>2, EnqueueOrdered
    <3>3. CASE \E sendThrows, throws \in BOOLEAN : ParseReliableAck(sendThrows, throws)
      BY <1>1, <1>3, <2>1, <2>2, <3>3, AckOrdered
    <3>4. CASE BridgeFlush
      BY <1>1, <1>3, <2>1, <3>4, FlushOrdered
    <3> QED
      BY <2>3, <3>1, <3>2, <3>3, <3>4 DEF Special
  <2> QED
    BY <1>1, <2>2, <2>3 DEF PInv
<1> QED
  BY <1>2, <1>3

\* The first state.
LEMMA PromiseBegins == BridgeInit => PInv /\ Promise!Init
<1> SUFFICES ASSUME BridgeInit PROVE Ordered /\ Promise!Init
  BY BridgeBegins DEF PInv
<1>1. BInv
  BY BridgeBegins
<1>2. /\ last = [k \in Ids |-> 0] /\ sent = [k \in Ids |-> 0] /\ popped = [k \in Ids |-> 0]
      /\ pending = Cleared /\ shutting_down = FALSE /\ rest = <<>> /\ line = <<>>
  BY DEF BridgeInit, Init
<1>3. ctl.ring = <<>> /\ ctl.strand = <<>>
  <2>1. Init
    BY DEF BridgeInit
  <2> QED
    BY <2>1 DEF Init
<1>4. Travelling = {}
  BY <1>2, <1>3, NoneIsList DEF Travelling
<1>5. \A k \in Ids : Kept(k, <<>>, <<>>, 0, 0, 0, {})
  <2>1. Len(<<>>) = 0
    BY NoneIsList
  <2>2. Posted(1, <<>>, 0, 0) /\ \A k : Posted(k, <<>>, 0, 0)
    BY <2>1 DEF Posted
  <2> QED
    BY <2>1, <2>2 DEF Kept
<1>6. Ordered
  BY <1>2, <1>3, <1>4, <1>5 DEF Ordered, Cleared
<1> QED
  BY <1>2, <1>6 DEF Promise!Init

\* Until it shuts down, the node implements the abstract FIFO, through resets,
\* handshakes, lost frames and refusals: provided that a sequence number is not
\* given again while an ACK that bears it is still on its way.
THEOREM NodeKeepsPromise == BridgeSpec /\ []Unused => KeepsPromise
<1>1. BridgeInit => PInv /\ Promise!Init
  BY PromiseBegins
<1>2. PInv /\ Unused /\ [BridgeNext]_bridgeVars
        => PInv' /\ [~ shutting_down => Promise!Next]_(Promise!vars)
  BY PromiseStep
<1> QED
  BY <1>1, <1>2, PTL DEF BridgeSpec, KeepsPromise

-----------------------------------------------------------------------------
(* When there are more numbers than messages, none is given twice.         *)

Submittable == {x \in Ids \X Nat : 1 <= x[2] /\ x[2] <= MaxSend[x[1]]}

EnoughNumbers == IsFiniteSet(Submittable) /\ Cardinality(Submittable) < SeqValues

\* The messages of each id that have had their number, and all of them.
Numbering == [k \in Ids |-> popped[k] + (IF pending[k] = <<>> THEN 0 ELSE 1)]
Given(n) == {x \in Ids \X Nat : 1 <= x[2] /\ x[2] <= n[x[1]]}

\* Numbers are given once each, in order, and everything that bears one bears
\* one that has been given.
Fresh ==
  /\ IsFiniteSet(Given(Numbering)) /\ Cardinality(Given(Numbering)) = seq_counter
  /\ \A k \in Ids : sent[k] <= MaxSend[k]
  /\ \A x \in Travelling : IsAck(x) => x.seq \in 0 .. seq_counter - 1
  /\ \A k \in Ids : pending[k] # <<>> => pending[k][1].expected_seq \in 0 .. seq_counter - 1

\* A number in use is not the next one.
LEMMA FreshUnused == Fresh => Unused
<1> SUFFICES ASSUME Fresh PROVE Unused
  OBVIOUS
<1>1. seq_counter \in Nat
  BY FS_CardinalityType DEF Fresh
<1>2. seq_counter \notin 0 .. seq_counter - 1
  BY <1>1
<1> QED
  BY <1>2 DEF Fresh, Unused

\* One more message has its number.
LEMMA GivenGrows ==
  ASSUME NEW n \in [Ids -> Nat], NEW k \in Ids, NEW m,
         \A i \in Ids : m[i] = IF i = k THEN n[i] + 1 ELSE n[i],
         IsFiniteSet(Given(n))
  PROVE  /\ IsFiniteSet(Given(m)) /\ Cardinality(Given(n)) \in Nat
         /\ Cardinality(Given(m)) = Cardinality(Given(n)) + 1
<1> DEFINE x == <<k, n[k] + 1>>
           A == Given(n)
           B == Given(m)
<1>1. n[k] \in Nat
  OBVIOUS
<1>2. \A y \in Ids \X Nat : y \in B <=> y \in A \/ y = x
  <2> HIDE DEF A, B, x
  <2> SUFFICES ASSUME NEW i \in Ids, NEW j \in Nat
               PROVE  <<i, j>> \in B <=> <<i, j>> \in A \/ <<i, j>> = x
    OBVIOUS
  <2>1. /\ <<i, j>> \in A <=> 1 <= j /\ j <= n[i]
        /\ <<i, j>> \in B <=> 1 <= j /\ j <= m[i]
    BY DEF Given, A, B
  <2>2. m[i] = IF i = k THEN n[k] + 1 ELSE n[i]
    OBVIOUS
  <2>3. <<i, j>> = x <=> i = k /\ j = n[k] + 1
    BY DEF x
  <2>4. CASE i = k
    BY <1>1, <2>1, <2>2, <2>3, <2>4
  <2>5. CASE i # k
    BY <2>1, <2>2, <2>3, <2>5
  <2> QED
    BY <2>4, <2>5
<1>3. A \subseteq Ids \X Nat /\ B \subseteq Ids \X Nat /\ x \in Ids \X Nat
  BY <1>1 DEF Given
<1>4. x \notin A
  BY <1>1 DEF Given
<1> HIDE DEF A, B, x
<1>5. B = A \cup {x}
  BY <1>2, <1>3
<1>6. IsFiniteSet(A)
  BY DEF A
<1>7. Cardinality(A) \in Nat
  BY <1>6, FS_CardinalityType
<1>8. IsFiniteSet(B) /\ Cardinality(B) = Cardinality(A) + 1
  BY <1>4, <1>5, <1>6, FS_AddElement
<1> QED
  BY <1>7, <1>8 DEF A, B

\* What has its number has been submitted.
LEMMA NumberingSent ==
  ASSUME BInv, Ordered, NEW k \in Ids
  PROVE  Numbering[k] \in Nat /\ Numbering[k] <= sent[k]
<1>1. /\ pending[k] \in Queues /\ Len(pending[k]) \in Nat
      /\ popped[k] \in Nat /\ sent[k] \in Nat
  BY KeptTypes
<1>2. popped[k] + Len(pending[k]) <= sent[k]
  BY DEF Ordered, Kept
<1>3. pending[k] # <<>> => Len(pending[k]) \in Nat \ {0}
  BY <1>1, ShorterQueue
<1> QED
  BY <1>1, <1>2, <1>3 DEF Numbering

\* A number is given: the counter does not wrap.
LEMMA NumberGiven ==
  ASSUME EnoughNumbers, BInv, Ordered, Fresh, BInv', Ordered',
         \A j \in Ids : sent'[j] <= MaxSend[j],
         NEW k \in Ids, Numbering' = [Numbering EXCEPT ![k] = @ + 1],
         seq_counter' = (seq_counter + 1) % SeqValues
  PROVE  /\ seq_counter \in Nat /\ seq_counter' = seq_counter + 1
         /\ IsFiniteSet(Given(Numbering')) /\ Cardinality(Given(Numbering')) = seq_counter'
<1> DEFINE n == Numbering
           m == Numbering'
<1>1. n \in [Ids -> Nat]
  <2>1. \A j \in Ids : n[j] \in Nat
    BY NumberingSent
  <2> QED
    BY <2>1 DEF Numbering
<1>2. \A j \in Ids : m[j] \in Nat /\ m[j] <= MaxSend[j]
  <2>1. \A j \in Ids : n[j] \in Nat /\ n[j] <= sent[j] /\ sent[j] \in Nat
    BY NumberingSent, KeptTypes
  <2>2. ASSUME NEW j \in Ids PROVE m[j] \in Nat /\ m[j] <= sent'[j] /\ sent'[j] \in Nat
    <3>1. /\ pending'[j] \in Queues /\ popped'[j] \in Nat /\ sent'[j] \in Nat
      BY DEF BInv, Agreed, Queues, Sender!Entry, Sender!Seqs, Sender!Gens
    <3>2. popped'[j] + Len(pending'[j]) <= sent'[j]
      BY DEF Ordered, Kept
    <3>3. Len(pending'[j]) \in Nat
      BY <3>1 DEF Queues
    <3>4. pending'[j] # <<>> => Len(pending'[j]) \in Nat \ {0}
      BY <3>1, ShorterQueue
    <3>5. m[j] = popped'[j] + (IF pending'[j] = <<>> THEN 0 ELSE 1)
      BY DEF Numbering
    <3> HIDE DEF m
    <3> QED
      BY <3>1, <3>2, <3>3, <3>4, <3>5
  <2>3. \A j \in Ids : MaxSend[j] \in Nat
    BY BridgeAssumption
  <2> HIDE DEF m
  <2> QED
    BY <2>2, <2>3
<1>3. IsFiniteSet(Given(n)) /\ Cardinality(Given(n)) = seq_counter
  BY DEF Fresh
<1>4. \A i \in Ids : m[i] = IF i = k THEN n[i] + 1 ELSE n[i]
  BY <1>1
<1> HIDE DEF n, m
<1>5. /\ IsFiniteSet(Given(m)) /\ seq_counter \in Nat
      /\ Cardinality(Given(m)) = seq_counter + 1
  BY <1>1, <1>3, <1>4, GivenGrows
<1>6. Given(m) \subseteq Submittable
  <2> SUFFICES ASSUME NEW i \in Ids, NEW j \in Nat, <<i, j>> \in Given(m)
               PROVE  <<i, j>> \in Submittable
    BY DEF Given
  <2>1. 1 <= j /\ j <= m[i] /\ m[i] \in Nat /\ m[i] <= MaxSend[i] /\ MaxSend[i] \in Nat
    BY <1>2, BridgeAssumption DEF Given
  <2>2. j <= MaxSend[i]
    BY <2>1
  <2> QED
    BY <2>1, <2>2 DEF Submittable
<1>7. seq_counter + 1 <= Cardinality(Submittable) /\ Cardinality(Submittable) \in Nat
  BY <1>5, <1>6, FS_Subset, FS_CardinalityType DEF EnoughNumbers
<1>8. seq_counter + 1 < SeqValues /\ SeqValues \in Nat \ {0}
  BY <1>5, <1>7, BridgeAssumption DEF EnoughNumbers
<1>9. (seq_counter + 1) % SeqValues = seq_counter + 1
  BY <1>5, <1>8
<1> QED
  BY <1>5, <1>9 DEF m

\* A gentle step gives no number.
LEMMA GentleFresh ==
  ASSUME Fresh, ~ shutting_down, Gentle
  PROVE  Fresh'
<1>1. /\ \A x \in Travelling' : IsAck(x) => x \in Travelling
      /\ seq_counter' = seq_counter /\ popped' = popped /\ sent' = sent
      /\ \A k \in Ids : Alike(pending[k], pending'[k])
  BY DEF Gentle, historyVars
<1>2. Numbering' = Numbering
  BY <1>1 DEF Numbering, Alike
<1>3. \A k \in Ids : pending'[k] # <<>> => pending[k] # <<>>
        /\ pending'[k][1].expected_seq = pending[k][1].expected_seq
  BY <1>1 DEF Alike
<1> QED
  BY <1>1, <1>2, <1>3 DEF Fresh, Given, IsAck

\* reliable_send gives none.
LEMMA SubmitFresh ==
  ASSUME BInv, Fresh, NEW k \in Ids, SendReliable(k)
  PROVE  Fresh'
<1>1. /\ UNCHANGED <<pending, popped, seq_counter>>
      /\ sent[k] < MaxSend[k] /\ sent' = [sent EXCEPT ![k] = @ + 1]
  BY DEF SendReliable
<1>2. Travelling' = Travelling
  BY SubmitBridge DEF Travelling
<1>3. \A j \in Ids : sent'[j] <= MaxSend[j]
  <2>1. sent \in [Ids -> Nat] /\ MaxSend[k] \in Nat /\ sent[k] \in Nat
    BY BridgeAssumption DEF BInv
  <2>2. sent[k] + 1 <= MaxSend[k]
    BY <1>1, <2>1
  <2> QED
    BY <1>1, <2>1, <2>2 DEF Fresh
<1>4. Numbering' = Numbering
  BY <1>1 DEF Numbering
<1> QED
  BY <1>1, <1>2, <1>3, <1>4 DEF Fresh, Given, IsAck

\* The task of a message numbers it when its queue was empty.
LEMMA EnqueueFresh ==
  ASSUME EnoughNumbers, BInv, Ordered, Fresh, ~ shutting_down, BInv', Ordered',
         NEW throws \in BOOLEAN, RunReliable(throws)
  PROVE  Fresh'
<1> DEFINE t == Head(ctl.strand)
           k == t.key
           z == t.msg
           q == pending[k]
           e == Sender!NewEntry(z)
           o == Append(q, e)
<1>1. /\ k \in Ids /\ z \in Nat /\ Travelling' \subseteq Travelling
      /\ popped' = popped /\ sent' = sent /\ Queued(k, z)
  BY EnqueueBridge DEF historyVars
<1>2. q \in Queues
  BY <1>1, KeptTypes
<1>3. /\ o # <<>> /\ Len(q) \in Nat /\ Len(o) = Len(q) + 1
      /\ q # <<>> => Len(o) # 1
      /\ q = <<>> => o[1] = e /\ Len(o) = 1
  BY <1>1, <1>2, LongerQueue
<1>4. IF Len(o) = 1 THEN Number(o) ELSE seq_counter' = seq_counter
  BY DEF RunReliable
<1>5. ~ e.seq_assigned /\ ~ e.send_in_progress
  BY <1>1, NewIsUntouched DEF Untouched
<1>6. /\ SameMessages(o, pending'[k])
      /\ \A j \in Ids \ {k} : Alike(pending[j], pending'[j])
      /\ pending'[k][1].expected_seq = IF q = <<>> THEN seq_counter ELSE q[1].expected_seq
  BY <1>1 DEF Queued
<1> HIDE DEF e, o, t
<1>7. pending'[k] # <<>>
  BY <1>3, <1>6 DEF SameMessages
<1>8. \A j \in Ids \ {k} : /\ Numbering'[j] = Numbering[j]
                           /\ pending'[j] # <<>> => pending[j] # <<>>
                           /\ pending'[j] # <<>> =>
                                pending'[j][1].expected_seq = pending[j][1].expected_seq
  BY <1>1, <1>6 DEF Numbering, Alike
<1>9. \A j \in Ids : sent'[j] <= MaxSend[j]
  BY <1>1 DEF Fresh
<1>10. popped[k] \in Nat /\ \A j \in Ids : Numbering[j] \in Nat
  BY <1>1, KeptTypes, NumberingSent
<1>11. CASE q # <<>>
  <2>1. seq_counter' = seq_counter
    BY <1>3, <1>4, <1>11
  <2>2. Numbering'[k] = Numbering[k]
    BY <1>1, <1>7, <1>11 DEF Numbering
  <2>3. Numbering' = Numbering
    <3>1. \A j \in Ids : Numbering'[j] = Numbering[j]
      BY <1>8, <2>2
    <3> QED
      BY <3>1 DEF Numbering
  <2>4. \A j \in Ids : pending'[j] # <<>> =>
          pending'[j][1].expected_seq \in 0 .. seq_counter - 1
    BY <1>1, <1>6, <1>8, <1>11 DEF Fresh
  <2> QED
    BY <1>1, <1>9, <2>1, <2>3, <2>4 DEF Fresh, Given, IsAck
<1>12. CASE q = <<>>
  <2>1. seq_counter' = (seq_counter + 1) % SeqValues
    BY <1>3, <1>4, <1>5, <1>12 DEF Number, Sender!CanAttempt
  <2>2. Numbering'[k] = Numbering[k] + 1
    <3>1. Numbering[k] = popped[k] + 0 /\ Numbering'[k] = popped[k] + 1
      BY <1>1, <1>7, <1>12 DEF Numbering
    <3> QED
      BY <1>10, <3>1
  <2>3. Numbering' = [Numbering EXCEPT ![k] = @ + 1]
    <3>1. \A j \in Ids : Numbering'[j] = IF j = k THEN Numbering[k] + 1 ELSE Numbering[j]
      BY <1>8, <2>2
    <3> QED
      BY <3>1 DEF Numbering
  <2>4. /\ seq_counter \in Nat /\ seq_counter' = seq_counter + 1
        /\ IsFiniteSet(Given(Numbering')) /\ Cardinality(Given(Numbering')) = seq_counter'
    BY <1>1, <1>9, <2>1, <2>3, NumberGiven
  <2>5. /\ \A x \in 0 .. seq_counter - 1 : x \in 0 .. seq_counter' - 1
        /\ seq_counter \in 0 .. seq_counter' - 1
    BY <2>4
  <2>6. \A j \in Ids : pending'[j] # <<>> =>
          pending'[j][1].expected_seq \in 0 .. seq_counter' - 1
    BY <1>6, <1>8, <1>12, <2>5 DEF Fresh
  <2>7. \A x \in Travelling' : IsAck(x) => x.seq \in 0 .. seq_counter' - 1
    BY <1>1, <2>5 DEF Fresh
  <2> QED
    BY <1>9, <2>4, <2>6, <2>7 DEF Fresh, Given, IsAck
<1> QED
  BY <1>11, <1>12

\* An ACK lets the next message be numbered, if there is one.
LEMMA AckFresh ==
  ASSUME EnoughNumbers, BInv, Ordered, Fresh, ~ shutting_down, BInv', Ordered',
         NEW sendThrows \in BOOLEAN, NEW throws \in BOOLEAN,
         ParseReliableAck(sendThrows, throws)
  PROVE  Fresh'
<1> DEFINE a == Head(ctl.ring)
           k == a.key
           q == pending[k]
           o == Tail(q)
<1>1. CASE Gentle
  BY <1>1, GentleFresh
<1>2. CASE ~ Gentle
  <2>1. /\ k \in Ids /\ Sender!Accepts(a, q) /\ Travelling' \subseteq Travelling
        /\ popped' = [popped EXCEPT ![k] = @ + 1] /\ sent' = sent
        /\ Advanced(k, pending')
    BY <1>2, AckBridge
  <2>2. Number(o)
    BY <2>1 DEF ParseReliableAck
  <2>3. q \in Queues /\ q # <<>> /\ popped \in [Ids -> Nat] /\ popped[k] \in Nat
    BY <2>1, KeptTypes DEF Sender!Accepts, BInv
  <2>4. o # <<>> => Untouched(o[1])
    BY <2>3, ShorterQueue
  <2>5. /\ SameMessages(o, pending'[k])
        /\ \A j \in Ids \ {k} : Alike(pending[j], pending'[j])
        /\ o # <<>> => pending'[k][1].expected_seq = seq_counter
    BY <2>1 DEF Advanced
  <2> HIDE DEF a, o
  <2>6. pending'[k] = <<>> <=> o = <<>>
    BY <2>5 DEF SameMessages
  <2>7. \A j \in Ids \ {k} : /\ Numbering'[j] = Numbering[j]
                             /\ pending'[j] # <<>> => pending[j] # <<>>
                             /\ pending'[j] # <<>> =>
                                  pending'[j][1].expected_seq = pending[j][1].expected_seq
    BY <2>1, <2>3, <2>5 DEF Numbering, Alike
  <2>8. \A j \in Ids : sent'[j] <= MaxSend[j]
    BY <2>1 DEF Fresh
  <2>9. /\ Numbering[k] = popped[k] + 1
        /\ Numbering'[k] = (popped[k] + 1) + (IF o = <<>> THEN 0 ELSE 1)
    BY <2>1, <2>3, <2>6 DEF Numbering
  <2>10. CASE o = <<>>
    <3>1. seq_counter' = seq_counter
      BY <2>2, <2>10 DEF Number, Sender!CanAttempt
    <3>2. Numbering'[k] = Numbering[k]
      BY <2>3, <2>9, <2>10
    <3>3. Numbering' = Numbering
      <4>1. \A j \in Ids : Numbering'[j] = Numbering[j]
        BY <2>7, <3>2
      <4> QED
        BY <4>1 DEF Numbering
    <3>4. \A j \in Ids : pending'[j] # <<>> =>
            pending'[j][1].expected_seq \in 0 .. seq_counter - 1
      BY <2>6, <2>7, <2>10 DEF Fresh
    <3> QED
      BY <2>1, <2>8, <3>1, <3>3, <3>4 DEF Fresh, Given, IsAck
  <2>11. CASE o # <<>>
    <3>1. seq_counter' = (seq_counter + 1) % SeqValues
      BY <2>2, <2>4, <2>11 DEF Number, Sender!CanAttempt, Untouched
    <3>2. Numbering'[k] = Numbering[k] + 1
      BY <2>3, <2>9, <2>11
    <3>3. Numbering' = [Numbering EXCEPT ![k] = @ + 1]
      <4>1. \A j \in Ids : Numbering'[j] = IF j = k THEN Numbering[k] + 1 ELSE Numbering[j]
        BY <2>7, <3>2
      <4> QED
        BY <4>1 DEF Numbering
    <3>4. /\ seq_counter \in Nat /\ seq_counter' = seq_counter + 1
          /\ IsFiniteSet(Given(Numbering')) /\ Cardinality(Given(Numbering')) = seq_counter'
      BY <2>1, <2>8, <3>1, <3>3, NumberGiven
    <3>5. /\ \A x \in 0 .. seq_counter - 1 : x \in 0 .. seq_counter' - 1
          /\ seq_counter \in 0 .. seq_counter' - 1
      BY <3>4
    <3>6. \A j \in Ids : pending'[j] # <<>> =>
            pending'[j][1].expected_seq \in 0 .. seq_counter' - 1
      BY <2>5, <2>7, <2>11, <3>5 DEF Fresh
    <3>7. \A x \in Travelling' : IsAck(x) => x.seq \in 0 .. seq_counter' - 1
      BY <2>1, <3>5 DEF Fresh
    <3> QED
      BY <2>8, <3>4, <3>6, <3>7 DEF Fresh, Given, IsAck
  <2> QED
    BY <2>10, <2>11
<1> QED
  BY <1>1, <1>2

\* The ACK of a frame bears the number of its message.
LEMMA FlushFresh ==
  ASSUME BInv, Fresh, BridgeFlush
  PROVE  Fresh'
<1> DEFINE f == Head(ctl.tx_queue)
           w == f.write
<1>1. /\ UNCHANGED <<pending, seq_counter, sent, popped>>
      /\ \/ \A x \in Travelling' : IsAck(x) => x \in Travelling
         \/ /\ ctl.writing /\ IsReliable(f)
            /\ Travelling' = Travelling \cup {AckPacket(w)}
  BY FlushBridge
<1>2. Numbering' = Numbering
  BY <1>1 DEF Numbering
<1>3. \A x \in Travelling' : IsAck(x) => x.seq \in 0 .. seq_counter - 1
  <2>1. CASE \A x \in Travelling' : IsAck(x) => x \in Travelling
    BY <2>1 DEF Fresh
  <2>2. CASE /\ ctl.writing /\ IsReliable(f)
             /\ Travelling' = Travelling \cup {AckPacket(w)}
    <3>1. /\ IsList(ctl.tx_queue) /\ ctl.tx_queue # <<>> /\ OwnFrames(ctl.tx_queue)
          /\ \A j \in Ids : Single(j, pending[j], ctl.tx_queue)
      BY <2>2 DEF BInv, CInv, Link, Agreed, InStep
    <3>2. f = ctl.tx_queue[1] /\ 1 \in 1 .. Len(ctl.tx_queue)
      BY <3>1, ListShrinks
    <3>3. w.id \in Ids /\ Sender!IsLatestWrite(w, pending[w.id])
      BY <2>2, <3>1, <3>2 DEF OwnFrames, Single, IsOf
    <3> HIDE DEF w
    <3>4. pending[w.id] # <<>> /\ w.seq = pending[w.id][1].expected_seq
      BY <3>3 DEF Sender!IsLatestWrite, Sender!WriteOf
    <3>5. AckPacket(w).seq = w.seq /\ w.seq \in 0 .. seq_counter - 1
      BY <3>3, <3>4 DEF AckPacket, Fresh
    <3> QED
      BY <2>2, <3>5 DEF Fresh
  <2> QED
    BY <1>1, <2>1, <2>2
<1> QED
  BY <1>1, <1>2, <1>3 DEF Fresh, Given, IsAck

\* Every step, while the node lives.
FInv == PInv /\ (~ shutting_down => Fresh)

\* The numbers stay fresh, and so the steps are those of the promise.
LEMMA FreshStep ==
  ASSUME EnoughNumbers, FInv, [BridgeNext]_bridgeVars
  PROVE  FInv' /\ [~ shutting_down => Promise!Next]_(Promise!vars)
<1>1. PInv' /\ [~ shutting_down => Promise!Next]_(Promise!vars)
  BY PromiseStep, FreshUnused DEF FInv
<1>2. BInv /\ BInv' /\ (Gentle \/ Special)
  BY BridgeKeeps DEF FInv, PInv
<1>3. ASSUME ~ shutting_down' PROVE Fresh'
  <2>1. ~ shutting_down
    BY <1>3, ShutdownStays
  <2>2. Ordered /\ Fresh /\ Ordered'
    BY <1>1, <1>3, <2>1 DEF FInv, PInv
  <2>3. CASE Gentle
    BY <2>1, <2>2, <2>3, GentleFresh
  <2>4. CASE \E k \in Ids : SendReliable(k)
    BY <1>2, <2>2, <2>4, SubmitFresh
  <2>5. CASE \E throws \in BOOLEAN : RunReliable(throws)
    BY <1>2, <2>1, <2>2, <2>5, EnqueueFresh
  <2>6. CASE \E sendThrows, throws \in BOOLEAN : ParseReliableAck(sendThrows, throws)
    BY <1>2, <2>1, <2>2, <2>6, AckFresh
  <2>7. CASE BridgeFlush
    BY <1>2, <2>2, <2>7, FlushFresh
  <2> QED
    BY <1>2, <2>3, <2>4, <2>5, <2>6, <2>7 DEF Special
<1> QED
  BY <1>1, <1>3 DEF FInv

\* The first state.
LEMMA FreshBegins == BridgeInit => FInv /\ Promise!Init
<1> SUFFICES ASSUME BridgeInit PROVE Fresh
  BY PromiseBegins DEF FInv
<1>1. /\ sent = [k \in Ids |-> 0] /\ popped = [k \in Ids |-> 0]
      /\ pending = Cleared /\ seq_counter = 0 /\ rest = <<>> /\ line = <<>>
  BY DEF BridgeInit, Init
<1>2. ctl.ring = <<>>
  <2>1. Init
    BY DEF BridgeInit
  <2> QED
    BY <2>1 DEF Init
<1>3. Travelling = {}
  BY <1>1, <1>2, NoneIsList DEF Travelling
<1>4. \A k \in Ids : Numbering[k] = 0 /\ pending[k] = <<>>
  BY <1>1 DEF Numbering, Cleared
<1>5. Given(Numbering) = {}
  BY <1>4 DEF Given
<1>6. \A k \in Ids : sent[k] <= MaxSend[k]
  BY <1>1, BridgeAssumption
<1> QED
  BY <1>1, <1>3, <1>4, <1>5, <1>6, FS_EmptySet DEF Fresh

\* With more sequence numbers than messages the proviso holds by itself: the node
\* implements the abstract FIFO until it shuts down.
THEOREM EnoughKeepsPromise == EnoughNumbers => (BridgeSpec => KeepsPromise)
<1> SUFFICES ASSUME EnoughNumbers PROVE BridgeSpec => KeepsPromise
  OBVIOUS
<1>1. BridgeInit => FInv /\ Promise!Init
  BY FreshBegins
<1>2. FInv /\ [BridgeNext]_bridgeVars
        => FInv' /\ [~ shutting_down => Promise!Next]_(Promise!vars)
  BY FreshStep
<1> QED
  BY <1>1, <1>2, PTL DEF BridgeSpec, KeepsPromise
=============================================================================
