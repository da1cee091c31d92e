---------------------------- MODULE CodegenProofs ----------------------------
(***************************************************************************)
(* The code generator.  What the protocol hash decides: firmware that the  *)
(* handshake accepts understands the node and is understood, for every     *)
(* protocol and every history of edits, builds and installations.  And the *)
(* generated callback and dispatch code is safe for every protocol file:   *)
(* whatever paths its fields name, whatever arrays the ROS type has and    *)
(* whatever message arrives.                                               *)
(***************************************************************************)
EXTENDS ProtocolBuild, RosBindings, FiniteSetTheorems, SequenceTheorems, TLAPS

\* A size more in a payload.
AddSize(sum, n) == sum + n

Sizes == INSTANCE FoldFacts WITH op <- AddSize

-----------------------------------------------------------------------------
(* Largest elements.                                                       *)

\* Finitely many numbers have a bound.
LEMMA Bounded ==
  ASSUME NEW n \in Nat, NEW g, \A i \in 1 .. n : g[i] \in Nat
  PROVE  \E b \in Nat : \A i \in 1 .. n : g[i] <= b
<1> DEFINE BoundedTo(k) == \E b \in Nat : \A i \in 1 .. k : g[i] <= b
           Bad == {k \in 0 .. n : ~ BoundedTo(k)}
<1>1. SUFFICES BoundedTo(n)
  OBVIOUS
<1>2. SUFFICES ASSUME Bad # {} PROVE FALSE
  <2>1. n \in 0 .. n
    OBVIOUS
  <2> QED
    BY <2>1
<1> HIDE DEF BoundedTo
<1>3. Bad \subseteq Nat
  OBVIOUS
<1>4. PICK k \in Bad : \A m \in Bad : k <= m
  BY <1>2, <1>3, Sizes!Least
<1>5. k \in 0 .. n /\ k \in Nat
  OBVIOUS
<1>6. k # 0
  BY BoundedTo(0) DEF BoundedTo
<1>7. BoundedTo(k - 1)
  <2>1. k - 1 \in 0 .. n /\ ~ (k <= k - 1)
    BY <1>5, <1>6
  <2>2. k - 1 \notin Bad
    BY <1>4, <2>1
  <2> QED
    BY <2>1, <2>2
<1>8. PICK b \in Nat : \A i \in 1 .. k - 1 : g[i] <= b
  BY <1>7 DEF BoundedTo
<1>9. g[k] \in Nat
  BY <1>5, <1>6
<1>10. PICK c \in Nat : b <= c /\ g[k] <= c
  <2>1. CASE b <= g[k]
    BY <2>1, <1>9
  <2>2. CASE ~ (b <= g[k])
    BY <2>2, <1>9
  <2> QED
    BY <2>1, <2>2
<1>11. \A i \in 1 .. k : g[i] <= c
  <2>1. SUFFICES ASSUME NEW i \in 1 .. k PROVE g[i] <= c
    OBVIOUS
  <2>2. CASE i = k
    BY <2>2, <1>10
  <2>3. CASE i # k
    <3>1. i \in 1 .. k - 1 /\ i \in 1 .. n
      BY <2>3, <1>5
    <3>2. g[i] <= b /\ g[i] \in Nat
      BY <3>1, <1>8
    <3> QED
      BY <3>2, <1>10
  <2> QED
    BY <2>2, <2>3
<1> QED
  BY <1>11, <1>10 DEF BoundedTo

\* And a bounded set of them has a largest element.
LEMMA Greatest ==
  ASSUME NEW S, S \subseteq Nat, S # {}, NEW b \in Nat, \A x \in S : x <= b
  PROVE  \E x \in S : \A y \in S : y <= x
<1> DEFINE T == {b - x : x \in S}
<1>1. T \subseteq Nat /\ T # {}
  <2>1. ASSUME NEW x \in S PROVE b - x \in Nat
    <3>1. x \in Nat /\ x <= b
      OBVIOUS
    <3> QED
      BY <3>1
  <2> QED
    BY <2>1
<1>2. PICK t \in T : \A u \in T : t <= u
  BY <1>1, Sizes!Least
<1>3. PICK x \in S : t = b - x
  OBVIOUS
<1>4. ASSUME NEW y \in S PROVE y <= x
  <2>1. b - y \in T
    OBVIOUS
  <2>2. b - x <= b - y
    BY <2>1, <1>2, <1>3
  <2>3. x \in Nat /\ y \in Nat
    OBVIOUS
  <2> QED
    BY <2>2, <2>3
<1> QED
  BY <1>4

-----------------------------------------------------------------------------
(* Sorting by id: Position is a permutation.                               *)

\* A list of messages that have integer ids.
Numbered(s) ==
  /\ Len(s) \in Nat /\ DOMAIN s = 1 .. Len(s)
  /\ \A k \in DOMAIN s : s[k].id \in Int

\* What is not behind s[k] after sorting.
UpTo(s, k) ==
  {j \in DOMAIN s : s[j].id < s[k].id \/ (s[j].id = s[k].id /\ j <= k)}

\* The list has finitely many places.
LEMMA Places ==
  ASSUME NEW s, Numbered(s)
  PROVE  /\ Len(s) \in Nat /\ DOMAIN s = 1 .. Len(s)
         /\ IsFiniteSet(DOMAIN s) /\ Cardinality(DOMAIN s) = Len(s)
<1>1. Len(s) \in Nat /\ DOMAIN s = 1 .. Len(s)
  BY DEF Numbered
<1> DEFINE n == Len(s)
<1> HIDE DEF n
<1>2. IsFiniteSet(1 .. n) /\ Cardinality(1 .. n) = n
  <2>1. n \in Int /\ 1 \in Int /\ n \in Nat
    BY <1>1 DEF n
  <2>2. IsFiniteSet(1 .. n) /\ Cardinality(1 .. n) = IF 1 > n THEN 0 ELSE n - 1 + 1
    BY <2>1, FS_Interval
  <2> QED
    BY <2>1, <2>2
<1> QED
  BY <1>1, <1>2 DEF n

\* UpTo is a finite set of places, k among them.
LEMMA UpToFinite ==
  ASSUME NEW s, Numbered(s), NEW k \in DOMAIN s
  PROVE  /\ UpTo(s, k) \subseteq DOMAIN s /\ k \in UpTo(s, k)
         /\ IsFiniteSet(UpTo(s, k))
         /\ Position(s, k) = Cardinality(UpTo(s, k))
         /\ Cardinality(UpTo(s, k)) \in 1 .. Len(s)
<1>1. UpTo(s, k) \subseteq DOMAIN s
  BY DEF UpTo
<1>2. k \in UpTo(s, k)
  BY Places DEF UpTo, Numbered
<1>3. IsFiniteSet(UpTo(s, k)) /\ Cardinality(UpTo(s, k)) <= Len(s)
  BY <1>1, Places, FS_Subset
<1>4. Cardinality(UpTo(s, k)) \in Nat
  BY <1>3, FS_CardinalityType
<1>5. Cardinality(UpTo(s, k)) # 0
  BY <1>2, <1>3, FS_EmptySet
<1>6. Position(s, k) = Cardinality(UpTo(s, k))
  BY DEF Position, UpTo
<1>7. Cardinality(UpTo(s, k)) \in 1 .. Len(s)
  BY <1>3, <1>4, <1>5, Places
<1> QED
  BY <1>1, <1>2, <1>3, <1>6, <1>7

\* What comes later by id, or by place for the same id, has a later position.
LEMMA PositionGrows ==
  ASSUME NEW s, Numbered(s), NEW j \in DOMAIN s, NEW k \in DOMAIN s,
         s[j].id < s[k].id \/ (s[j].id = s[k].id /\ j < k)
  PROVE  Position(s, j) < Position(s, k)
<1>1. j \in Int /\ k \in Int /\ s[j].id \in Int /\ s[k].id \in Int
  BY Places DEF Numbered
<1>2. UpTo(s, j) \subseteq UpTo(s, k)
  <2> SUFFICES ASSUME NEW i \in UpTo(s, j) PROVE i \in UpTo(s, k)
    OBVIOUS
  <2>1. i \in DOMAIN s /\ i \in Int /\ s[i].id \in Int
    BY Places DEF UpTo, Numbered
  <2>2. s[i].id < s[j].id \/ (s[i].id = s[j].id /\ i <= j)
    BY DEF UpTo
  <2>3. s[i].id < s[k].id \/ (s[i].id = s[k].id /\ i <= k)
    BY <1>1, <2>1, <2>2
  <2> QED
    BY <2>1, <2>3 DEF UpTo
<1>3. k \notin UpTo(s, j)
  BY <1>1 DEF UpTo
<1>4. UpTo(s, j) # UpTo(s, k)
  BY <1>3, UpToFinite
<1>5. Cardinality(UpTo(s, j)) <= Cardinality(UpTo(s, k))
      /\ Cardinality(UpTo(s, j)) # Cardinality(UpTo(s, k))
  BY <1>2, <1>4, UpToFinite, FS_Subset
<1>6. /\ Cardinality(UpTo(s, j)) \in Int /\ Cardinality(UpTo(s, k)) \in Int
      /\ Position(s, j) = Cardinality(UpTo(s, j))
      /\ Position(s, k) = Cardinality(UpTo(s, k))
  BY UpToFinite
<1> QED
  BY <1>5, <1>6

\* No two messages get the same position.
LEMMA PositionInjective ==
  ASSUME NEW s, Numbered(s), NEW j \in DOMAIN s, NEW k \in DOMAIN s,
         Position(s, j) = Position(s, k)
  PROVE  j = k
<1>1. j \in Int /\ k \in Int /\ s[j].id \in Int /\ s[k].id \in Int
  BY Places DEF Numbered
<1>2. Position(s, j) \in Int /\ Position(s, k) \in Int
  BY UpToFinite
<1>3. \/ j = k
      \/ s[j].id < s[k].id \/ (s[j].id = s[k].id /\ j < k)
      \/ s[k].id < s[j].id \/ (s[k].id = s[j].id /\ k < j)
  BY <1>1
<1>4. ~(Position(s, j) < Position(s, k)) /\ ~(Position(s, k) < Position(s, j))
  BY <1>2
<1> QED
  BY <1>3, <1>4, PositionGrows

\* And each position is taken.
LEMMA PositionOnto ==
  ASSUME NEW s, Numbered(s), NEW i \in DOMAIN s
  PROVE  \E k \in DOMAIN s : Position(s, k) = i
<1> DEFINE f == [k \in DOMAIN s |-> Position(s, k)]
<1>1. f \in [DOMAIN s -> DOMAIN s]
  BY UpToFinite, Places
<1>2. \A j, k \in DOMAIN s : f[j] = f[k] => j = k
  BY PositionInjective
<1>3. f \in Injection(DOMAIN s, DOMAIN s)
  BY <1>1, <1>2 DEF Injection, IsInjective
<1>4. f \in Surjection(DOMAIN s, DOMAIN s)
  BY <1>3, Places, FS_Injection
<1>5. \E k \in DOMAIN s : f[k] = i
  BY <1>4 DEF Surjection
<1> QED
  BY <1>5

-----------------------------------------------------------------------------
(* Merging the messages of a valid file.                                   *)

\* The messages of the file, then the built-in ones.
LEMMA FileThenSystem ==
  ASSUME NEW d, Valid(d)
  PROVE  \E n \in Nat :
           /\ n = Len(d.messages) /\ DOMAIN d.messages = 1 .. n
           /\ Len(UnmergedMessages(d)) = n + 3
           /\ DOMAIN UnmergedMessages(d) = 1 .. (n + 3)
           /\ \A k \in 1 .. n : UnmergedMessages(d)[k] = d.messages[k]
           /\ \A k \in (n + 1) .. (n + 3) :
                k - n \in 1 .. 3 /\ UnmergedMessages(d)[k] = SYSTEM_MESSAGES[k - n]
<1> DEFINE s == UnmergedMessages(d)
           n == Len(d.messages)
<1>1. d.messages \in Seq(Range(d.messages)) /\ n \in Nat /\ DOMAIN d.messages = 1 .. n
  BY DEF Valid
<1>2. SYSTEM_MESSAGES \in Seq(Range(SYSTEM_MESSAGES)) /\ Len(SYSTEM_MESSAGES) = 3
  BY DEF SYSTEM_MESSAGES, Range
<1>3. /\ Len(s) = n + 3 /\ DOMAIN s = 1 .. (n + 3)
      /\ \A k \in 1 .. n : s[k] = d.messages[k]
      /\ \A k \in (n + 1) .. (n + 3) : k - n \in 1 .. 3 /\ s[k] = SYSTEM_MESSAGES[k - n]
  <2> DEFINE S == Range(d.messages) \cup Range(SYSTEM_MESSAGES)
  <2>1. d.messages \in Seq(S) /\ SYSTEM_MESSAGES \in Seq(S)
    BY <1>1, <1>2
  <2> HIDE DEF S
  <2> DEFINE a == d.messages
             b == SYSTEM_MESSAGES
  <2>2. a \in Seq(S) /\ b \in Seq(S) /\ Len(a) = n /\ Len(b) = 3 /\ s = a \o b
    BY <1>2, <2>1 DEF UnmergedMessages
  <2> HIDE DEF a, b, s, n
  <2>3. /\ s \in Seq(S) /\ Len(s) = n + 3
        /\ \A k \in 1 .. (n + 3) : s[k] = IF k <= n THEN a[k] ELSE b[k - n]
    <3>1. /\ a \o b \in Seq(S)
          /\ Len(a \o b) = Len(a) + Len(b)
          /\ \A k \in 1 .. (Len(a) + Len(b)) :
               (a \o b)[k] = IF k <= Len(a) THEN a[k] ELSE b[k - Len(a)]
      BY <2>2, ConcatProperties, Zenon
    <3> QED
      BY <2>2, <3>1, Zenon
  <2>4. n \in Nat
    BY <1>1 DEF n
  <2>5. \A k \in 1 .. n : s[k] = a[k]
    BY <2>3, <2>4
  <2>6. \A k \in (n + 1) .. (n + 3) : k - n \in 1 .. 3 /\ s[k] = b[k - n]
    BY <2>3, <2>4
  <2>7. DOMAIN s = 1 .. (n + 3) /\ Len(s) = n + 3
    BY <2>3, <2>4
  <2> QED
    BY <2>5, <2>6, <2>7 DEF a, b
<1> QED
  BY <1>1, <1>3

\* Validation gives the messages, built-in ones included, different ids.
LEMMA ValidNumbers ==
  ASSUME NEW d, Valid(d)
  PROVE  /\ Numbered(UnmergedMessages(d))
         /\ \A j, k \in DOMAIN UnmergedMessages(d) :
              UnmergedMessages(d)[j].id = UnmergedMessages(d)[k].id => j = k
<1> DEFINE s == UnmergedMessages(d)
<1> DEFINE n == Len(d.messages)
<1>1. d.messages \in Seq(Range(d.messages)) /\ n \in Nat /\ DOMAIN d.messages = 1 .. n
  BY DEF Valid
<1>3. /\ SYSTEM_MESSAGES[1].id = 253
      /\ SYSTEM_MESSAGES[2].id = 254
      /\ SYSTEM_MESSAGES[3].id = 255
  BY DEF SYSTEM_MESSAGES, System
<1>4. \A k \in 1 .. 3 : SYSTEM_MESSAGES[k].id = 252 + k /\ 252 + k \in ReservedIds
  <2>1. \A k \in 1 .. 3 : SYSTEM_MESSAGES[k].id = 252 + k
    BY <1>3
  <2>2. \A k \in 1 .. 3 : SYSTEM_MESSAGES[k] \in Range(SYSTEM_MESSAGES)
    BY DEF SYSTEM_MESSAGES, Range
  <2> QED
    BY <2>1, <2>2 DEF ReservedIds
<1>5. /\ Len(s) = n + 3 /\ DOMAIN s = 1 .. (n + 3)
      /\ \A k \in 1 .. n : s[k] = d.messages[k]
      /\ \A k \in (n + 1) .. (n + 3) : s[k] = SYSTEM_MESSAGES[k - n]
  <2>1. PICK m \in Nat :
           /\ m = Len(d.messages)
           /\ Len(UnmergedMessages(d)) = m + 3
           /\ DOMAIN UnmergedMessages(d) = 1 .. (m + 3)
           /\ \A k \in 1 .. m : UnmergedMessages(d)[k] = d.messages[k]
           /\ \A k \in (m + 1) .. (m + 3) :
                k - m \in 1 .. 3 /\ UnmergedMessages(d)[k] = SYSTEM_MESSAGES[k - m]
    BY FileThenSystem
  <2> HIDE DEF s
  <2> QED
    BY <2>1, Zenon DEF s
<1>6. \A k \in 1 .. n : d.messages[k].id \in 0 .. 255 \ ReservedIds
  BY <1>1 DEF Valid, MessageValid
<1> HIDE DEF s, n
<1>7. \A k \in 1 .. n : s[k].id \in Int /\ s[k].id \notin ReservedIds
  <2> SUFFICES ASSUME NEW k \in 1 .. n
               PROVE  s[k].id \in Int /\ s[k].id \notin ReservedIds
    OBVIOUS
  <2>1. s[k].id \in 0 .. 255 \ ReservedIds
    BY <1>5, <1>6
  <2> QED
    BY <2>1
<1>8. \A k \in (n + 1) .. (n + 3) : s[k].id = 252 + (k - n) /\ s[k].id \in ReservedIds
  <2> SUFFICES ASSUME NEW k \in (n + 1) .. (n + 3)
               PROVE  s[k].id = 252 + (k - n) /\ s[k].id \in ReservedIds
    OBVIOUS
  <2>1. k - n \in 1 .. 3
    BY <1>1
  <2> QED
    BY <1>4, <1>5, <2>1
<1>9. \A k \in DOMAIN s : s[k].id \in Int
  BY <1>1, <1>5, <1>7, <1>8
<1>10. ASSUME NEW j \in DOMAIN s, NEW k \in DOMAIN s, s[j].id = s[k].id PROVE j = k
  <2>1. CASE j \in 1 .. n /\ k \in 1 .. n
    BY <1>1, <1>5, <1>10, <2>1 DEF Valid, n
  <2>2. CASE j \in (n + 1) .. (n + 3) /\ k \in (n + 1) .. (n + 3)
    BY <1>1, <1>8, <1>10, <2>2
  <2>3. CASE \/ j \in 1 .. n /\ k \in (n + 1) .. (n + 3)
             \/ k \in 1 .. n /\ j \in (n + 1) .. (n + 3)
    BY <1>7, <1>8, <1>10, <2>3
  <2> QED
    BY <1>1, <1>5, <2>1, <2>2, <2>3
<1> QED
  BY <1>1, <1>5, <1>9, <1>10 DEF Numbered, s

\* Merging keeps the messages, and puts at i the one with position i.
LEMMA MergedMessages ==
  ASSUME NEW d, Valid(d)
  PROVE  /\ DOMAIN Merged(d) = DOMAIN UnmergedMessages(d)
         /\ Range(Merged(d)) = AllMessages(d)
         /\ \A i \in DOMAIN Merged(d) : \E k \in DOMAIN UnmergedMessages(d) :
              /\ Position(UnmergedMessages(d), k) = i
              /\ Merged(d)[i] = UnmergedMessages(d)[k]
<1> DEFINE s == UnmergedMessages(d)
<1> DEFINE at(i) == CHOOSE k \in DOMAIN s : Position(s, k) = i
<1>1. Numbered(s)
  BY ValidNumbers
<1>2. Merged(d) = [i \in DOMAIN s |-> s[at(i)]]
  BY DEF Merged
<1> HIDE DEF s
<1>3. \A i \in DOMAIN s : at(i) \in DOMAIN s /\ Position(s, at(i)) = i
  BY <1>1, PositionOnto
<1>4. \A k \in DOMAIN s : Position(s, k) \in DOMAIN s /\ at(Position(s, k)) = k
  <2> SUFFICES ASSUME NEW k \in DOMAIN s
               PROVE  Position(s, k) \in DOMAIN s /\ at(Position(s, k)) = k
    OBVIOUS
  <2>1. Position(s, k) \in DOMAIN s
    BY <1>1, UpToFinite, Places
  <2>2. at(Position(s, k)) \in DOMAIN s /\ Position(s, at(Position(s, k))) = Position(s, k)
    BY <1>3, <2>1
  <2> QED
    BY <1>1, <2>1, <2>2, PositionInjective
<1> HIDE DEF at
<1>5. Range(Merged(d)) = Range(s)
  <2>1. Range(Merged(d)) \subseteq Range(s)
    BY <1>2, <1>3 DEF Range
  <2>2. \A k \in DOMAIN s : s[k] = Merged(d)[Position(s, k)]
    BY <1>2, <1>4
  <2> QED
    BY <1>2, <1>4, <2>1, <2>2 DEF Range
<1> QED
  BY <1>2, <1>3, <1>5 DEF AllMessages, s

-----------------------------------------------------------------------------
(* Sizes.                                                                  *)

\* A message is one of the file or a built-in one.
LEMMA Origin ==
  ASSUME NEW d, Valid(d)
  PROVE  AllMessages(d) = Range(d.messages) \cup Range(SYSTEM_MESSAGES)
<1> DEFINE s == UnmergedMessages(d)
           b == SYSTEM_MESSAGES
<1>1. PICK n \in Nat :
        /\ DOMAIN d.messages = 1 .. n /\ DOMAIN s = 1 .. (n + 3)
        /\ \A k \in 1 .. n : s[k] = d.messages[k]
        /\ \A k \in (n + 1) .. (n + 3) : k - n \in 1 .. 3 /\ s[k] = b[k - n]
  BY FileThenSystem
<1>2. DOMAIN b = 1 .. 3
  BY DEF SYSTEM_MESSAGES
<1> HIDE DEF s, b
<1>3. ASSUME NEW k \in DOMAIN s PROVE s[k] \in Range(d.messages) \cup Range(b)
  <2>1. k \in 1 .. n \/ k \in (n + 1) .. (n + 3)
    BY <1>1
  <2> QED
    BY <1>1, <1>2, <2>1 DEF Range
<1>4. ASSUME NEW k \in 1 .. n PROVE d.messages[k] \in Range(s)
  <2>1. k \in DOMAIN s
    BY <1>1
  <2> QED
    BY <1>1, <2>1 DEF Range
<1>5. ASSUME NEW k \in 1 .. 3 PROVE b[k] \in Range(s)
  <2>1. n + k \in DOMAIN s /\ n + k \in (n + 1) .. (n + 3) /\ n + k - n = k
    BY <1>1
  <2>2. s[n + k] = b[k]
    BY <1>1, <2>1
  <2> QED
    BY <2>1, <2>2 DEF Range
<1>6. Range(s) = Range(d.messages) \cup Range(b)
  <2>1. Range(s) \subseteq Range(d.messages) \cup Range(b)
    BY <1>3 DEF Range
  <2>2. Range(d.messages) \subseteq Range(s)
    BY <1>1, <1>4 DEF Range
  <2>3. Range(b) \subseteq Range(s)
    BY <1>2, <1>5 DEF Range
  <2> QED
    BY <2>1, <2>2, <2>3
<1> QED
  BY <1>6 DEF AllMessages, s, b

\* A type counts for one to four bytes.
LEMMA TypeSize ==
  ASSUME NEW types, NEW i \in DOMAIN types
  PROVE  Counted(types)[i] \in 1 .. 4
<1>1. \A x \in DOMAIN CTypeSizes : CTypeSizes[x] \in 1 .. 4
  <2>1. DOMAIN CTypeSizes = {"uint8_t", "uint16_t", "uint32_t", "int32_t", "float"}
    BY DEF CTypeSizes
  <2>2. /\ CTypeSizes["uint8_t"] = 1 /\ CTypeSizes["uint16_t"] = 2
        /\ CTypeSizes["uint32_t"] = 4 /\ CTypeSizes["int32_t"] = 4
        /\ CTypeSizes["float"] = 4
    BY DEF CTypeSizes
  <2> QED
    BY <2>1, <2>2
<1> QED
  BY <1>1 DEF Counted

\* A total is a fold.
LEMMA TotalIsFold ==
  ASSUME NEW sizes
  PROVE  Total(sizes) = Sizes!FoldLeft(AddSize, 0, sizes)
BY DEF Total, AddSize, FoldLeft, MapThenFoldSet, Max,
       Sizes!FoldLeft, Sizes!MapThenFoldSet, Sizes!Max

\* Sizes are numbers.
LEMMA SizeIsNumber ==
  ASSUME NEW d, NEW m, m.fields \in Seq(Range(m.fields))
  PROVE  PayloadSize(d, m) \in Nat
<1> DEFINE types == CTypes(d, m)
           S == 1 .. 4
<1>1. Counted(types) \in Seq(S)
  <2>1. PICK n \in Nat : DOMAIN m.fields = 1 .. n
    BY LenProperties
  <2>2. DOMAIN types = 1 .. n
    BY <2>1 DEF CTypes
  <2> HIDE DEF types
  <2>3. Counted(types) \in [1 .. n -> S]
    <3>1. \A i \in 1 .. n : Counted(types)[i] \in S
      BY <2>2, TypeSize
    <3>2. Counted(types) = [i \in 1 .. n |-> Counted(types)[i]]
      BY <2>2 DEF Counted
    <3> HIDE DEF S
    <3> QED
      BY <3>1, <3>2, Zenon
  <2> HIDE DEF S
  <2> QED
    BY <2>1, <2>3, SeqDef
<1>2. \A x \in Nat, y \in S : AddSize(x, y) \in Nat
  BY DEF AddSize
<1> HIDE DEF S
<1>3. 0 \in Nat
  OBVIOUS
<1>4. Sizes!FoldLeft(AddSize, 0, Counted(types)) \in Nat
  BY <1>1, <1>2, <1>3, Sizes!FoldTyped
<1> QED
  BY <1>4, TotalIsFold DEF PayloadSize

\* For the generator the built-in messages have at most eight bytes, whatever
\* their types are renamed to.
LEMMA SystemSize ==
  ASSUME NEW d, NEW m \in Range(SYSTEM_MESSAGES)
  PROVE  PayloadSize(d, m) \in 0 .. 8 /\ m.reliable = FALSE
<1> DEFINE types == CTypes(d, m)
           c == Counted(types)
           S == 1 .. 4
<1>1. /\ m.reliable = FALSE
      /\ m.fields = <<"uint8_t", "uint8_t">> \/ m.fields = <<"uint32_t">>
  BY DEF SYSTEM_MESSAGES, System, Range
<1>2. PayloadSize(d, m) = Sizes!FoldLeft(AddSize, 0, c)
  BY TotalIsFold DEF PayloadSize
<1>3. <<>> \in Seq(S) /\ Sizes!FoldLeft(AddSize, 0, <<>>) = 0
  BY Sizes!FoldEmpty
<1>4. \A s \in Seq(S) : \A n \in S :
        Sizes!FoldLeft(AddSize, 0, Append(s, n)) = AddSize(Sizes!FoldLeft(AddSize, 0, s), n)
  <2> HIDE DEF S
  <2> QED
    BY Sizes!FoldAppend
<1>5. DOMAIN c = DOMAIN m.fields /\ \A i \in DOMAIN m.fields : c[i] \in S
  <2>1. DOMAIN c = DOMAIN types /\ DOMAIN types = DOMAIN m.fields
    BY DEF Counted, CTypes
  <2> HIDE DEF types
  <2> QED
    BY <2>1, TypeSize
<1>6. c = [i \in DOMAIN c |-> c[i]]
  BY DEF Counted
<1> HIDE DEF c, types
<1>7. CASE m.fields = <<"uint32_t">>
  <2>1. DOMAIN c = 1 .. 1 /\ c[1] \in S
    BY <1>5, <1>7
  <2>2. c = Append(<<>>, c[1])
    BY <1>6, <2>1
  <2> HIDE DEF S
  <2>3. PayloadSize(d, m) = AddSize(0, c[1])
    BY <1>2, <1>3, <1>4, <2>1, <2>2
  <2>4. AddSize(0, c[1]) \in 0 .. 8
    BY <2>1 DEF AddSize, S
  <2> QED
    BY <1>1, <2>3, <2>4
<1>8. CASE m.fields = <<"uint8_t", "uint8_t">>
  <2>1. DOMAIN c = 1 .. 2 /\ c[1] \in S /\ c[2] \in S
    BY <1>5, <1>8
  <2> DEFINE first == Append(<<>>, c[1])
  <2>2. c = Append(first, c[2])
    BY <1>6, <2>1
  <2>3. first \in Seq(S)
    BY <2>1
  <2> HIDE DEF S
  <2>4. Sizes!FoldLeft(AddSize, 0, first) = AddSize(0, c[1])
    BY <1>3, <1>4, <2>1
  <2> HIDE DEF first
  <2>5. PayloadSize(d, m) = AddSize(AddSize(0, c[1]), c[2])
    BY <1>2, <1>4, <2>1, <2>2, <2>3, <2>4
  <2>6. AddSize(AddSize(0, c[1]), c[2]) \in 0 .. 8
    BY <2>1 DEF AddSize, S
  <2> QED
    BY <1>1, <2>5, <2>6
<1> QED
  BY <1>1, <1>7, <1>8

\* What the generator counts is limited, and there is a longest payload.
LEMMA LongestFits ==
  ASSUME NEW d, Valid(d)
  PROVE  /\ MaxPayload(d) \in Nat /\ MaxPayload(d) <= LengthLimit
         /\ \A m \in AllMessages(d) : WireSize(d, m) <= MaxPayload(d)
<1> DEFINE S == {WireSize(d, m) : m \in AllMessages(d)}
<1>1. ASSUME NEW m \in AllMessages(d)
      PROVE  WireSize(d, m) \in Nat /\ WireSize(d, m) <= LengthLimit
  <2>1. CASE m \in Range(d.messages)
    <3>1. MessageValid(d, m)
      BY <2>1 DEF Valid, Range
    <3>2. PayloadSize(d, m) \in Nat
      BY <3>1, SizeIsNumber DEF MessageValid
    <3> QED
      BY <3>1, <3>2 DEF MessageValid, WireSize
  <2>2. CASE m \in Range(SYSTEM_MESSAGES)
    <3>1. PayloadSize(d, m) \in 0 .. 8 /\ m.reliable = FALSE
      BY <2>2, SystemSize
    <3>2. WireSize(d, m) = PayloadSize(d, m)
      BY <3>1 DEF WireSize
    <3> QED
      BY <3>1, <3>2, LimitAssumption
  <2> QED
    BY <2>1, <2>2, Origin
<1>2. S # {}
  <2>1. SYSTEM_MESSAGES[1] \in AllMessages(d)
    BY Origin DEF SYSTEM_MESSAGES, Range
  <2> QED
    BY <2>1
<1>3. S \subseteq Nat /\ \A x \in S : x <= LengthLimit
  BY <1>1
<1> HIDE DEF S
<1>4. PICK x \in S : \A y \in S : y <= x
  BY <1>2, <1>3, LimitAssumption, Greatest
<1>5. Max(S) \in S /\ \A y \in S : Max(S) >= y
  <2>1. x \in S /\ \A y \in S : x >= y
    BY <1>3, <1>4
  <2> QED
    BY <2>1 DEF Max
<1>6. MaxPayload(d) = Max(S)
  BY DEF MaxPayload, S
<1>7. ASSUME NEW m \in AllMessages(d) PROVE WireSize(d, m) <= Max(S)
  <2>1. WireSize(d, m) \in S
    BY DEF S
  <2> QED
    BY <1>3, <1>5, <2>1
<1> QED
  BY <1>3, <1>5, <1>6, <1>7

\* For types of the table the generator counts what the compilers do.
LEMMA TableSize ==
  ASSUME NEW d, NEW m, Range(CTypes(d, m)) \subseteq DOMAIN CTypeSizes, NEW end \in Ends
  PROVE  StructSize(end, d, m) = PayloadSize(d, m)
<1> DEFINE types == CTypes(d, m)
<1>1. \A i \in DOMAIN types :
        /\ types[i] \in DOMAIN CTypeSizes
        /\ SizeOf[end][types[i]] = CTypeSizes[types[i]]
  BY SizeOfAssumption DEF Range
<1> HIDE DEF types
<1>2. [i \in DOMAIN types |-> SizeOf[end][types[i]]] = Counted(types)
  BY <1>1 DEF Counted
<1> QED
  BY <1>2 DEF StructSize, PayloadSize, types

\* So if the built-in messages fit, all do, at both ends.
LEMMA AllFit ==
  ASSUME NEW d, Valid(d), BuiltinsFit(d), NEW m \in AllMessages(d)
  PROVE  /\ StructSize("ros", d, m) = StructSize("mcu", d, m)
         /\ WireLength("mcu", d, m) <= MaxPayload(d)
<1>1. CASE m \in Range(d.messages)
  <2>1. Range(CTypes(d, m)) \subseteq DOMAIN CTypeSizes
    <3>1. MessageValid(d, m)
      BY <1>1 DEF Valid, Range
    <3> QED
      BY <3>1 DEF MessageValid
  <2>2. StructSize("ros", d, m) = PayloadSize(d, m) /\ StructSize("mcu", d, m) = PayloadSize(d, m)
    BY <2>1, TableSize DEF Ends
  <2>3. WireLength("mcu", d, m) = WireSize(d, m)
    BY <2>2 DEF WireLength, WireSize
  <2> QED
    BY <2>2, <2>3, LongestFits
<1>2. CASE m \in Range(SYSTEM_MESSAGES)
  <2>1. m.reliable = FALSE
    BY <1>2, SystemSize
  <2> QED
    BY <1>2, <2>1 DEF BuiltinsFit, WireLength
<1> QED
  BY <1>1, <1>2, Origin

-----------------------------------------------------------------------------
(* Equal hashes are compatible.                                            *)

\* The messages of two versions with the same hash input correspond: they
\* have the same id, direction, types and sizes, and are reliable or not.
LEMMA SameMessages ==
  ASSUME NEW r, NEW m, Valid(r), Valid(m), HashInput(r) = HashInput(m),
         NEW x \in AllMessages(r)
  PROVE  \E y \in AllMessages(m) :
           /\ y.id = x.id
           /\ y.direction = x.direction
           /\ y.reliable = x.reliable
           /\ CTypes(m, y) = CTypes(r, x)
           /\ WireSize(m, y) = WireSize(r, x)
<1>1. PICK i \in DOMAIN Merged(r) : x = Merged(r)[i]
  BY MergedMessages DEF Range
<1> DEFINE hashed(d) == [j \in DOMAIN Merged(d) |-> HashedMessage(d, Merged(d)[j])]
<1>2. hashed(r) = hashed(m)
  BY DEF HashInput
<1>3. DOMAIN Merged(r) = DOMAIN Merged(m)
  BY <1>2
<1> DEFINE y == Merged(m)[i]
<1>4. HashedMessage(r, x) = HashedMessage(m, y)
  BY <1>1, <1>2, <1>3
<1>5. /\ y.id = x.id
      /\ y.direction = x.direction
      /\ y.reliable = x.reliable
      /\ CTypes(m, y) = CTypes(r, x)
  BY <1>4 DEF HashedMessage
<1>6. WireSize(m, y) = WireSize(r, x)
  BY <1>5 DEF WireSize, PayloadSize
<1>7. y \in AllMessages(m)
  BY <1>3, MergedMessages DEF Range
<1> QED
  BY <1>5, <1>6, <1>7

\* The same types make structs of the same size, whatever the file calls them.
LEMMA SameStruct ==
  ASSUME NEW r, NEW m, NEW x, NEW y, CTypes(m, y) = CTypes(r, x), NEW end
  PROVE  StructSize(end, m, y) = StructSize(end, r, x)
BY DEF StructSize

\* And their generated limits are the same.
LEMMA SameLongest ==
  ASSUME NEW r, NEW m, Valid(r), Valid(m), HashInput(r) = HashInput(m)
  PROVE  MaxPayload(r) = MaxPayload(m)
<1> DEFINE WireSizes(d) == {WireSize(d, x) : x \in AllMessages(d)}
<1>1. WireSizes(r) \subseteq WireSizes(m)
  BY SameMessages
<1>2. WireSizes(m) \subseteq WireSizes(r)
  BY SameMessages
<1>3. WireSizes(r) = WireSizes(m)
  BY <1>1, <1>2
<1> QED
  BY <1>3 DEF MaxPayload

\* What the MCU may send is never reliable.
LEMMA SentByMcu ==
  ASSUME NEW d, Valid(d), NEW x \in AllMessages(d), x.direction \in {"rx", "both"}
  PROVE  x.reliable = FALSE
<1>1. CASE x \in Range(d.messages)
  BY <1>1 DEF Valid, MessageValid, Range
<1>2. CASE x \in Range(SYSTEM_MESSAGES)
  BY <1>2, SystemSize
<1> QED
  BY <1>1, <1>2, Origin

\* Equal hash inputs, and built-in messages that fit, are enough for two
\* valid versions to be compatible.
LEMMA HashDecides ==
  ASSUME NEW r, NEW m, Valid(r), Valid(m), HashInput(r) = HashInput(m), BuiltinsFit(m)
  PROVE  Compatible(r, m)
<1>1. r.head = m.head /\ r.checksum = m.checksum
  BY DEF HashInput
<1>2. RosSends(r) \subseteq McuTakes(m)
  <2> SUFFICES ASSUME NEW p \in RosSends(r) PROVE p \in McuTakes(m)
    OBVIOUS
  <2>1. PICK x \in AllMessages(r) : p = Form(r, x, WireLength("ros", r, x), x.reliable)
    BY DEF RosSends
  <2>2. PICK y \in AllMessages(m) :
          y.id = x.id /\ y.reliable = x.reliable /\ CTypes(m, y) = CTypes(r, x)
    BY SameMessages
  <2>3. StructSize("ros", r, x) = StructSize("mcu", m, y)
    BY <2>2, SameStruct, AllFit
  <2>4. WireLength("ros", r, x) = WireLength("mcu", m, y)
    BY <2>2, <2>3 DEF WireLength
  <2>5. p = Form(m, y, WireLength("mcu", m, y), y.reliable)
    BY <2>1, <2>2, <2>4 DEF Form
  <2>6. WireLength("mcu", m, y) <= MaxPayload(m)
    BY AllFit
  <2> QED
    BY <2>5, <2>6 DEF McuTakes
<1>3. McuSends(m) \subseteq RosTakes(r)
  <2> SUFFICES ASSUME NEW p \in McuSends(m) PROVE p \in RosTakes(r)
    OBVIOUS
  <2>1. PICK y \in AllMessages(m) :
          y.direction \in {"rx", "both"} /\ p = Form(m, y, StructSize("mcu", m, y), FALSE)
    BY DEF McuSends
  <2>2. PICK x \in AllMessages(r) :
          /\ x.id = y.id /\ x.direction = y.direction /\ x.reliable = y.reliable
          /\ CTypes(r, x) = CTypes(m, y)
    BY SameMessages
  <2>3. StructSize("ros", r, x) = StructSize("mcu", m, y)
    BY <2>2, SameStruct, AllFit
  <2>4. y.reliable = FALSE
    BY <2>1, SentByMcu
  <2>5. StructSize("mcu", m, y) <= MaxPayload(r)
    BY <2>4, AllFit, SameLongest DEF WireLength
  <2>6. p = Form(r, x, StructSize("ros", r, x), FALSE)
    BY <2>1, <2>2, <2>3 DEF Form
  <2> QED
    BY <2>1, <2>2, <2>3, <2>4, <2>5, <2>6 DEF RosTakes
<1> QED
  BY <1>1, <1>2, <1>3 DEF Compatible

\* And without it they are not: the MCU sends every built-in message, and the
\* node takes it only if the length is its own and within the limit.
LEMMA FitIsNeeded ==
  ASSUME NEW r, NEW m, Valid(r), Valid(m), HashInput(r) = HashInput(m), Compatible(r, m)
  PROVE  BuiltinsFit(m)
<1> SUFFICES ASSUME NEW b \in Range(SYSTEM_MESSAGES)
             PROVE  /\ StructSize("ros", m, b) = StructSize("mcu", m, b)
                    /\ StructSize("mcu", m, b) <= MaxPayload(m)
  BY DEF BuiltinsFit
<1> DEFINE p == Form(m, b, StructSize("mcu", m, b), FALSE)
<1>1. b \in AllMessages(m) /\ b.direction = "both"
  BY Origin DEF SYSTEM_MESSAGES, System, Range
<1>2. p \in RosTakes(r)
  BY <1>1 DEF McuSends, Compatible
<1>3. PICK x \in AllMessages(r) :
        p = Form(r, x, StructSize("ros", r, x), FALSE) /\ StructSize("ros", r, x) <= MaxPayload(r)
  BY <1>2 DEF RosTakes
<1>4. CTypes(m, b) = CTypes(r, x) /\ StructSize("mcu", m, b) = StructSize("ros", r, x)
  BY <1>3 DEF Form
<1>5. StructSize("ros", m, b) = StructSize("ros", r, x)
  BY <1>4, SameStruct
<1> QED
  BY <1>3, <1>4, <1>5, SameLongest

-----------------------------------------------------------------------------
(* Equal contracts have equal hashes.                                      *)

HashedMessages(d) == {HashedMessage(d, m) : m \in AllMessages(d)}

\* Records of one id or a smaller one, among those of d.
Smaller(d, id) == {h \in HashedMessages(d) : h.id <= id}

\* The position of a message follows from the records alone, whatever the
\* order of the file: it is the number of records with its id or a smaller one.
LEMMA PositionIsRank ==
  ASSUME NEW d, Valid(d), NEW k \in DOMAIN UnmergedMessages(d)
  PROVE  Position(UnmergedMessages(d), k) =
           Cardinality(Smaller(d, UnmergedMessages(d)[k].id))
<1> DEFINE s == UnmergedMessages(d)
<1> DEFINE U == UpTo(s, k)
<1> DEFINE f == [j \in U |-> HashedMessage(d, s[j])]
<1> DEFINE T == Smaller(d, s[k].id)
<1>1. Numbered(s) /\ \A i, j \in DOMAIN s : s[i].id = s[j].id => i = j
  BY ValidNumbers
<1>2. \A m : HashedMessage(d, m).id = m.id
  BY DEF HashedMessage
<1>3. HashedMessages(d) = {HashedMessage(d, s[j]) : j \in DOMAIN s}
  BY DEF HashedMessages, AllMessages, Range
<1> HIDE DEF s
<1>4. \A j \in DOMAIN s : j \in U <=> s[j].id <= s[k].id
  <2> SUFFICES ASSUME NEW j \in DOMAIN s PROVE j \in U <=> s[j].id <= s[k].id
    OBVIOUS
  <2>1. s[j].id \in Int /\ s[k].id \in Int /\ j \in Int /\ k \in Int
    BY <1>1, Places DEF Numbered, s
  <2>2. s[j].id = s[k].id => j = k
    BY <1>1 DEF s
  <2> QED
    BY <2>1, <2>2 DEF UpTo
<1>5. U \subseteq DOMAIN s /\ IsFiniteSet(U) /\ Position(s, k) = Cardinality(U)
  BY <1>1, UpToFinite DEF s
<1>6. f \in [U -> T]
  BY <1>2, <1>3, <1>4, <1>5 DEF Smaller
<1>7. \A i, j \in U : f[i] = f[j] => i = j
  BY <1>1, <1>2, <1>5
<1>8. \A h \in T : \E j \in U : f[j] = h
  BY <1>2, <1>3, <1>4 DEF Smaller
<1>9. f \in Bijection(U, T)
  BY <1>6, <1>7, <1>8 DEF Bijection, Injection, Surjection, IsInjective
<1>10. Cardinality(T) = Cardinality(U)
  BY <1>5, <1>9, FS_Bijection DEF ExistsBijection
<1> QED
  BY <1>5, <1>10 DEF s

\* The list has as many messages as there are records.
LEMMA MergedLength ==
  ASSUME NEW d, Valid(d)
  PROVE  DOMAIN Merged(d) = 1 .. Cardinality(HashedMessages(d))
<1> DEFINE s == UnmergedMessages(d)
<1> DEFINE f == [j \in DOMAIN s |-> HashedMessage(d, s[j])]
<1>1. Numbered(s) /\ \A i, j \in DOMAIN s : s[i].id = s[j].id => i = j
  BY ValidNumbers
<1>2. \A m : HashedMessage(d, m).id = m.id
  BY DEF HashedMessage
<1>3. HashedMessages(d) = {HashedMessage(d, s[j]) : j \in DOMAIN s}
  BY DEF HashedMessages, AllMessages, Range
<1>4. DOMAIN Merged(d) = DOMAIN s
  BY MergedMessages
<1> HIDE DEF s
<1>5. f \in Bijection(DOMAIN s, HashedMessages(d))
  <2>1. f \in [DOMAIN s -> HashedMessages(d)]
    BY <1>3
  <2>2. \A i, j \in DOMAIN s : f[i] = f[j] => i = j
    BY <1>1, <1>2 DEF s
  <2>3. \A h \in HashedMessages(d) : \E j \in DOMAIN s : f[j] = h
    BY <1>3
  <2> QED
    BY <2>1, <2>2, <2>3 DEF Bijection, Injection, Surjection, IsInjective
<1>6. Cardinality(HashedMessages(d)) = Cardinality(DOMAIN s)
  BY <1>1, <1>5, Places, FS_Bijection DEF ExistsBijection
<1> QED
  BY <1>1, <1>4, <1>6, Places

\* In the hash input stands, at i, the record whose rank is i.
LEMMA RecordAt ==
  ASSUME NEW d, Valid(d), NEW i \in DOMAIN Merged(d)
  PROVE  \A h \in HashedMessages(d) :
           h = HashedMessage(d, Merged(d)[i]) <=> Cardinality(Smaller(d, h.id)) = i
<1> DEFINE s == UnmergedMessages(d)
<1>1. Numbered(s) /\ \A j, k \in DOMAIN s : s[j].id = s[k].id => j = k
  BY ValidNumbers
<1>2. \A m : HashedMessage(d, m).id = m.id
  BY DEF HashedMessage
<1>3. HashedMessages(d) = {HashedMessage(d, s[j]) : j \in DOMAIN s}
  BY DEF HashedMessages, AllMessages, Range
<1>4. PICK k \in DOMAIN s : Position(s, k) = i /\ Merged(d)[i] = s[k]
  BY MergedMessages
<1>5. \A j \in DOMAIN s : Position(s, j) = Cardinality(Smaller(d, s[j].id))
  BY PositionIsRank
<1> HIDE DEF s
<1> SUFFICES ASSUME NEW h \in HashedMessages(d)
             PROVE  h = HashedMessage(d, s[k]) <=> Cardinality(Smaller(d, h.id)) = i
  BY <1>4
<1>6. PICK j \in DOMAIN s : h = HashedMessage(d, s[j])
  BY <1>3
<1>7. Cardinality(Smaller(d, h.id)) = Position(s, j)
  BY <1>2, <1>5, <1>6
<1>8. j = k <=> Position(s, j) = i
  BY <1>1, <1>4, PositionInjective
<1>9. h = HashedMessage(d, s[k]) <=> j = k
  BY <1>1, <1>2, <1>6
<1> QED
  BY <1>7, <1>8, <1>9

\* Versions with the same records have the same list of records.
LEMMA SameList ==
  ASSUME NEW r, NEW m, Valid(r), Valid(m), HashedMessages(r) = HashedMessages(m)
  PROVE  /\ DOMAIN Merged(r) = DOMAIN Merged(m)
         /\ \A i \in DOMAIN Merged(r) :
              HashedMessage(r, Merged(r)[i]) = HashedMessage(m, Merged(m)[i])
<1>1. DOMAIN Merged(r) = DOMAIN Merged(m)
  BY MergedLength
<1>2. \A id : Smaller(r, id) = Smaller(m, id)
  BY DEF Smaller
<1>3. ASSUME NEW i \in DOMAIN Merged(r)
      PROVE  HashedMessage(r, Merged(r)[i]) = HashedMessage(m, Merged(m)[i])
  <2> DEFINE h == HashedMessage(r, Merged(r)[i])
  <2>1. Merged(r)[i] \in AllMessages(r)
    BY MergedMessages DEF Range
  <2>2. h \in HashedMessages(r)
    BY <2>1 DEF HashedMessages
  <2> HIDE DEF h
  <2>3. Cardinality(Smaller(r, h.id)) = i
    BY <2>2, RecordAt DEF h
  <2>4. Cardinality(Smaller(m, h.id)) = i /\ h \in HashedMessages(m)
    BY <1>2, <2>2, <2>3
  <2>5. h = HashedMessage(m, Merged(m)[i])
    BY <1>1, <2>4, RecordAt
  <2> QED
    BY <2>5 DEF h
<1> QED
  BY <1>1, <1>3

\* The order of the messages in the file does not reach the hash.
LEMMA ContractDecides ==
  ASSUME NEW r, NEW m, Valid(r), Valid(m), Contract(r) = Contract(m)
  PROVE  HashInput(r) = HashInput(m)
<1>1. /\ r.head = m.head /\ r.checksum = m.checksum
      /\ r.require_handshake = m.require_handshake
  BY DEF Contract
<1>2. HashedMessages(r) = HashedMessages(m)
  BY DEF Contract, HashedMessages, HashedMessage
<1>3. [i \in DOMAIN Merged(r) |-> HashedMessage(r, Merged(r)[i])] =
      [i \in DOMAIN Merged(m) |-> HashedMessage(m, Merged(m)[i])]
  BY <1>2, SameList
<1> QED
  BY <1>1, <1>3 DEF HashInput

-----------------------------------------------------------------------------
(* The theorems.                                                           *)

\* Node, firmware and install directory come from files that validation let
\* through, whatever is in the file now: TypeOK in every behaviour.
THEOREM InstalledIsValid == Spec => []TypeOK
<1>1. Init => TypeOK
  BY FirstAssumption, EditsAssumption DEF Init, TypeOK
<1>2. TypeOK /\ [Next]_vars => TypeOK'
  <2> SUFFICES ASSUME TypeOK, [Next]_vars PROVE TypeOK'
    OBVIOUS
  <2>1. edits' \in 0 .. MaxEdits
    BY EditsAssumption DEF TypeOK, Next, Edit, Build, StartNode, FlashFirmware, vars
  <2>2. /\ built' = built \/ (built' = yaml /\ Valid(yaml))
        /\ ros' = ros \/ ros' = built
        /\ mcu' = mcu \/ mcu' = built
    BY DEF Next, Edit, Build, StartNode, FlashFirmware, vars
  <2>3. Valid(built') /\ Valid(ros') /\ Valid(mcu')
    BY <2>2 DEF TypeOK
  <2> QED
    BY <2>1, <2>3 DEF TypeOK
<1> QED
  BY <1>1, <1>2, PTL DEF Spec

\* The handshake accepts only firmware that understands the node and is
\* understood, but for protocols whose built-in messages do not fit; of those
\* the ends never do: MatchedIsCompatible in every behaviour.
THEOREM AcceptedIsCompatible == Spec => []MatchedIsCompatible
<1>1. TypeOK => MatchedIsCompatible
  BY HashDecides, FitIsNeeded DEF TypeOK, MatchedIsCompatible, HandshakeMatches
<1> QED
  BY <1>1, InstalledIsValid, PTL

\* And it refuses none that agrees on the contract: SameContractMatches in
\* every behaviour.
THEOREM AgreeingIsAccepted == Spec => []SameContractMatches
<1>1. TypeOK => SameContractMatches
  BY ContractDecides DEF TypeOK, SameContractMatches, HandshakeMatches
<1> QED
  BY <1>1, InstalledIsValid, PTL

-----------------------------------------------------------------------------
(* What both ends rely on.                                                 *)

\* Validation tells the generated symbols apart, those of the built-in
\* messages included.
LEMMA SymbolsDiffer ==
  ASSUME NEW d, Valid(d), NEW j \in DOMAIN UnmergedMessages(d),
         NEW k \in DOMAIN UnmergedMessages(d), j # k
  PROVE  Upper[UnmergedMessages(d)[j].name] # Upper[UnmergedMessages(d)[k].name]
<1> DEFINE s == UnmergedMessages(d)
           symbol(x) == Upper[s[x].name]
<1>1. PICK n \in Nat :
        /\ DOMAIN d.messages = 1 .. n /\ DOMAIN s = 1 .. (n + 3)
        /\ \A x \in 1 .. n : s[x] = d.messages[x]
        /\ \A x \in (n + 1) .. (n + 3) : x - n \in 1 .. 3 /\ s[x] = SYSTEM_MESSAGES[x - n]
  BY FileThenSystem
<1> HIDE DEF s
<1>2. \A x \in 1 .. n : symbol(x) \notin ReservedSymbols
  BY <1>1 DEF Valid, MessageValid
<1>3. \A x, y \in 1 .. n : x # y => symbol(x) # symbol(y)
  <2>1. \A x, y \in DOMAIN d.messages :
          x # y => Upper[d.messages[x].name] # Upper[d.messages[y].name]
    BY Zenon DEF Valid
  <2> QED
    BY <1>1, <2>1
<1>4. /\ SYSTEM_MESSAGES[1].name = "Ack" /\ SYSTEM_MESSAGES[2].name = "Heartbeat"
      /\ SYSTEM_MESSAGES[3].name = "Handshake"
  BY DEF SYSTEM_MESSAGES, System
<1>5. \A x \in (n + 1) .. (n + 3) :
        /\ symbol(x) \in ReservedSymbols
        /\ \A y \in (n + 1) .. (n + 3) : x # y => symbol(x) # symbol(y)
  <2> DEFINE named(i) == Upper[SYSTEM_MESSAGES[i].name]
  <2>1. named(1) = "ACK" /\ named(2) = "HEARTBEAT" /\ named(3) = "HANDSHAKE"
    BY <1>4, UpperAssumption
  <2> HIDE DEF named
  <2>2. /\ \A i \in 1 .. 3 : named(i) \in ReservedSymbols
        /\ \A i, l \in 1 .. 3 : i # l => named(i) # named(l)
    <3>1. \A i \in 1 .. 3 : i = 1 \/ i = 2 \/ i = 3
      OBVIOUS
    <3> QED
      BY <2>1, <3>1 DEF ReservedSymbols
  <2>3. \A x \in (n + 1) .. (n + 3) : x - n \in 1 .. 3 /\ symbol(x) = named(x - n)
    BY <1>1 DEF named
  <2>4. \A x, y \in (n + 1) .. (n + 3) : x # y => x - n # y - n
    OBVIOUS
  <2> HIDE DEF symbol
  <2> QED
    BY <2>2, <2>3, <2>4
<1> HIDE DEF symbol
<1>6. \A x \in DOMAIN s : x \in 1 .. n \/ x \in (n + 1) .. (n + 3)
  BY <1>1
<1>7. j \in DOMAIN s /\ k \in DOMAIN s
  BY DEF s
<1>8. symbol(j) # symbol(k)
  BY <1>2, <1>3, <1>5, <1>6, <1>7
<1> QED
  BY <1>8 DEF symbol, s

\* The merged list goes up, and generates no symbol twice.
LEMMA MergedApart ==
  ASSUME NEW d, Valid(d), NEW i \in DOMAIN Merged(d), NEW j \in DOMAIN Merged(d), i < j
  PROVE  /\ Merged(d)[i].id < Merged(d)[j].id
         /\ Upper[Merged(d)[i].name] # Upper[Merged(d)[j].name]
<1> DEFINE s == UnmergedMessages(d)
<1>1. Numbered(s) /\ \A x, y \in DOMAIN s : s[x].id = s[y].id => x = y
  BY ValidNumbers
<1>2. PICK k \in DOMAIN s : Position(s, k) = i /\ Merged(d)[i] = s[k]
  BY MergedMessages
<1>3. PICK l \in DOMAIN s : Position(s, l) = j /\ Merged(d)[j] = s[l]
  BY MergedMessages
<1>4. \A x, y \in DOMAIN s : x # y => Upper[s[x].name] # Upper[s[y].name]
  BY SymbolsDiffer
<1>5. i \in Int /\ j \in Int
  <2>1. DOMAIN Merged(d) = DOMAIN s
    BY MergedMessages
  <2> HIDE DEF s
  <2> QED
    BY <1>1, <2>1 DEF Numbered
<1> HIDE DEF s
<1>6. k # l
  BY <1>2, <1>3, <1>5
<1>7. s[k].id \in Int /\ s[l].id \in Int
  BY <1>1 DEF Numbered
<1>8. s[k].id < s[l].id
  <2>1. s[k].id # s[l].id
    BY <1>1, <1>6
  <2>2. ASSUME s[l].id < s[k].id PROVE FALSE
    <3>1. Position(s, l) < Position(s, k)
      BY <1>1, <2>2, PositionGrows
    <3> QED
      BY <1>2, <1>3, <1>5, <3>1
  <2> QED
    BY <1>7, <2>1, <2>2
<1> QED
  BY <1>2, <1>3, <1>4, <1>6, <1>8

\* Whatever codegen.py has built is sound, for any file that validation let
\* through, and its two ends understand each other exactly if the built-in
\* messages fit: BuiltIsSound in every behaviour.
THEOREM BuiltSoundly == Spec => []BuiltIsSound
<1>1. ASSUME NEW d, Valid(d)
      PROVE  /\ Compatible(d, d) <=> BuiltinsFit(d)
             /\ \A i, j \in DOMAIN Merged(d) :
                  i < j => /\ Merged(d)[i].id < Merged(d)[j].id
                           /\ Upper[Merged(d)[i].name] # Upper[Merged(d)[j].name]
             /\ MaxPayload(d) <= LengthLimit
             /\ \A capacity \in 1 .. 256 :
                  capacity >= d.buffer_size + 1 => capacity > MaxPayload(d) + 5
  <2>1. Compatible(d, d) <=> BuiltinsFit(d)
    BY <1>1, HashDecides, FitIsNeeded
  <2>2. MaxPayload(d) \in Nat /\ MaxPayload(d) <= LengthLimit
    BY <1>1, LongestFits
  <2>3. d.buffer_size \in Nat /\ d.buffer_size >= MaxPayload(d) + 5
    BY <1>1 DEF Valid
  <2> DEFINE b == d.buffer_size
             largest == MaxPayload(d)
  <2>4. b \in Nat /\ largest \in Nat /\ b >= largest + 5
    BY <2>2, <2>3
  <2> HIDE DEF b, largest
  <2>5. \A capacity \in 1 .. 256 : capacity >= b + 1 => capacity > largest + 5
    BY <2>4
  <2> QED
    BY <1>1, <2>1, <2>2, <2>5, MergedApart DEF b, largest
<1>2. TypeOK => BuiltIsSound
  <2> SUFFICES ASSUME TypeOK PROVE BuiltIsSound
    OBVIOUS
  <2> QED
    BY <1>1 DEF TypeOK, BuiltIsSound
<1> QED
  BY <1>2, InstalledIsValid, PTL

-----------------------------------------------------------------------------
(* The generated bindings.                                                 *)

Segment == [name : STRING, index : Nat \cup {NoIndex}]

-----------------------------------------------------------------------------
(* Paths and the arrays on the way.                                        *)

\* An array on the way of a path: its segments are those of the path, but
\* for the last index.
LEMMA ArrayOnTheWay ==
  ASSUME NEW path \in Seq(Segment), NEW k \in 1 .. Len(path)
  PROVE  /\ ArrayAt(path, k) \in Seq(Segment)
         /\ Len(ArrayAt(path, k)) = k
         /\ \A j \in 1 .. k - 1 : ArrayAt(path, k)[j] = path[j]
         /\ ArrayAt(path, k)[k].index = NoIndex
<1> DEFINE front == SubSeq(path, 1, k)
<1>1. /\ front \in Seq(Segment) /\ Len(front) = k
      /\ \A j \in 1 .. k : front[j] = path[j]
  <2>1. \A j \in 1 .. k : path[j] \in Segment
    OBVIOUS
  <2>2. k \in Int /\ 1 \in Int /\ 1 <= k
    OBVIOUS
  <2>3. /\ front \in Seq(Segment)
        /\ Len(front) = IF 1 <= k THEN k - 1 + 1 ELSE 0
        /\ \A j \in 1 .. k - 1 + 1 : front[j] = path[1 + j - 1]
    BY <2>1, <2>2, SubSeqProperties
  <2> QED
    BY <2>2, <2>3
<1> DEFINE last == [front[k] EXCEPT !.index = NoIndex]
<1>2. last \in Segment /\ last.index = NoIndex
  <2>1. k \in 1 .. k
    OBVIOUS
  <2>2. front[k] \in Segment
    BY <1>1, <2>1
  <2> QED
    BY <2>2 DEF Segment
<1>3. ArrayAt(path, k) = [front EXCEPT ![k] = last]
  BY DEF ArrayAt
<1> HIDE DEF front, last
<1>4. /\ [front EXCEPT ![k] = last] \in Seq(Segment)
      /\ Len([front EXCEPT ![k] = last]) = Len(front)
      /\ \A j \in 1 .. Len(front) :
            [front EXCEPT ![k] = last][j] = IF j = k THEN last ELSE front[j]
  <2>1. k \in 1 .. Len(front)
    BY <1>1
  <2> QED
    BY <1>1, <1>2, <2>1, ExceptSeq
<1> QED
  BY <1>1, <1>2, <1>3, <1>4

\* The array depends on the first segments only.
LEMMA SameArray ==
  ASSUME NEW p \in Seq(Segment), NEW q \in Seq(Segment), NEW j \in Nat \ {0},
         j <= Len(p), j <= Len(q),
         \A i \in 1 .. j : p[i] = q[i]
  PROVE  ArrayAt(p, j) = ArrayAt(q, j)
<1>1. j \in 1 .. Len(p) /\ j \in 1 .. Len(q)
  OBVIOUS
<1>2. SubSeq(p, 1, j) = SubSeq(q, 1, j)
  <2>1. /\ SubSeq(p, 1, j) \in Seq(Segment) /\ SubSeq(q, 1, j) \in Seq(Segment)
        /\ Len(SubSeq(p, 1, j)) = j /\ Len(SubSeq(q, 1, j)) = j
        /\ \A i \in 1 .. j : SubSeq(p, 1, j)[i] = SubSeq(q, 1, j)[i]
    <3>1. \A i \in 1 .. j : p[i] \in Segment /\ q[i] \in Segment
      BY <1>1
    <3>2. /\ SubSeq(p, 1, j) \in Seq(Segment)
          /\ Len(SubSeq(p, 1, j)) = IF 1 <= j THEN j - 1 + 1 ELSE 0
          /\ \A i \in 1 .. j - 1 + 1 : SubSeq(p, 1, j)[i] = p[1 + i - 1]
      BY <3>1, SubSeqProperties
    <3>3. /\ SubSeq(q, 1, j) \in Seq(Segment)
          /\ Len(SubSeq(q, 1, j)) = IF 1 <= j THEN j - 1 + 1 ELSE 0
          /\ \A i \in 1 .. j - 1 + 1 : SubSeq(q, 1, j)[i] = q[1 + i - 1]
      BY <3>1, SubSeqProperties
    <3> QED
      BY <3>2, <3>3
  <2> QED
    BY <2>1, SeqEqual
<1> QED
  BY <1>2 DEF ArrayAt

\* What lies on the way to an array on the way of a path.
LEMMA WayToArray ==
  ASSUME NEW path \in Seq(Segment), NEW k \in 1 .. Len(path)
  PROVE  LET a == ArrayAt(path, k) IN
         /\ IndexedAt(a) = {j \in IndexedAt(path) : j < k}
         /\ \A j \in IndexedAt(a) : ArrayAt(a, j) = ArrayAt(path, j)
         /\ Enclosing(a) = {ArrayAt(path, j) : j \in IndexedAt(a)}
<1> DEFINE a == ArrayAt(path, k)
           outer == SubSeq(a, 1, Len(a) - 1)
<1>1. /\ a \in Seq(Segment) /\ Len(a) = k
      /\ \A j \in 1 .. k - 1 : a[j] = path[j]
      /\ a[k].index = NoIndex
  BY ArrayOnTheWay
<1> HIDE DEF a
<1>2. IndexedAt(a) = {j \in IndexedAt(path) : j < k}
  <2>1. ASSUME NEW j \in IndexedAt(a) PROVE j \in IndexedAt(path) /\ j < k
    <3>1. j \in 1 .. k /\ a[j].index # NoIndex
      BY <1>1 DEF IndexedAt
    <3>2. j # k
      BY <3>1, <1>1
    <3>3. j \in 1 .. k - 1 /\ j \in 1 .. Len(path) /\ j < k
      BY <3>1, <3>2
    <3> QED
      BY <3>1, <3>3, <1>1 DEF IndexedAt
  <2>2. ASSUME NEW j \in IndexedAt(path), j < k PROVE j \in IndexedAt(a)
    <3>1. j \in 1 .. k - 1 /\ j \in 1 .. k /\ path[j].index # NoIndex
      BY <2>2 DEF IndexedAt
    <3> QED
      BY <3>1, <1>1 DEF IndexedAt
  <2> QED
    BY <2>1, <2>2
<1>3. ASSUME NEW j \in IndexedAt(a) PROVE ArrayAt(a, j) = ArrayAt(path, j)
  <2>1. j \in Nat \ {0} /\ j < k /\ j <= Len(path)
    BY <1>2 DEF IndexedAt
  <2>2. \A i \in 1 .. j : a[i] = path[i]
    BY <2>1, <1>1
  <2>3. j <= Len(a)
    BY <2>1, <1>1
  <2> QED
    BY <2>1, <2>2, <2>3, <1>1, SameArray
<1>4. /\ outer \in Seq(Segment) /\ Len(outer) = k - 1
      /\ \A i \in 1 .. k - 1 : outer[i] = a[i]
  <2>1. \A i \in 1 .. k - 1 : a[i] \in Segment
    BY <1>1
  <2>2. /\ SubSeq(a, 1, k - 1) \in Seq(Segment)
        /\ Len(SubSeq(a, 1, k - 1)) = IF 1 <= k - 1 THEN k - 1 - 1 + 1 ELSE 0
        /\ \A i \in 1 .. k - 1 - 1 + 1 : SubSeq(a, 1, k - 1)[i] = a[1 + i - 1]
    BY <2>1, SubSeqProperties
  <2> QED
    BY <2>2, <1>1
<1> HIDE DEF outer
<1>5. IndexedAt(outer) = IndexedAt(a)
  <2>1. ASSUME NEW j \in IndexedAt(outer) PROVE j \in IndexedAt(a)
    BY <1>1, <1>4 DEF IndexedAt
  <2>2. ASSUME NEW j \in IndexedAt(a) PROVE j \in IndexedAt(outer)
    <3>1. j \in 1 .. k /\ j < k /\ a[j].index # NoIndex
      BY <1>1, <1>2 DEF IndexedAt
    <3>2. j \in 1 .. k - 1
      BY <3>1
    <3> QED
      BY <3>1, <3>2, <1>4 DEF IndexedAt
  <2> QED
    BY <2>1, <2>2
<1>6. ASSUME NEW j \in IndexedAt(a) PROVE ArrayAt(outer, j) = ArrayAt(path, j)
  <2>1. j \in Nat \ {0} /\ j < k /\ j <= Len(path)
    BY <1>2 DEF IndexedAt
  <2>2. \A i \in 1 .. j : outer[i] = path[i]
    BY <2>1, <1>1, <1>4
  <2>3. j <= Len(outer)
    BY <2>1, <1>4
  <2> QED
    BY <2>1, <2>2, <2>3, <1>4, SameArray
<1>7. Enclosing(a) = {ArrayAt(path, j) : j \in IndexedAt(a)}
  BY <1>5, <1>6 DEF Enclosing, ArraysOf, outer
<1> QED
  BY <1>2, <1>3, <1>7 DEF a

-----------------------------------------------------------------------------
(* What the checks ask for.                                                *)

\* A list of fields.
IsFields(fields) == \E n \in Nat : fields \in [1 .. n -> Fields]

\* The path of a field, and the arrays on its way.
LEMMA PathType ==
  ASSUME NEW fields, IsFields(fields), NEW i \in DOMAIN fields
  PROVE  /\ fields[i].path \in Paths /\ fields[i].path \in Seq(Segment)
         /\ \A j \in IndexedAt(fields[i].path) :
              /\ j \in 1 .. Len(fields[i].path)
              /\ fields[i].path[j].index \in Nat
              /\ ArrayAt(fields[i].path, j) \in Arrays
<1>1. fields[i] \in Fields
  BY DEF IsFields
<1>2. fields[i].path \in Paths
  BY <1>1 DEF Fields
<1>3. fields[i].path \in Seq(Segment)
  BY <1>2, BindingsAssumption DEF Segment
<1> DEFINE path == fields[i].path
<1> HIDE DEF path
<1>4. ASSUME NEW j \in IndexedAt(path)
      PROVE  j \in 1 .. Len(path) /\ path[j].index \in Nat /\ ArrayAt(path, j) \in Arrays
  <2>1. j \in 1 .. Len(path) /\ path[j].index # NoIndex
    BY DEF IndexedAt
  <2>2. path[j] \in Segment
    BY <2>1, <1>3 DEF path
  <2>3. path[j].index \in Nat
    BY <2>1, <2>2 DEF Segment
  <2>4. ArrayAt(path, j) \in Arrays
    BY <1>2 DEF Arrays, ArraysOf, path
  <2> QED
    BY <2>1, <2>3, <2>4
<1> QED
  BY <1>2, <1>3, <1>4 DEF path

\* One field: the length it asks of an array on its way.
LEMMA Asked ==
  ASSUME NEW path \in Seq(Segment), NEW j \in IndexedAt(path)
  PROVE  /\ ArrayAt(path, j) \in DOMAIN AnalyzeRosPath(path)
         /\ AnalyzeRosPath(path)[ArrayAt(path, j)] = path[j].index + 1
<1>1. j \in 1 .. Len(path)
  BY DEF IndexedAt
<1>2. Len(ArrayAt(path, j)) = j
  BY <1>1, ArrayOnTheWay
<1>3. ArrayAt(path, j) \in ArraysOf(path)
  BY DEF ArraysOf
<1> QED
  BY <1>2, <1>3 DEF AnalyzeRosPath

\* All of them: there is one check for each array, for a length that one of
\* the fields asks for and that is enough for the others.
LEMMA Checks ==
  ASSUME NEW fields, IsFields(fields)
  PROVE  LET required == VectorRequirements(fields) IN
         /\ \A i \in DOMAIN fields : \A j \in IndexedAt(fields[i].path) :
              LET a == ArrayAt(fields[i].path, j) IN
              a \in DOMAIN required /\ fields[i].path[j].index + 1 <= required[a]
         /\ \A a \in DOMAIN required :
              /\ a \in Arrays /\ required[a] \in Nat
              /\ \E i \in DOMAIN fields : \E j \in IndexedAt(fields[i].path) :
                   /\ a = ArrayAt(fields[i].path, j)
                   /\ required[a] = fields[i].path[j].index + 1
<1> DEFINE required == VectorRequirements(fields)
           analysed == {AnalyzeRosPath(fields[i].path) : i \in DOMAIN fields}
           asked(a) == {r[a] : r \in {q \in analysed : a \in DOMAIN q}}
<1>1. PICK n \in Nat : DOMAIN fields = 1 .. n
  BY DEF IsFields
<1>2. ASSUME NEW a, NEW x
      PROVE  x \in asked(a) <=>
               \E i \in DOMAIN fields : \E j \in IndexedAt(fields[i].path) :
                 a = ArrayAt(fields[i].path, j) /\ x = fields[i].path[j].index + 1
  <2>1. x \in asked(a) <=> \E i \in DOMAIN fields :
                             /\ a \in DOMAIN AnalyzeRosPath(fields[i].path)
                             /\ x = AnalyzeRosPath(fields[i].path)[a]
    OBVIOUS
  <2>2. ASSUME NEW i \in DOMAIN fields
        PROVE  (a \in DOMAIN AnalyzeRosPath(fields[i].path)
                  /\ x = AnalyzeRosPath(fields[i].path)[a])
               <=> \E j \in IndexedAt(fields[i].path) :
                     a = ArrayAt(fields[i].path, j) /\ x = fields[i].path[j].index + 1
    <3>1. fields[i].path \in Seq(Segment)
      BY PathType
    <3>2. a \in DOMAIN AnalyzeRosPath(fields[i].path)
            <=> \E j \in IndexedAt(fields[i].path) : a = ArrayAt(fields[i].path, j)
      BY DEF AnalyzeRosPath, ArraysOf
    <3> QED
      BY <3>1, <3>2, Asked
  <2> QED
    BY <2>1, <2>2
<1>3. ASSUME NEW a PROVE asked(a) \subseteq Nat
  <2>1. ASSUME NEW x \in asked(a) PROVE x \in Nat
    <3>1. PICK i \in DOMAIN fields : \E j \in IndexedAt(fields[i].path) :
            x = fields[i].path[j].index + 1
      BY <1>2
    <3>2. PICK j \in IndexedAt(fields[i].path) : x = fields[i].path[j].index + 1
      BY <3>1
    <3>3. fields[i].path[j].index \in Nat
      BY PathType
    <3> QED
      BY <3>2, <3>3
  <2> QED
    BY <2>1
<1>4. ASSUME NEW a, asked(a) # {}
      PROVE  \E x \in asked(a) : \A y \in asked(a) : y <= x
  <2> DEFINE r(i) == AnalyzeRosPath(fields[i].path)
             g == [i \in 1 .. n |-> IF a \in DOMAIN r(i) THEN r(i)[a] ELSE 0]
  <2>1. \A i \in 1 .. n : a \in DOMAIN r(i) => r(i)[a] \in asked(a)
    BY <1>1
  <2> HIDE DEF r
  <2>2. \A i \in 1 .. n : g[i] \in Nat
    BY <2>1, <1>3
  <2>3. PICK b \in Nat : \A i \in 1 .. n : g[i] <= b
    <3> HIDE DEF g
    <3> QED
      BY <2>2, Bounded
  <2>4. \A x \in asked(a) : \E i \in 1 .. n : x = g[i]
    BY <1>1 DEF r
  <2>5. \A x \in asked(a) : x <= b
    BY <2>3, <2>4
  <2> QED
    <3> HIDE DEF asked
    <3> QED
      BY <1>3, <1>4, <2>5, Greatest
<1>5. DOMAIN required = UNION {DOMAIN r : r \in analysed}
  BY DEF VectorRequirements, MergeVectorRequirements
<1>6. \A a \in DOMAIN required :
        required[a] = CHOOSE x \in asked(a) : \A y \in asked(a) : y <= x
  BY DEF VectorRequirements, MergeVectorRequirements
<1>7. \A a : a \in DOMAIN required <=> asked(a) # {}
  BY <1>5
<1> HIDE DEF required, asked, analysed
<1>8. ASSUME NEW a \in DOMAIN required
      PROVE  required[a] \in asked(a) /\ \A y \in asked(a) : y <= required[a]
  BY <1>4, <1>6, <1>7
<1>9. ASSUME NEW i \in DOMAIN fields, NEW j \in IndexedAt(fields[i].path)
      PROVE  LET a == ArrayAt(fields[i].path, j) IN
             a \in DOMAIN required /\ fields[i].path[j].index + 1 <= required[a]
  <2> DEFINE a == ArrayAt(fields[i].path, j)
  <2>1. fields[i].path[j].index + 1 \in asked(a)
    BY <1>2
  <2> HIDE DEF a
  <2>2. a \in DOMAIN required
    BY <2>1, <1>7
  <2>3. fields[i].path[j].index + 1 <= required[a]
    BY <2>1, <2>2, <1>8
  <2> QED
    BY <2>2, <2>3 DEF a
<1>10. ASSUME NEW a \in DOMAIN required
       PROVE  /\ a \in Arrays /\ required[a] \in Nat
              /\ \E i \in DOMAIN fields : \E j \in IndexedAt(fields[i].path) :
                   /\ a = ArrayAt(fields[i].path, j)
                   /\ required[a] = fields[i].path[j].index + 1
  <2>1. required[a] \in asked(a)
    BY <1>8
  <2>2. \E i \in DOMAIN fields : \E j \in IndexedAt(fields[i].path) :
          a = ArrayAt(fields[i].path, j) /\ required[a] = fields[i].path[j].index + 1
    BY <1>2, <2>1
  <2>3. a \in Arrays
    BY <2>2, PathType
  <2>4. required[a] \in Nat
    BY <2>1, <1>3
  <2> QED
    BY <2>2, <2>3, <2>4
<1> QED
  BY <1>9, <1>10 DEF required

-----------------------------------------------------------------------------
(* The inductive invariant: the arrays that are behind their check are as  *)
(* long as the fields need, and the packet holds the values that were cast *)
(* so far, each of them in range if its field is guarded.                  *)

LongEnough(length, array) ==
    array \in DOMAIN Requirements /\ Requirements[array] <= length[array]

LengthsKnown ==
    /\ msg.length \in [Arrays -> Nat]
    /\ out = [length |-> out.length, at |-> out.at]
    /\ out.length \in [Arrays -> Nat]
    /\ \A a \in DOMAIN Fixed : out.length[a] = Fixed[a]

SizesChecked ==
    /\ pc = "checking" => \A a \in passed : LongEnough(msg.length, a)
    /\ pc = "resizing" => \A a \in passed : LongEnough(out.length, a)

ValueAt(i) == msg.at[message.fields[i].path]

CastInRange(i) ==
    /\ pkt[i] = StaticCast(message.fields[i].type, ValueAt(i))
    /\ NeedsRangeGuard(message, message.fields[i]) => ~ OutOfByteRange(ValueAt(i))

PacketFilled ==
    /\ pc \in {"checking", "sent", "resizing"} =>
         /\ pkt \in Seq(Int) /\ Len(pkt) <= Len(message.fields)
         /\ msg.at \in [PathsOf(message.fields) -> Values]
         /\ \A i \in 1 .. Len(pkt) : CastInRange(i)
    /\ pc \in {"sent", "resizing"} => Len(pkt) = Len(message.fields)

BInv ==
    /\ IsFields(message.fields)
    /\ LengthsKnown /\ SizesChecked /\ PacketFilled
    /\ DroppedForCause /\ RoundTrips

\* Fields are a sequence.
LEMMA FieldsType ==
  ASSUME NEW fields, IsFields(fields)
  PROVE  /\ Len(fields) \in Nat /\ DOMAIN fields = 1 .. Len(fields)
         /\ \A i \in DOMAIN fields :
              /\ fields[i].path \in PathsOf(fields)
              /\ fields[i].type \in {"uint8_t", "int32_t"}
<1>1. PICK n \in Nat : fields \in [1 .. n -> Fields]
  BY DEF IsFields
<1>2. fields \in Seq(Fields)
  BY <1>1
<1>3. ASSUME NEW i \in DOMAIN fields
      PROVE  /\ fields[i].path \in PathsOf(fields)
             /\ fields[i].type \in {"uint8_t", "int32_t"}
  <2>1. fields[i] \in Fields
    BY <1>1
  <2> QED
    BY <2>1 DEF PathsOf, Fields
<1> QED
  BY <1>2, <1>3

\* The lengths of a message, incoming or new, are natural numbers.
LEMMA LengthsType ==
  /\ \A length \in Lengths : length \in [Arrays -> Nat]
  /\ NewMessage = [length |-> NewMessage.length, at |-> NewMessage.at]
  /\ NewMessage.length \in [Arrays -> Nat]
  /\ \A a \in DOMAIN Fixed : NewMessage.length[a] = Fixed[a]
<1>1. \A a \in DOMAIN Fixed : Fixed[a] \in Nat /\ a \in Arrays
  BY BindingsAssumption
<1>2. ASSUME NEW length \in Lengths PROVE length \in [Arrays -> Nat]
  <2>1. (0 .. MaxLength) \cup {Fixed[a] : a \in DOMAIN Fixed} \subseteq Nat
    BY <1>1, BindingsAssumption
  <2> QED
    BY <2>1 DEF Lengths
<1> QED
  BY <1>1, <1>2 DEF NewMessage

\* The cast keeps a value that fits.
LEMMA CastKeeps ==
  ASSUME NEW value \in Int, NEW type,
         type = "int32_t" \/ ~ OutOfByteRange(value)
  PROVE  StaticCast(type, value) = value
<1>1. ByteValues \in Nat \ {0}
  BY BindingsAssumption
<1>2. CASE type = "int32_t"
  BY <1>2 DEF StaticCast
<1>3. CASE ~ OutOfByteRange(value)
  <2>1. value \in Nat /\ value < ByteValues
    BY <1>1, <1>3 DEF OutOfByteRange
  <2>2. value % ByteValues = value
    BY <1>1, <2>1
  <2> QED
    BY <2>2 DEF StaticCast
<1> QED
  BY <1>2, <1>3

-----------------------------------------------------------------------------
(* The checks are ordered: what encloses the next array is behind, and so  *)
(* is everything when none is left.                                        *)
LEMMA ChecksGuard ==
  ASSUME BInv, NEW length
  PROVE  /\ (\A a \in passed : LongEnough(length, a)) /\ length \in [Arrays -> Nat] =>
              \A array \in NextChecks : IsThere(length, array)
         /\ (\A a \in passed : LongEnough(length, a)) /\ length \in [Arrays -> Nat]
              /\ Unchecked = {} =>
              \A path \in PathsOf(message.fields) : IsThere(length, path)
<1> USE DEF BInv
<1> SUFFICES ASSUME \A a \in passed : LongEnough(length, a),
                    length \in [Arrays -> Nat]
             PROVE  /\ \A array \in NextChecks : IsThere(length, array)
                    /\ Unchecked = {} => \A path \in PathsOf(message.fields) :
                                            IsThere(length, path)
  OBVIOUS
<1>1. ASSUME NEW i \in DOMAIN message.fields, NEW j \in IndexedAt(message.fields[i].path),
             ArrayAt(message.fields[i].path, j) \notin Unchecked
      PROVE  Holds(length, ArrayAt(message.fields[i].path, j), message.fields[i].path[j].index)
  <2> DEFINE a == ArrayAt(message.fields[i].path, j)
             n == message.fields[i].path[j].index
  <2>1. a \in DOMAIN Requirements /\ n + 1 <= Requirements[a]
    BY Checks DEF Requirements
  <2>2. n \in Nat /\ a \in Arrays
    BY PathType
  <2>3. Requirements[a] \in Nat
    BY <2>1, Checks DEF Requirements
  <2> HIDE DEF a, n
  <2>4. a \in passed
    BY <1>1, <2>1 DEF Unchecked, a
  <2>5. Requirements[a] <= length[a] /\ length[a] \in Nat
    BY <2>2, <2>4 DEF LongEnough
  <2>6. n < length[a]
    BY <2>1, <2>2, <2>3, <2>5
  <2> QED
    BY <2>6 DEF Holds, a, n
<1>2. ASSUME NEW array \in NextChecks PROVE IsThere(length, array)
  <2>1. array \in DOMAIN Requirements /\ Enclosing(array) \cap Unchecked = {}
    BY DEF NextChecks, CheckedBefore, Unchecked
  <2>2. PICK i \in DOMAIN message.fields : \E k \in IndexedAt(message.fields[i].path) :
          array = ArrayAt(message.fields[i].path, k)
    <3>1. \E i \in DOMAIN message.fields : \E k \in IndexedAt(message.fields[i].path) :
            /\ array = ArrayAt(message.fields[i].path, k)
            /\ Requirements[array] = message.fields[i].path[k].index + 1
      BY <2>1, Checks DEF Requirements
    <3> QED
      BY <3>1
  <2> DEFINE path == message.fields[i].path
  <2>3. PICK k \in IndexedAt(path) : array = ArrayAt(path, k)
    BY <2>2
  <2>4. path \in Seq(Segment) /\ k \in 1 .. Len(path)
    BY PathType
  <2>5. /\ IndexedAt(array) = {j \in IndexedAt(path) : j < k}
        /\ \A j \in IndexedAt(array) : ArrayAt(array, j) = ArrayAt(path, j)
        /\ Enclosing(array) = {ArrayAt(path, j) : j \in IndexedAt(array)}
    <3> HIDE DEF path
    <3> QED
      BY <2>3, <2>4, WayToArray
  <2>6. ASSUME NEW j \in IndexedAt(array)
        PROVE  Holds(length, ArrayAt(array, j), array[j].index)
    <3>1. j \in IndexedAt(path) /\ j < k
      BY <2>5
    <3>2. ArrayAt(path, j) \notin Unchecked
      BY <2>1, <2>5
    <3>3. Holds(length, ArrayAt(path, j), path[j].index)
      BY <1>1, <3>1, <3>2
    <3>4. array[j] = path[j]
      <4>1. j \in 1 .. k - 1
        BY <2>4, <3>1 DEF IndexedAt
      <4> HIDE DEF path
      <4> QED
        BY <4>1, <2>3, <2>4, ArrayOnTheWay
    <3> QED
      BY <3>3, <3>4, <2>5
  <2> QED
    BY <2>6 DEF IsThere
<1>3. ASSUME Unchecked = {}, NEW path \in PathsOf(message.fields)
      PROVE  IsThere(length, path)
  <2>1. PICK i \in DOMAIN message.fields : path = message.fields[i].path
    BY DEF PathsOf
  <2> QED
    BY <1>1, <1>3, <2>1 DEF IsThere
<1> QED
  BY <1>2, <1>3

\* The invariant says why nothing is indexed beyond its end.
LEMMA InBounds == BInv => NeverOutOfBounds
<1> SUFFICES ASSUME BInv PROVE NeverOutOfBounds
  OBVIOUS
<1>1. /\ msg.length \in [Arrays -> Nat] /\ out.length \in [Arrays -> Nat]
      /\ pc = "checking" => \A a \in passed : LongEnough(msg.length, a)
      /\ pc = "resizing" => \A a \in passed : LongEnough(out.length, a)
  BY DEF BInv, LengthsKnown, SizesChecked
<1>2. CASE pc = "checking"
  BY <1>1, <1>2, ChecksGuard DEF NeverOutOfBounds
<1>3. CASE pc = "resizing"
  BY <1>1, <1>3, ChecksGuard DEF NeverOutOfBounds
<1> QED
  BY <1>2, <1>3 DEF NeverOutOfBounds

-----------------------------------------------------------------------------
(* The steps.                                                              *)

\* Before the first message.
LEMMA InitHolds == BindingsInit => BInv
<1> SUFFICES ASSUME BindingsInit PROVE BInv
  OBVIOUS
<1> USE DEF BindingsInit
<1>1. IsFields(message.fields)
  <2>1. message.fields \in UNION {[1..n -> Fields] : n \in 1..MaxFields}
    BY DEF Messages
  <2> QED
    BY <2>1, BindingsAssumption DEF IsFields
<1>2. LengthsKnown
  BY LengthsType DEF LengthsKnown
<1>3. SizesChecked /\ PacketFilled /\ DroppedForCause /\ RoundTrips
  BY DEF SizesChecked, PacketFilled, DroppedForCause, RoundTrips
<1> QED
  BY <1>1, <1>2, <1>3 DEF BInv

\* A message arrives: nothing is checked, nothing is in the packet.
LEMMA CallbackStep == BInv /\ Callback => BInv'
<1> SUFFICES ASSUME BInv, Callback PROVE BInv'
  OBVIOUS
<1>1. PICK length \in Lengths, at \in [PathsOf(message.fields) -> Values] :
        msg' = [length |-> length, at |-> at]
  BY DEF Callback
<1>2. /\ pc' = "checking" /\ passed' = {} /\ pkt' = <<>> /\ out' = NewMessage
      /\ message' = message /\ msg'.length = length /\ msg'.at = at
  BY <1>1 DEF Callback
<1>3. IsFields(message'.fields)
  BY <1>2 DEF BInv
<1>4. LengthsKnown'
  BY <1>1, <1>2, LengthsType DEF LengthsKnown
<1>5. SizesChecked'
  BY <1>2 DEF SizesChecked
<1>6. PacketFilled'
  <2>1. pkt' \in Seq(Int) /\ Len(pkt') = 0
    BY <1>2
  <2>2. Len(message'.fields) \in Nat
    BY <1>3, FieldsType
  <2>3. msg'.at \in [PathsOf(message'.fields) -> Values]
    BY <1>1, <1>2
  <2> QED
    BY <1>2, <2>1, <2>2, <2>3 DEF PacketFilled
<1>7. DroppedForCause' /\ RoundTrips'
  BY <1>2 DEF DroppedForCause, RoundTrips
<1> QED
  BY <1>3, <1>4, <1>5, <1>6, <1>7 DEF BInv

\* Nothing else touches the entry of the protocol file.
LEMMA SameRequirements ==
  ASSUME message' = message
  PROVE  Requirements' = Requirements
BY DEF Requirements

\* A size check passes, or a field asked for more than there is.
LEMMA CheckLengthStep == BInv /\ CheckLength => BInv'
<1> SUFFICES ASSUME BInv, CheckLength PROVE BInv'
  OBVIOUS
<1> USE DEF BInv
<1>1. pc = "checking" /\ UNCHANGED <<message, msg, pkt, out>> /\ Requirements' = Requirements
  BY SameRequirements DEF CheckLength
<1>2. PICK array \in NextChecks :
        \/ /\ msg.length[array] < Requirements[array]
           /\ pc' = "dropped" /\ passed' = passed
        \/ /\ ~ (msg.length[array] < Requirements[array])
           /\ passed' = passed \cup {array} /\ pc' = pc
  BY DEF CheckLength
<1>3. /\ array \in DOMAIN Requirements /\ array \in Arrays
      /\ Requirements[array] \in Nat /\ msg.length[array] \in Nat
      /\ \E i \in DOMAIN message.fields : \E j \in IndexedAt(message.fields[i].path) :
           /\ array = ArrayAt(message.fields[i].path, j)
           /\ Requirements[array] = message.fields[i].path[j].index + 1
  <2>1. array \in DOMAIN Requirements
    BY DEF NextChecks, Unchecked
  <2> QED
    BY <2>1, Checks DEF Requirements, LengthsKnown
<1>4. IsFields(message'.fields) /\ LengthsKnown'
  BY <1>1 DEF LengthsKnown
<1>5. CASE msg.length[array] < Requirements[array]
  <2>1. pc' = "dropped"
    BY <1>2, <1>5
  <2>2. SizesChecked' /\ PacketFilled' /\ RoundTrips'
    BY <2>1 DEF SizesChecked, PacketFilled, RoundTrips
  <2>3. DroppedForCause'
    <3>1. PICK i \in DOMAIN message.fields : \E j \in IndexedAt(message.fields[i].path) :
            /\ array = ArrayAt(message.fields[i].path, j)
            /\ Requirements[array] = message.fields[i].path[j].index + 1
      BY <1>3
    <3>2. PICK j \in IndexedAt(message.fields[i].path) :
            /\ array = ArrayAt(message.fields[i].path, j)
            /\ Requirements[array] = message.fields[i].path[j].index + 1
      BY <3>1
    <3> DEFINE path == message.fields[i].path
    <3>3. path[j].index \in Nat /\ path \in PathsOf(message.fields)
      BY PathType, FieldsType
    <3>4. ~ Holds(msg.length, ArrayAt(path, j), path[j].index)
      <4>1. ~ (path[j].index < msg.length[array])
        BY <1>3, <1>5, <3>2, <3>3
      <4> QED
        BY <4>1, <3>2 DEF Holds
    <3>5. ~ IsThere(msg.length, path)
      BY <3>2, <3>4 DEF IsThere
    <3>6. ~ IsThere(msg'.length, path) /\ path \in PathsOf(message'.fields)
      BY <3>3, <3>5, <1>1
    <3> HIDE DEF path
    <3> QED
      BY <2>1, <3>6 DEF DroppedForCause
  <2> QED
    BY <1>4, <2>2, <2>3
<1>6. CASE ~ (msg.length[array] < Requirements[array])
  <2>1. passed' = passed \cup {array} /\ pc' = "checking"
    BY <1>1, <1>2, <1>6
  <2>2. LongEnough(msg.length, array)
    BY <1>3, <1>6 DEF LongEnough
  <2>3. SizesChecked'
    BY <1>1, <2>1, <2>2 DEF SizesChecked, LongEnough
  <2>4. PacketFilled'
    BY <1>1, <2>1 DEF PacketFilled, CastInRange, ValueAt, NeedsRangeGuard
  <2>5. DroppedForCause' /\ RoundTrips'
    BY <2>1 DEF DroppedForCause, RoundTrips
  <2> QED
    BY <1>4, <2>3, <2>4, <2>5
<1> QED
  BY <1>5, <1>6

\* A field is cast, or its guard refuses the value.
LEMMA FillFieldStep == BInv /\ FillField => BInv'
<1> SUFFICES ASSUME BInv, FillField PROVE BInv'
  OBVIOUS
<1> USE DEF BInv
<1> DEFINE next == Len(pkt) + 1
           field == message.fields[next]
           value == msg.at[field.path]
<1>1. /\ pc = "checking" /\ UNCHANGED <<message, msg, passed, out>>
      /\ Requirements' = Requirements /\ Len(pkt) < Len(message.fields)
  BY SameRequirements DEF FillField
<1>2. \/ /\ NeedsRangeGuard(message, field) /\ OutOfByteRange(value)
         /\ pc' = "dropped" /\ pkt' = pkt
      \/ /\ ~ (NeedsRangeGuard(message, field) /\ OutOfByteRange(value))
         /\ pkt' = Append(pkt, StaticCast(field.type, value)) /\ pc' = pc
  BY DEF FillField
<1>3. /\ pkt \in Seq(Int) /\ Len(pkt) \in Nat
      /\ msg.at \in [PathsOf(message.fields) -> Values]
      /\ \A i \in 1 .. Len(pkt) : CastInRange(i)
  BY <1>1 DEF PacketFilled
<1>4. next \in DOMAIN message.fields /\ Len(message.fields) \in Nat
  BY <1>1, <1>3, FieldsType
<1>5. field.path \in PathsOf(message.fields) /\ field.type \in {"uint8_t", "int32_t"}
  BY <1>4, FieldsType
<1>6. value \in Int
  BY <1>3, <1>5, BindingsAssumption
<1>7. IsFields(message'.fields) /\ LengthsKnown'
  BY <1>1 DEF LengthsKnown
<1> HIDE DEF field, value, next
<1>8. CASE NeedsRangeGuard(message, field) /\ OutOfByteRange(value)
  <2>1. pc' = "dropped"
    BY <1>2, <1>8
  <2>2. SizesChecked' /\ PacketFilled' /\ RoundTrips'
    BY <2>1 DEF SizesChecked, PacketFilled, RoundTrips
  <2>3. value \notin 0 .. ByteValues - 1
    BY <1>6, <1>8, BindingsAssumption DEF OutOfByteRange
  <2>4. DroppedForCause'
    <3>1. /\ next \in DOMAIN message'.fields
          /\ NeedsRangeGuard(message', message'.fields[next])
          /\ msg'.at[message'.fields[next].path] \notin 0 .. ByteValues - 1
      BY <1>1, <1>4, <1>8, <2>3 DEF field, value
    <3> QED
      BY <2>1, <3>1 DEF DroppedForCause
  <2> QED
    BY <1>7, <2>2, <2>4
<1>9. CASE ~ (NeedsRangeGuard(message, field) /\ OutOfByteRange(value))
  <2>1. pkt' = Append(pkt, StaticCast(field.type, value)) /\ pc' = "checking"
    BY <1>1, <1>2, <1>9
  <2>2. StaticCast(field.type, value) \in Int
    BY <1>5, <1>6, BindingsAssumption DEF StaticCast
  <2>3. /\ pkt' \in Seq(Int) /\ Len(pkt') = next
        /\ \A i \in 1 .. Len(pkt) : pkt'[i] = pkt[i]
        /\ pkt'[next] = StaticCast(field.type, value)
    BY <1>3, <2>1, <2>2 DEF next
  <2>4. ASSUME NEW i \in 1 .. Len(pkt') PROVE CastInRange(i)'
    <3>1. CASE i = next
      BY <3>1, <1>1, <1>9, <2>3 DEF CastInRange, ValueAt, field, value, NeedsRangeGuard
    <3>2. CASE i # next
      <4>1. i \in 1 .. Len(pkt)
        BY <3>2, <2>3, <1>3 DEF next
      <4> QED
        BY <4>1, <1>1, <1>3, <2>3 DEF CastInRange, ValueAt, NeedsRangeGuard
    <3> QED
      BY <3>1, <3>2
  <2>5. Len(pkt') <= Len(message'.fields)
    BY <1>1, <1>3, <1>4, <2>3 DEF next
  <2>6. PacketFilled'
    BY <1>1, <1>3, <2>1, <2>3, <2>4, <2>5 DEF PacketFilled
  <2>7. SizesChecked'
    BY <1>1, <2>1 DEF SizesChecked, LongEnough
  <2>8. DroppedForCause' /\ RoundTrips'
    BY <2>1 DEF DroppedForCause, RoundTrips
  <2> QED
    BY <1>7, <2>6, <2>7, <2>8
<1> QED
  BY <1>8, <1>9

\* The packet is sent, and is given to dispatch_packet at the other end.
LEMMA SendStep == BInv /\ (SendPacket \/ Dispatch) => BInv'
<1> SUFFICES ASSUME BInv, SendPacket \/ Dispatch PROVE BInv'
  OBVIOUS
<1> USE DEF BInv
<1>1. CASE SendPacket
  <2>1. /\ pc = "checking" /\ pc' = "sent" /\ Len(pkt) = Len(message.fields)
        /\ UNCHANGED <<message, msg, passed, pkt, out>>
    BY <1>1 DEF SendPacket
  <2>2. IsFields(message'.fields) /\ LengthsKnown'
    BY <2>1 DEF LengthsKnown
  <2>3. PacketFilled'
    BY <2>1 DEF PacketFilled, CastInRange, ValueAt, NeedsRangeGuard
  <2>4. SizesChecked' /\ DroppedForCause' /\ RoundTrips'
    BY <2>1 DEF SizesChecked, DroppedForCause, RoundTrips
  <2> QED
    BY <2>2, <2>3, <2>4
<1>2. CASE Dispatch
  <2>1. /\ pc = "sent" /\ pc' \in {"resizing", "ignored"}
        /\ passed' = {} /\ out' = NewMessage
        /\ UNCHANGED <<message, msg, pkt>>
    BY <1>2 DEF Dispatch
  <2>2. IsFields(message'.fields) /\ LengthsKnown'
    BY <2>1, LengthsType DEF LengthsKnown
  <2>3. PacketFilled'
    BY <2>1 DEF PacketFilled, CastInRange, ValueAt, NeedsRangeGuard
  <2>4. SizesChecked' /\ DroppedForCause' /\ RoundTrips'
    BY <2>1 DEF SizesChecked, DroppedForCause, RoundTrips
  <2> QED
    BY <2>2, <2>3, <2>4
<1> QED
  BY <1>1, <1>2

\* A vector is made long enough; a std::array is, or can never be.
LEMMA EnsureSizeStep == BInv /\ EnsureSize => BInv'
<1> SUFFICES ASSUME BInv, EnsureSize PROVE BInv'
  OBVIOUS
<1> USE DEF BInv
<1>1. /\ pc = "resizing" /\ UNCHANGED <<message, msg, pkt>> /\ Requirements' = Requirements
  BY SameRequirements DEF EnsureSize
<1>2. PICK array \in NextChecks :
        \/ /\ EnsureSizeOk(array, out.length[array], Requirements[array])
           /\ out' = [out EXCEPT !.length[array] =
                         Resized(array, out.length[array], Requirements[array])]
           /\ passed' = passed \cup {array} /\ pc' = pc
        \/ /\ ~ EnsureSizeOk(array, out.length[array], Requirements[array])
           /\ pc' = "unfit" /\ out' = out /\ passed' = passed
  BY DEF EnsureSize
<1> DEFINE length == out.length[array]
           needed == Requirements[array]
           left == Resized(array, length, needed)
<1>3. /\ array \in DOMAIN Requirements /\ array \in Arrays
      /\ needed \in Nat /\ length \in Nat
      /\ \E i \in DOMAIN message.fields : \E j \in IndexedAt(message.fields[i].path) :
           /\ array = ArrayAt(message.fields[i].path, j)
           /\ needed = message.fields[i].path[j].index + 1
  <2>1. array \in DOMAIN Requirements
    BY DEF NextChecks, Unchecked
  <2> QED
    BY <2>1, Checks DEF Requirements, LengthsKnown
<1>4. IsFields(message'.fields)
  BY <1>1
<1> HIDE DEF length, needed, left
<1>5. CASE EnsureSizeOk(array, length, needed)
  <2>1. /\ out' = [out EXCEPT !.length[array] = left]
        /\ passed' = passed \cup {array} /\ pc' = "resizing"
    BY <1>1, <1>2, <1>5 DEF length, needed, left
  <2>2. /\ out' = [length |-> [out.length EXCEPT ![array] = left], at |-> out.at]
        /\ out.length \in [Arrays -> Nat]
    BY <2>1 DEF LengthsKnown
  <2>3. /\ left \in Nat /\ needed <= left /\ length <= left
        /\ array \in DOMAIN Fixed => left = length
    BY <1>3, <1>5 DEF left, Resized, EnsureSizeOk
  <2>4. /\ out'.length \in [Arrays -> Nat] /\ out'.length[array] = left
        /\ \A a \in Arrays : a # array => out'.length[a] = out.length[a]
    BY <2>2, <2>3, <1>3
  <2>5. LengthsKnown'
    <3>1. ASSUME NEW a \in DOMAIN Fixed PROVE out'.length[a] = Fixed[a]
      <4>1. a \in Arrays /\ out.length[a] = Fixed[a]
        BY BindingsAssumption DEF LengthsKnown
      <4> QED
        BY <4>1, <2>3, <2>4 DEF length
    <3>2. out' = [length |-> out'.length, at |-> out'.at]
      BY <2>2
    <3> QED
      BY <3>1, <3>2, <2>4, <1>1 DEF LengthsKnown
  <2>6. SizesChecked'
    <3>1. ASSUME NEW a \in passed' PROVE LongEnough(out.length, a)'
      <4>1. CASE a = array
        BY <4>1, <1>1, <1>3, <2>3, <2>4 DEF LongEnough, needed
      <4>2. CASE a # array
        <5>1. LongEnough(out.length, a)
          BY <4>2, <1>1, <2>1 DEF SizesChecked
        <5>2. a \in Arrays
          BY <5>1, Checks DEF LongEnough, Requirements
        <5> QED
          BY <5>1, <5>2, <4>2, <1>1, <2>4 DEF LongEnough
      <4> QED
        BY <4>1, <4>2
    <3> QED
      BY <3>1, <2>1 DEF SizesChecked
  <2>7. PacketFilled'
    BY <1>1, <2>1 DEF PacketFilled, CastInRange, ValueAt, NeedsRangeGuard
  <2>8. DroppedForCause' /\ RoundTrips'
    BY <2>1 DEF DroppedForCause, RoundTrips
  <2> QED
    BY <1>4, <2>5, <2>6, <2>7, <2>8
<1>6. CASE ~ EnsureSizeOk(array, length, needed)
  <2>1. pc' = "unfit" /\ out' = out /\ passed' = passed
    BY <1>2, <1>6 DEF length, needed
  <2>2. LengthsKnown' /\ SizesChecked' /\ PacketFilled' /\ RoundTrips'
    BY <1>1, <2>1 DEF LengthsKnown, SizesChecked, PacketFilled, RoundTrips
  <2>3. array \in DOMAIN Fixed /\ length = Fixed[array] /\ ~ (length >= needed)
    BY <1>6 DEF EnsureSizeOk, length, LengthsKnown
  <2>4. DroppedForCause'
    <3>1. PICK i \in DOMAIN message.fields : \E j \in IndexedAt(message.fields[i].path) :
            /\ array = ArrayAt(message.fields[i].path, j)
            /\ needed = message.fields[i].path[j].index + 1
      BY <1>3
    <3>2. PICK j \in IndexedAt(message.fields[i].path) :
            /\ array = ArrayAt(message.fields[i].path, j)
            /\ needed = message.fields[i].path[j].index + 1
      BY <3>1
    <3> DEFINE path == message.fields[i].path
    <3>3. path[j].index \in Nat /\ path \in PathsOf(message'.fields)
      BY PathType, FieldsType, <1>1
    <3>4. Fixed[array] <= path[j].index
      BY <1>3, <2>3, <3>2, <3>3
    <3>5. /\ j \in IndexedAt(path) /\ ArrayAt(path, j) \in DOMAIN Fixed
          /\ Fixed[ArrayAt(path, j)] <= path[j].index
      BY <2>3, <3>2, <3>4
    <3> HIDE DEF path
    <3> QED
      BY <2>1, <3>3, <3>5 DEF DroppedForCause
  <2> QED
    BY <1>4, <2>2, <2>4
<1> QED
  BY <1>5, <1>6

\* The element a path names is written last by its last field.
LEMMA WriteStep == BInv /\ WriteAndPublish => BInv'
<1> SUFFICES ASSUME BInv, WriteAndPublish PROVE BInv'
  OBVIOUS
<1> USE DEF BInv
<1> DEFINE LastFor(path, i) ==
             /\ message.fields[i].path = path
             /\ \A j \in DOMAIN pkt : message.fields[j].path = path => j <= i
<1>1. /\ pc = "resizing" /\ pc' = "published"
      /\ UNCHANGED <<message, msg, passed, pkt>>
      /\ out' = [out EXCEPT !.at =
                   [path \in PathsOf(message.fields) |->
                      pkt[CHOOSE i \in DOMAIN pkt : LastFor(path, i)]]]
  BY DEF WriteAndPublish
<1>2. /\ pkt \in Seq(Int) /\ DOMAIN pkt = 1 .. Len(pkt) /\ Len(pkt) \in Nat
      /\ DOMAIN pkt = DOMAIN message.fields
      /\ msg.at \in [PathsOf(message.fields) -> Values]
      /\ \A i \in 1 .. Len(pkt) : CastInRange(i)
  BY <1>1, FieldsType DEF PacketFilled
<1> HIDE DEF LastFor
<1>3. out' = [length |-> out.length,
              at |-> [path \in PathsOf(message.fields) |->
                        pkt[CHOOSE i \in DOMAIN pkt : LastFor(path, i)]]]
  BY <1>1 DEF LengthsKnown
<1>4. IsFields(message'.fields) /\ LengthsKnown'
  BY <1>1, <1>3 DEF LengthsKnown
<1>5. SizesChecked' /\ PacketFilled' /\ DroppedForCause'
  BY <1>1 DEF SizesChecked, PacketFilled, DroppedForCause
<1>6. ASSUME NEW path \in PathsOf(message.fields),
             \A i \in DOMAIN message.fields : message.fields[i].path = path =>
                \/ message.fields[i].type = "int32_t"
                \/ NeedsRangeGuard(message, message.fields[i])
      PROVE  out'.at[path] = msg.at[path]
  <2> DEFINE Writers == {i \in DOMAIN pkt : message.fields[i].path = path}
  <2>1. PICK last \in Writers : \A j \in Writers : j <= last
    <3>1. Writers # {}
      BY <1>2 DEF PathsOf
    <3>2. Writers \subseteq Nat /\ \A x \in Writers : x <= Len(pkt)
      BY <1>2
    <3> HIDE DEF Writers
    <3> QED
      BY <1>2, <3>1, <3>2, Greatest
  <2>2. \E i \in DOMAIN pkt : LastFor(path, i)
    BY <2>1 DEF LastFor
  <2>3. PICK i \in DOMAIN pkt : LastFor(path, i) /\ out'.at[path] = pkt[i]
    BY <2>2, <1>3
  <2>4. /\ i \in 1 .. Len(pkt) /\ i \in DOMAIN message.fields
        /\ message.fields[i].path = path
    BY <2>3, <1>2 DEF LastFor
  <2>5. /\ pkt[i] = StaticCast(message.fields[i].type, msg.at[path])
        /\ NeedsRangeGuard(message, message.fields[i]) => ~ OutOfByteRange(msg.at[path])
    BY <1>2, <2>4 DEF CastInRange, ValueAt
  <2>6. msg.at[path] \in Int
    BY <1>2, BindingsAssumption
  <2>7. message.fields[i].type = "int32_t" \/ ~ OutOfByteRange(msg.at[path])
    BY <1>6, <2>4, <2>5
  <2> QED
    BY <2>3, <2>5, <2>6, <2>7, CastKeeps
<1>7. RoundTrips'
  BY <1>1, <1>6 DEF RoundTrips, NeedsRangeGuard
<1> QED
  BY <1>4, <1>5, <1>7

\* The invariant holds of the generated callback and dispatch code.
THEOREM BindingsInvariant == BindingsSpec => []BInv
<1>1. BindingsInit => BInv
  BY InitHolds
<1>2. BInv /\ [BindingsNext]_bindingsVars => BInv'
  <2> SUFFICES ASSUME BInv, [BindingsNext]_bindingsVars PROVE BInv'
    OBVIOUS
  <2>1. CASE Callback
    BY <2>1, CallbackStep
  <2>2. CASE CheckLength
    BY <2>2, CheckLengthStep
  <2>3. CASE FillField
    BY <2>3, FillFieldStep
  <2>4. CASE SendPacket \/ Dispatch
    BY <2>4, SendStep
  <2>5. CASE EnsureSize
    BY <2>5, EnsureSizeStep
  <2>6. CASE WriteAndPublish
    BY <2>6, WriteStep
  <2>7. CASE UNCHANGED bindingsVars
    BY <2>7 DEF bindingsVars, BInv, LengthsKnown, SizesChecked, LongEnough, Requirements,
                PacketFilled, CastInRange, ValueAt, NeedsRangeGuard,
                DroppedForCause, RoundTrips
  <2> QED
    BY <2>1, <2>2, <2>3, <2>4, <2>5, <2>6, <2>7 DEF BindingsNext
<1> QED
  BY <1>1, <1>2, PTL DEF BindingsSpec

\* Whatever the protocol file names and whatever message arrives, the
\* generated code indexes no array beyond its end: the checks that
\* register_all and dispatch_packet emit are enough, and come in time.
THEOREM StaysInBounds == BindingsSpec => []NeverOutOfBounds
<1>1. BInv => NeverOutOfBounds
  BY InBounds
<1> QED
  BY <1>1, BindingsInvariant, PTL

\* The checks ask for no more than the fields need: a message is dropped only
\* for an element it lacks or a guarded value that does not fit.
THEOREM DropsForCause == BindingsSpec => []DroppedForCause
<1>1. BInv => DroppedForCause
  BY DEF BInv
<1> QED
  BY <1>1, BindingsInvariant, PTL

\* What is published is what was received, for fields whose wire type is wide
\* enough or whose values the range guard checks.
THEOREM ValuesRoundTrip == BindingsSpec => []RoundTrips
<1>1. BInv => RoundTrips
  BY DEF BInv
<1> QED
  BY <1>1, BindingsInvariant, PTL
=============================================================================
