------------------------------ MODULE FoldFacts ------------------------------
(***************************************************************************)
(* What a fold over a sequence computes, an element at a time, for any     *)
(* operator: the proofs about a fold take an instance of this module.      *)
(* Induction is had from the well-foundedness of the natural numbers: a    *)
(* set of them has a least element.                                        *)
(***************************************************************************)
EXTENDS SequencesExt, SequenceTheorems, WellFoundedInduction, TLAPS

CONSTANT op(_, _)

Smaller == {ss \in Nat \X Nat : ss[1] < ss[2]}

\* A set of natural numbers has a least element.
LEMMA Least ==
  ASSUME NEW T, T \subseteq Nat, T # {}
  PROVE  \E x \in T : \A y \in T : x <= y
<1>1. IsWellFoundedOn(Smaller, Nat)
  BY NatLessThanWellFounded DEF OpToRel, Smaller
<1>2. PICK x \in T : \A y \in T : ~ (<<y, x>> \in Smaller)
  BY <1>1, WFMin
<1>3. ASSUME NEW y \in T PROVE x <= y
  <2>1. x \in Nat /\ y \in Nat
    OBVIOUS
  <2>2. ~ (y < x)
    BY <1>2, <2>1 DEF Smaller
  <2> QED
    BY <2>1, <2>2
<1> QED
  BY <1>3

\* A set of numbers that holds the first of a .. n, and with each the next, holds
\* them all.
LEMMA Climbs ==
  ASSUME NEW a \in Nat, NEW n \in Nat, NEW T, a \in T,
         \A k \in a .. n - 1 : k \in T => k + 1 \in T
  PROVE  \A k \in a .. n : k \in T
<1> DEFINE Bad == {k \in a .. n : k \notin T}
<1>1. SUFFICES ASSUME Bad # {} PROVE FALSE
  OBVIOUS
<1>2. Bad \subseteq Nat
  OBVIOUS
<1>3. PICK x \in Bad : \A y \in Bad : x <= y
  BY <1>1, <1>2, Least
<1>4. x \in a .. n /\ x \notin T /\ x # a
  BY <1>3
<1>5. PICK y \in a .. n - 1 : x = y + 1 /\ y \in a .. n /\ ~ (x <= y)
  <2>1. x - 1 \in a .. n - 1 /\ x = (x - 1) + 1 /\ x - 1 \in a .. n /\ ~ (x <= x - 1)
    BY <1>4
  <2> QED
    BY <2>1
<1>6. y \in T
  BY <1>3, <1>5
<1> QED
  BY <1>4, <1>5, <1>6

-----------------------------------------------------------------------------
(* FoldLeft is a recursive function on the sets of indices.  There is one. *)

Largest(T, m) == m \in T /\ \A y \in T : m >= y

\* Max picks the largest number.
LEMMA MaxIs ==
  ASSUME NEW T, T \subseteq Nat, NEW m, Largest(T, m)
  PROVE  Max(T) = m
<1>1. m \in T /\ \A y \in T : m >= y
  BY DEF Largest
<1>2. Max(T) \in T /\ \A y \in T : Max(T) >= y
  BY <1>1 DEF Max
<1>3. Max(T) >= m /\ m >= Max(T) /\ m \in Nat /\ Max(T) \in Nat
  BY <1>1, <1>2
<1> HIDE DEF Max
<1> QED
  BY <1>3

Step(g, base, s, T) ==
  IF T = {} THEN base ELSE op(g[T \ {Max(T)}], s[Max(T)])

Iterates(g, base, s, n) == g = [T \in SUBSET (1 .. n) |-> Step(g, base, s, T)]

\* A set of numbers up to n that has an element has a largest one.
LEMMA HasLargest ==
  ASSUME NEW n \in Nat, NEW T \in SUBSET (1 .. n), T # {}
  PROVE  \E m \in T : Largest(T, m)
<1> DEFINE U == {n - y : y \in T}
<1>1. U \subseteq Nat /\ U # {}
  <2>1. ASSUME NEW y \in T PROVE n - y \in Nat
    <3>1. y \in 1 .. n
      OBVIOUS
    <3> QED
      BY <3>1
  <2>2. PICK y \in T : TRUE
    OBVIOUS
  <2>3. n - y \in U
    OBVIOUS
  <2> QED
    BY <2>1, <2>3
<1>2. PICK u \in U : \A v \in U : u <= v
  BY <1>1, Least
<1>3. PICK m \in T : u = n - m
  BY <1>2
<1>4. ASSUME NEW y \in T PROVE m >= y
  <2>1. n - y \in U
    OBVIOUS
  <2>2. n - m <= n - y
    BY <1>2, <1>3, <2>1
  <2>3. m \in 1 .. n /\ y \in 1 .. n
    OBVIOUS
  <2> QED
    BY <2>2, <2>3
<1> QED
  BY <1>4 DEF Largest

\* The function on the sets of indices exists.
LEMMA IterExists ==
  ASSUME NEW n \in Nat, NEW base, NEW s
  PROVE  \E g : Iterates(g, base, s, n)
<1> DEFINE Has(k) == \E g : g = [T \in SUBSET (1 .. k) |-> Step(g, base, s, T)]
           Bad == {k \in 0 .. n : ~ Has(k)}
<1>2. SUFFICES Has(n)
  BY DEF Iterates
<1>3. Has(0)
  <2> DEFINE g == [T \in SUBSET (1 .. 0) |-> base]
  <2>1. 1 .. 0 = {}
    OBVIOUS
  <2>2. \A T \in SUBSET (1 .. 0) : Step(g, base, s, T) = base
    BY <2>1 DEF Step
  <2>3. g = [T \in SUBSET (1 .. 0) |-> Step(g, base, s, T)]
    BY <2>2
  <2> QED
    BY <2>3
<1>4. ASSUME NEW k \in 0 .. n, NEW m \in 0 .. n, m = k + 1, Has(k)
      PROVE  Has(m)
  <2>1. PICK f : f = [T \in SUBSET (1 .. k) |-> Step(f, base, s, T)]
    BY <1>4
  <2> DEFINE D == SUBSET (1 .. m)
             g == [T \in D |-> IF m \in T THEN op(f[T \ {m}], s[m]) ELSE f[T]]
  <2>2. ASSUME NEW T \in D
        PROVE  m \notin T => T \in SUBSET (1 .. k)
    <3>1. \A y \in 1 .. m : y # m => y \in 1 .. k
      BY <1>4
    <3> QED
      BY <3>1
  <2>4. ASSUME NEW T \in D PROVE g[T] = Step(g, base, s, T)
    <3>1. CASE m \in T
      <4>1. Max(T) = m
        <5>1. Largest(T, m)
          BY <1>4, <3>1 DEF Largest
        <5>2. T \subseteq Nat
          BY <1>4
        <5> QED
          BY <5>1, <5>2, MaxIs
      <4>2. T \ {m} \in D /\ m \notin T \ {m} /\ T # {}
        BY <3>1
      <4>3. g[T \ {m}] = f[T \ {m}]
        BY <4>2
      <4>4. g[T] = op(f[T \ {m}], s[m])
        BY <3>1
      <4> HIDE DEF g, D
      <4> QED
        BY <4>1, <4>2, <4>3, <4>4 DEF Step
    <3>2. CASE m \notin T
      <4>1. g[T] = f[T] /\ f[T] = Step(f, base, s, T)
        BY <2>1, <2>2, <3>2
      <4>2. CASE T = {}
        BY <4>1, <4>2 DEF Step
      <4>3. CASE T # {}
        <5>1. T \in SUBSET (1 .. k) /\ k \in Nat /\ T \subseteq Nat
          BY <2>2, <3>2
        <5>2. PICK x \in T : Largest(T, x)
          BY <4>3, <5>1, HasLargest
        <5>3. Max(T) = x
          BY <5>1, <5>2, MaxIs
        <5>4. T \ {x} \in D /\ m \notin T \ {x}
          BY <3>2
        <5>5. g[T \ {x}] = f[T \ {x}]
          BY <5>4
        <5> HIDE DEF g, D
        <5> QED
          BY <4>1, <4>3, <5>3, <5>5 DEF Step
      <4> QED
        BY <4>2, <4>3
    <3> QED
      BY <3>1, <3>2
  <2>5. g = [T \in D |-> g[T]]
    OBVIOUS
  <2> HIDE DEF g
  <2>6. g = [T \in D |-> Step(g, base, s, T)]
    BY <2>4, <2>5
  <2> QED
    BY <2>6
<1> HIDE DEF Has
<1>5. SUFFICES ASSUME Bad # {} PROVE FALSE
  <2>1. n \in 0 .. n
    OBVIOUS
  <2> QED
    BY <2>1
<1>6. Bad \subseteq Nat
  OBVIOUS
<1>7. PICK x \in Bad : \A y \in Bad : x <= y
  BY <1>5, <1>6, Least
<1>8. x \in 0 .. n /\ ~ Has(x) /\ x # 0
  BY <1>3, <1>7
<1>9. PICK y \in 0 .. n : x = y + 1 /\ ~ (x <= y)
  <2>1. x - 1 \in 0 .. n /\ x = (x - 1) + 1 /\ ~ (x <= x - 1)
    BY <1>8
  <2> QED
    BY <2>1
<1>10. Has(y)
  BY <1>7, <1>9
<1>11. Has(x)
  BY <1>4, <1>8, <1>9, <1>10
<1> QED
  BY <1>8, <1>11

-----------------------------------------------------------------------------
(* Its values at 1 .. k are the folds of the first k elements.             *)

Sums(c, base, s, n) ==
  /\ c[0] = base
  /\ \A k \in 1 .. n : c[k] = op(c[k - 1], s[k])

\* A fold is reached from the base an element at a time.
LEMMA FoldSteps ==
  ASSUME NEW S, NEW s \in Seq(S), NEW base
  PROVE  \E c : Sums(c, base, s, Len(s)) /\ FoldLeft(op, base, s) = c[Len(s)]
<1> DEFINE IsIter(f) ==
             f = [T \in SUBSET DOMAIN s |->
                    IF T = {} THEN base ELSE op(f[T \ {Max(T)}], s[Max(T)])]
           f == CHOOSE f : IsIter(f)
<1>1. PICK n \in Nat : n = Len(s)
  BY LenProperties
<1>2. DOMAIN s = 1 .. n
  BY <1>1, LenProperties
<1>3. PICK h : Iterates(h, base, s, n)
  <2>1. n \in Nat
    OBVIOUS
  <2> QED
    BY <2>1, IterExists
<1>4. IsIter(h)
  BY <1>2, <1>3 DEF Step, Iterates
<1>5. IsIter(f)
  BY <1>4
<1>6. FoldLeft(op, base, s) = f[DOMAIN s]
  BY DEF FoldLeft, MapThenFoldSet
<1> HIDE DEF f
<1>7. ASSUME NEW T \in SUBSET (1 .. n)
      PROVE  f[T] = IF T = {} THEN base ELSE op(f[T \ {Max(T)}], s[Max(T)])
  BY <1>2, <1>5
<1> HIDE DEF IsIter
<1> DEFINE c == [k \in 0 .. n |-> f[1 .. k]]
<1>8. ASSUME NEW k \in 1 .. n, NEW j \in 0 .. n, j = k - 1
      PROVE  f[1 .. k] = op(f[1 .. j], s[k])
  <2>1. 1 .. k \in SUBSET (1 .. n) /\ 1 .. k # {} /\ 1 .. k \subseteq Nat
    <3>1. k \in 1 .. k
      OBVIOUS
    <3>2. \A i \in 1 .. k : i \in 1 .. n /\ i \in Nat
      OBVIOUS
    <3> QED
      BY <3>1, <3>2
  <2>2. Max(1 .. k) = k
    <3>1. Largest(1 .. k, k)
      BY DEF Largest
    <3> QED
      BY <2>1, <3>1, MaxIs
  <2>3. (1 .. k) \ {k} = 1 .. j
    BY <1>8
  <2> QED
    BY <1>7, <2>1, <2>2, <2>3
<1>9. f[1 .. 0] = base
  <2>1. 1 .. 0 = {} /\ 1 .. 0 \in SUBSET (1 .. n)
    OBVIOUS
  <2> QED
    BY <1>7, <2>1
<1>12. Sums(c, base, s, n)
  <2>1. c[0] = base
    BY <1>9
  <2>2. ASSUME NEW k \in 1 .. n PROVE c[k] = op(c[k - 1], s[k])
    <3>1. k \in 0 .. n /\ k - 1 \in 0 .. n
      OBVIOUS
    <3>2. c[k] = f[1 .. k] /\ c[k - 1] = f[1 .. k - 1]
      BY <3>1
    <3> QED
      BY <1>8, <3>1, <3>2
  <2> HIDE DEF c
  <2> QED
    BY <2>1, <2>2 DEF Sums
<1>13. FoldLeft(op, base, s) = c[n]
  BY <1>2, <1>6
<1> HIDE DEF c
<1> QED
  BY <1>1, <1>12, <1>13

SameTo(s, t, n) == \A i \in 1 .. n : s[i] = t[i]

\* The partial folds are determined by the elements.
LEMMA SumsUnique ==
  ASSUME NEW n \in Nat, NEW s, NEW t, NEW c, NEW d,
         NEW base, Sums(c, base, s, n), Sums(d, base, t, n), SameTo(s, t, n)
  PROVE  c[n] = d[n]
<1> DEFINE Bad == {k \in 0 .. n : c[k] # d[k]}
<1>1. SUFFICES ASSUME Bad # {} PROVE FALSE
  <2>1. n \in 0 .. n
    OBVIOUS
  <2> QED
    BY <2>1
<1>2. Bad \subseteq Nat
  OBVIOUS
<1>3. PICK x \in Bad : \A y \in Bad : x <= y
  BY <1>1, <1>2, Least
<1>4. x \in 0 .. n /\ c[x] # d[x]
  BY <1>3
<1>5. x # 0
  BY <1>4 DEF Sums
<1>6. PICK y \in 0 .. n : y = x - 1 /\ ~ (x <= y)
  <2>1. x - 1 \in 0 .. n /\ ~ (x <= x - 1)
    BY <1>4, <1>5
  <2> QED
    BY <2>1
<1>7. c[y] = d[y]
  BY <1>3, <1>6
<1>8. /\ c[x] = op(c[x - 1], s[x])
      /\ d[x] = op(d[x - 1], t[x])
      /\ s[x] = t[x]
  <2>1. x \in 1 .. n
    BY <1>4, <1>5
  <2> QED
    BY <2>1 DEF Sums, SameTo
<1> QED
  BY <1>4, <1>6, <1>7, <1>8

Follows(m, n) == m = n + 1

\* The last step of a sum.
LEMMA SumsLast ==
  ASSUME NEW n \in Nat, NEW m \in Nat, Follows(m, n), NEW c, NEW s, NEW base, Sums(c, base, s, m)
  PROVE  Sums(c, base, s, n) /\ c[m] = op(c[n], s[m])
<1>1. \A i \in 1 .. n : i \in 1 .. m
  BY DEF Follows
<1>2. Sums(c, base, s, n)
  BY <1>1 DEF Sums
<1>3. m \in 1 .. m /\ m - 1 = n
  BY DEF Follows
<1>4. c[m] = op(c[m - 1], s[m])
  BY <1>3 DEF Sums
<1> QED
  BY <1>2, <1>3, <1>4

\* The fold of no elements.
THEOREM FoldEmpty == \A base : FoldLeft(op, base, <<>>) = base
<1> SUFFICES ASSUME NEW base PROVE FoldLeft(op, base, <<>>) = base
  OBVIOUS
<1>1. <<>> \in Seq(Nat) /\ Len(<<>>) = 0
  BY EmptySeq
<1>2. PICK c : Sums(c, base, <<>>, 0) /\ FoldLeft(op, base, <<>>) = c[0]
  BY <1>1, FoldSteps
<1> QED
  BY <1>2 DEF Sums

\* One more element is one more application of the operator.
THEOREM FoldAppend ==
  ASSUME NEW S, NEW s \in Seq(S), NEW b \in S, NEW base
  PROVE  FoldLeft(op, base, Append(s, b)) = op(FoldLeft(op, base, s), b)
<1>0. PICK n \in Nat : n = Len(s)
  BY LenProperties
<1>m. PICK m \in Nat : m = n + 1
  OBVIOUS
<1>t. PICK t : t = Append(s, b)
  OBVIOUS
<1>1. t \in Seq(S) /\ Len(t) = m /\ t[m] = b /\ SameTo(s, t, n)
  BY <1>0, <1>m, <1>t, AppendProperties DEF SameTo
<1>2. PICK c : Sums(c, base, s, n) /\ FoldLeft(op, base, s) = c[n]
  BY <1>0, FoldSteps
<1>3. PICK d : Sums(d, base, t, m) /\ FoldLeft(op, base, t) = d[m]
  BY <1>1, FoldSteps
<1>4. Follows(m, n)
  BY <1>m DEF Follows
<1>5. Sums(d, base, t, n) /\ d[m] = op(d[n], t[m])
  <2>1. n \in Nat /\ m \in Nat /\ Sums(d, base, t, m)
    BY <1>3
  <2> QED
    BY <1>4, <2>1, SumsLast
<1>6. c[n] = d[n]
  <2>1. n \in Nat /\ Sums(c, base, s, n) /\ SameTo(s, t, n)
    BY <1>1, <1>2
  <2> QED
    BY <1>5, <2>1, SumsUnique
<1>7. FoldLeft(op, base, t) = op(FoldLeft(op, base, s), b)
  BY <1>1, <1>2, <1>3, <1>5, <1>6
<1> QED
  BY <1>7, <1>t

\* What every application keeps, the fold has.
THEOREM FoldTyped ==
  ASSUME NEW S, NEW s \in Seq(S), NEW T, NEW base \in T,
         \A x \in T, y \in S : op(x, y) \in T
  PROVE  FoldLeft(op, base, s) \in T
<1>0. PICK n \in Nat : n = Len(s)
  BY LenProperties
<1>1. PICK c : Sums(c, base, s, n) /\ FoldLeft(op, base, s) = c[n]
  BY <1>0, FoldSteps
<1> DEFINE Bad == {i \in 0 .. n : c[i] \notin T}
<1>2. SUFFICES ASSUME Bad # {} PROVE FALSE
  <2>1. n \in 0 .. n
    OBVIOUS
  <2> QED
    BY <1>1, <2>1
<1>3. Bad \subseteq Nat
  OBVIOUS
<1>4. PICK x \in Bad : \A y \in Bad : x <= y
  BY <1>2, <1>3, Least
<1>5. x \in 0 .. n /\ c[x] \notin T
  BY <1>4
<1>6. x # 0
  BY <1>1, <1>5 DEF Sums
<1>7. PICK y \in 0 .. n : y = x - 1 /\ ~ (x <= y)
  <2>1. x - 1 \in 0 .. n /\ ~ (x <= x - 1)
    BY <1>5, <1>6
  <2> QED
    BY <2>1
<1>8. c[y] \in T
  BY <1>4, <1>7
<1>9. x \in 1 .. n /\ s[x] \in S
  BY <1>0, <1>5, <1>6, ElementOfSeq
<1>10. c[x] = op(c[y], s[x])
  BY <1>1, <1>7, <1>9 DEF Sums
<1> QED
  BY <1>5, <1>8, <1>9, <1>10

=============================================================================
