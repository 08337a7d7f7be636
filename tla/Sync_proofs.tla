----------------------------- MODULE Sync_proofs -----------------------------
(***************************************************************************)
(* The SYNC extension, for any number of clients, counters, alarms and     *)
(* fences, integers of any width and any limits: nobody sleeps on a        *)
(* condition that holds, active alarms pend, nothing is kept for a client  *)
(* that left, and advance_alarm moves an alarm as its definition says.     *)
(***************************************************************************)
EXTENDS Sync, TLAPS, FiniteSetTheorems, SequenceTheorems, WellFoundedInduction
-----------------------------------------------------------------------------
(* Induction, and functions defined step by step.                          *)

(* What is good at 0 and stays good at each step is good at n. *)
LEMMA StepByStep ==
  ASSUME NEW n \in Nat, NEW Good, 0 \in Good,
         \A i \in 0..(n - 1) : i \in Good => i + 1 \in Good
  PROVE  n \in Good
<1> SUFFICES ASSUME n \notin Good PROVE FALSE
  OBVIOUS
<1> DEFINE Bad == (0..n) \ Good
<1>1. Bad \subseteq Nat /\ Bad # {}
  OBVIOUS
<1>2. \E x \in Bad : \A y \in Bad : ~ (<<y, x>> \in OpToRel(<, Nat))
  BY <1>1, WFMin, NatLessThanWellFounded, Zenon
<1>3. PICK x \in Bad : \A y \in Bad : ~ (y < x)
  BY <1>1, <1>2, Zenon DEF OpToRel
<1>4. x > 0 /\ x - 1 \in 0..(n - 1)
  OBVIOUS
<1>5. x - 1 \notin Bad
  BY <1>3
<1> QED
  BY <1>4, <1>5

(* Steps that lead from one set of states to the next define a function,   *)
(* whose values are in these sets.                                         *)
Leads(n, R, St, base, G) ==
  /\ n \in Nat /\ base \in St[0]
  /\ \A i \in 0..n : St[i] \subseteq R
  /\ \A i \in 1..n : \A v \in St[i - 1] : G[i][v] \in St[i]

Follows(f, n, R, St, base, G) ==
  /\ f \in [0..n -> R] /\ f[0] = base
  /\ \A i \in 1..n : f[i] = G[i][f[i - 1]]
  /\ \A i \in 0..n : f[i] \in St[i]

LEMMA Iteration ==
  ASSUME NEW n, NEW R, NEW St, NEW base, NEW G, Leads(n, R, St, base, G)
  PROVE  \E f : Follows(f, n, R, St, base, G)
<1> USE DEF Leads
<1> DEFINE Begins(f, k) == /\ f = [i \in 0..k |-> IF i = 0 THEN base ELSE G[i][f[i - 1]]]
                           /\ \A i \in 0..k : f[i] \in St[i]
           Good == {k \in 0..n : \E f : Begins(f, k)}
<1>1. 0 \in Good
  <2> DEFINE f == [i \in 0..0 |-> base]
  <2>1. f = [i \in 0..0 |-> IF i = 0 THEN base ELSE G[i][f[i - 1]]]
    OBVIOUS
  <2>2. \A i \in 0..0 : f[i] \in St[i]
    OBVIOUS
  <2> HIDE DEF f
  <2>3. Begins(f, 0)
    BY <2>1, <2>2
  <2> QED
    BY <2>3
<1>2. ASSUME NEW k \in 0..(n - 1), k \in Good PROVE k + 1 \in Good
  <2>1. PICK f : Begins(f, k)
    BY <1>2
  <2>2. DOMAIN f = 0..k /\ \A i \in 0..k : f[i] = IF i = 0 THEN base ELSE G[i][f[i - 1]]
    BY <2>1
  <2>3. \A i \in 0..k : f[i] \in St[i]
    BY <2>1
  <2> HIDE DEF Begins, Good
  <2>4. PICK g : g = [i \in 0..(k + 1) |-> IF i = k + 1 THEN G[k + 1][f[k]] ELSE f[i]]
    OBVIOUS
  <2>5. /\ k \in 0..k /\ k + 1 \in 1..n /\ k + 1 \in 0..n /\ k + 1 # 0 /\ (k + 1) - 1 = k
        /\ \A i \in 0..(k + 1) : i # k + 1 => i \in 0..k /\ (i # 0 => i - 1 \in 0..k)
        /\ \A i \in 0..k : i \in 0..(k + 1) /\ i # k + 1
    OBVIOUS
  <2>6. \A i \in 0..k : g[i] = f[i]
    BY <2>4, <2>5
  <2>7. g[k + 1] = G[k + 1][f[k]] /\ g = [i \in 0..(k + 1) |-> g[i]]
    BY <2>4
  <2>8. g[k + 1] \in St[k + 1]
    <3>1. f[k] \in St[(k + 1) - 1]
      BY <2>3, <2>5
    <3> QED
      BY <3>1, <2>5, <2>7
  <2>9. ASSUME NEW i \in 0..(k + 1)
        PROVE  g[i] = (IF i = 0 THEN base ELSE G[i][g[i - 1]]) /\ g[i] \in St[i]
    <3>1. CASE i = k + 1
      <4>1. g[i - 1] = f[k] /\ i # 0
        BY <3>1, <2>5, <2>6
      <4> QED
        BY <3>1, <4>1, <2>7, <2>8
    <3>2. CASE i # k + 1
      <4>1. i \in 0..k /\ g[i] = f[i] /\ (i # 0 => g[i - 1] = f[i - 1])
        BY <3>2, <2>5, <2>6
      <4> QED
        BY <4>1, <2>2, <2>3
    <3> QED
      BY <3>1, <3>2
  <2>10. Begins(g, k + 1)
    <3>1. g = [i \in 0..(k + 1) |-> IF i = 0 THEN base ELSE G[i][g[i - 1]]]
      BY <2>7, <2>9
    <3> QED
      BY <2>9, <3>1 DEF Begins
  <2> QED
    BY <2>5, <2>10 DEF Good
<1> HIDE DEF Begins
<1>3. n \in Good
  BY <1>1, <1>2, StepByStep
<1>4. PICK f : Begins(f, n)
  BY <1>3
<1>5. /\ f = [i \in 0..n |-> IF i = 0 THEN base ELSE G[i][f[i - 1]]]
      /\ \A i \in 0..n : f[i] \in St[i]
  BY <1>4 DEF Begins
<1>6. f[0] = base /\ \A i \in 1..n : f[i] = G[i][f[i - 1]]
  BY <1>5
<1>7. f \in [0..n -> R]
  BY <1>5
<1> QED
  BY <1>5, <1>6, <1>7 DEF Follows

(* Such a function is in the sets whichever it is. *)
LEMMA IterationStays ==
  ASSUME NEW n \in Nat, NEW St, NEW f, f[0] \in St[0],
         \A i \in 1..n : f[i - 1] \in St[i - 1] => f[i] \in St[i]
  PROVE  \A i \in 0..n : f[i] \in St[i]
<1> SUFFICES ASSUME NEW k \in 0..n PROVE f[k] \in St[k]
  OBVIOUS
<1> DEFINE Good == {i \in 0..n : f[i] \in St[i]}
<1>1. 0 \in Good
  OBVIOUS
<1>2. ASSUME NEW i \in 0..(k - 1), i \in Good PROVE i + 1 \in Good
  <2>1. i + 1 \in 1..n /\ (i + 1) - 1 = i
    OBVIOUS
  <2> QED
    BY <1>2, <2>1
<1> HIDE DEF Good
<1>3. k \in Good
  BY <1>1, <1>2, StepByStep
<1> QED
  BY <1>3 DEF Good
-----------------------------------------------------------------------------
(* Sequences.                                                              *)

LEMMA PickedIsPart ==
  ASSUME NEW S, NEW seq \in Seq(S), NEW wanted
  PROVE  Picked(seq, wanted) \in Seq(S) /\ Len(Picked(seq, wanted)) <= Len(seq)
<1> DEFINE n == Len(seq)
           R == Seq(S)
           empty == <<>>
           St == [i \in 0..n |-> {v \in Seq(S) : Len(v) <= i}]
           G == [i \in 1..n |-> [v \in Seq(S) |-> IF i \in wanted THEN Append(v, seq[i]) ELSE v]]
           Part(f) == [i \in 0..n |-> IF i = 0 THEN <<>>
                        ELSE IF i \in wanted THEN Append(f[i - 1], seq[i]) ELSE f[i - 1]]
<1>1. n \in Nat /\ \A i \in 1..n : seq[i] \in S
  BY LenProperties, ElementOfSeq
<1>2. empty \in St[0]
  BY <1>1
<1>3. ASSUME NEW i \in 1..n, NEW v \in St[i - 1]
      PROVE  (IF i \in wanted THEN Append(v, seq[i]) ELSE v) \in St[i]
  <2>1. v \in Seq(S) /\ Len(v) <= i - 1 /\ Len(v) \in Nat
    BY <1>1, LenProperties
  <2>2. Append(v, seq[i]) \in Seq(S) /\ Len(Append(v, seq[i])) = Len(v) + 1
    BY <1>1, <2>1, AppendProperties
  <2> QED
    BY <1>1, <2>1, <2>2
<1>4. \A i \in 1..n : \A v \in St[i - 1] : G[i][v] \in St[i]
  BY <1>1, <1>3
<1>a. \A i \in 1..n : \A v \in Seq(S) :
        G[i][v] = IF i \in wanted THEN Append(v, seq[i]) ELSE v
  OBVIOUS
<1>b. \A i \in 0..n : St[i] \subseteq R
  OBVIOUS
<1> HIDE DEF n, St, G, R, empty
<1>c. Leads(n, R, St, empty, G)
  BY <1>1, <1>2, <1>4, <1>b DEF Leads
<1>d. PICK f : Follows(f, n, R, St, empty, G)
  BY <1>c, Iteration
<1>5. /\ f \in [0..n -> R] /\ f[0] = empty
      /\ \A i \in 1..n : f[i] = G[i][f[i - 1]]
  BY <1>d DEF Follows
<1>6. \A i \in 1..n : f[i - 1] \in Seq(S)
  BY <1>1, <1>5 DEF R
<1>7. f = Part(f)
  <2>1. \A i \in 1..n : G[i][f[i - 1]] = IF i \in wanted THEN Append(f[i - 1], seq[i]) ELSE f[i - 1]
    BY <1>6, <1>a
  <2>2. \A i \in (0..n) \ {0} : i \in 1..n
    BY <1>1, SMTT(40)
  <2> QED
    BY <1>5, <2>1, <2>2 DEF empty
<1> DEFINE part == CHOOSE g : g = Part(g)
<1>8. part = Part(part)
  BY <1>7
<1>9. Picked(seq, wanted) = part[n]
  BY DEF Picked, n
<1> HIDE DEF part
<1>10. part[0] = <<>> /\ \A i \in 1..n : part[i] = IF i \in wanted THEN Append(part[i - 1], seq[i]) ELSE part[i - 1]
  <2>1. 0 \in 0..n /\ \A i \in 1..n : i \in 0..n /\ i # 0
    BY <1>1
  <2> QED
    BY <1>8, <2>1
<1>11. \A i \in 0..n : part[i] \in St[i]
  <2>1. \A i \in 1..n : part[i - 1] \in St[i - 1] => part[i] \in St[i]
    BY <1>3, <1>10
  <2> QED
    BY <1>1, <1>2, <1>10, <2>1, IterationStays DEF empty
<1>12. part[n] \in St[n]
  BY <1>1, <1>11
<1> QED
  BY <1>1, <1>9, <1>12 DEF St, n

LEMMA SetToSeqLists ==
  ASSUME NEW S, IsFiniteSet(S)
  PROVE  /\ SetToSeq(S) \in Seq(S) /\ DOMAIN SetToSeq(S) = 1..Cardinality(S)
         /\ S = {} => SetToSeq(S) = <<>>
<1>1. Cardinality(S) \in Nat /\ ExistsBijection(1..Cardinality(S), S)
  BY FS_CardinalityType
<1>2. \E f \in [1..Cardinality(S) -> S] : IsInjective(f)
  BY <1>1 DEF ExistsBijection, Bijection, Injection
<1>3. SetToSeq(S) \in [1..Cardinality(S) -> S]
  BY <1>2 DEF SetToSeq
<1>4. SetToSeq(S) \in Seq(S)
  BY <1>1, <1>3
<1>5. S = {} => Cardinality(S) = 0
  BY FS_EmptySet
<1>6. S = {} => Len(SetToSeq(S)) = 0
  BY <1>1, <1>3, <1>4, <1>5
<1> QED
  BY <1>3, <1>4, <1>6, EmptySeq

-----------------------------------------------------------------------------
(* Arithmetic.                                                             *)

LEMMA Widths ==
  /\ Modulus \in Nat \ {0} /\ MaxInt \in Nat \ {0} /\ MinInt \in Int
  /\ Modulus = 2 * MaxInt + 2 /\ MinInt = 0 - (MaxInt + 1)
  /\ Value = MinInt..MaxInt
<1>1. PICK h \in Nat \ {0, 1} : h = 2^(Width - 1)
  BY ValueAssumption
<1>2. Modulus = 2 * h /\ MaxInt = h - 1 /\ MinInt = -h
  BY <1>1, ValueAssumption DEF Modulus, MaxInt, MinInt
<1> QED
  BY <1>1, <1>2 DEF Value

LEMMA DivMod ==
  ASSUME NEW x \in Int, NEW m \in Nat \ {0}
  PROVE  /\ x \div m \in Int /\ x % m \in 0..(m - 1)
         /\ x = (x \div m) * m + (x % m)
  OBVIOUS

(* The remainder is the only number in the range. *)
LEMMA Remainder ==
  ASSUME NEW m \in Nat \ {0}, NEW k \in Int, NEW r \in 0..(m - 1), NEW x \in Int,
         x = k * m + r
  PROVE  x % m = r
<1> DEFINE q == x \div m
           s == x % m
<1>1. q \in Int /\ s \in 0..(m - 1) /\ x = q * m + s
  BY DivMod
<1> HIDE DEF q, s
<1>2. (q - k) * m = r - s
  BY <1>1
<1>3. ~ (q - k >= 1)
  <2> SUFFICES ASSUME q - k >= 1 PROVE FALSE
    OBVIOUS
  <2>1. (q - k) * m >= 1 * m
    BY <1>1
  <2> QED
    BY <1>1, <1>2, <2>1
<1>4. ~ (q - k <= 0 - 1)
  <2> SUFFICES ASSUME q - k <= 0 - 1 PROVE FALSE
    OBVIOUS
  <2>1. (k - q) * m >= 1 * m
    BY <1>1
  <2>2. (k - q) * m = s - r
    BY <1>1
  <2> QED
    BY <1>1, <2>1, <2>2
<1>5. q = k
  BY <1>1, <1>3, <1>4
<1> QED
  BY <1>1, <1>5 DEF s

(* The bits of a value, and of a number up to one range beyond. *)
LEMMA BitsOf ==
  ASSUME NEW x \in Int, NEW k \in {0 - 1, 0, 1}, x - k * Modulus \in 0..(Modulus - 1)
  PROVE  Bits(x) = x - k * Modulus
<1>1. Modulus \in Nat \ {0}
  BY Widths
<1> DEFINE r == x - k * Modulus
<1>2. r \in 0..(Modulus - 1) /\ x = k * Modulus + r
  BY <1>1
<1> HIDE DEF r
<1>3. x % Modulus = r
  BY <1>1, <1>2, Remainder
<1> QED
  BY <1>3 DEF Bits, r

LEMMA BitsOfValue ==
  ASSUME NEW x \in Value
  PROVE  /\ Bits(x) = IF x >= 0 THEN x ELSE x + Modulus
         /\ signed_from_bits(Bits(x)) = x
<1>1. x \in Int /\ x <= MaxInt /\ 0 - x <= MaxInt + 1
  BY Widths
<1>2. Bits(x) = IF x >= 0 THEN x ELSE x + Modulus
  <2>1. CASE x >= 0
    <3>1. x - 0 * Modulus = x /\ x \in 0..(Modulus - 1)
      BY <1>1, <2>1, Widths
    <3> QED
      BY <1>1, <2>1, <3>1, BitsOf
  <2>2. CASE ~ (x >= 0)
    <3>1. x - (0 - 1) * Modulus = x + Modulus /\ x + Modulus \in 0..(Modulus - 1)
      BY <1>1, <2>2, Widths
    <3> QED
      BY <1>1, <2>2, <3>1, BitsOf
  <2> QED
    BY <2>1, <2>2
<1>3. signed_from_bits(Bits(x)) = x
  BY <1>1, <1>2, Widths DEF signed_from_bits
<1> QED
  BY <1>2, <1>3

LEMMA DistanceIs ==
  ASSUME NEW x \in Value, NEW y \in Value, x >= y
  PROVE  nonnegative_distance(x, y) = x - y
<1>1. x \in Int /\ y \in Int /\ x <= MaxInt /\ 0 - y <= MaxInt + 1
  BY Widths
<1>2. PICK k \in {0 - 1, 0, 1} : Bits(x) - Bits(y) = (x - y) + k * Modulus
  <2>1. Bits(x) - Bits(y) \in {x - y, (x - y) + Modulus, (x - y) - Modulus}
    BY <1>1, BitsOfValue, Widths
  <2>2. (x - y) + 0 * Modulus = x - y /\ (x - y) + 1 * Modulus = (x - y) + Modulus
        /\ (x - y) + (0 - 1) * Modulus = (x - y) - Modulus
    BY <1>1, Widths
  <2> QED
    BY <2>1, <2>2
<1> DEFINE d == Bits(x) - Bits(y)
<1>3. d \in Int /\ d - k * Modulus = x - y /\ x - y \in 0..(Modulus - 1)
  <2>1. Modulus \in Int
    BY Widths
  <2>2. d = (x - y) + k * Modulus
    BY <1>2
  <2> HIDE DEF d
  <2>3. x - y \in 0..(Modulus - 1)
    BY <1>1, Widths
  <2> QED
    BY <1>1, <2>1, <2>2, <2>3
<1> HIDE DEF d
<1>4. Bits(d) = x - y
  BY <1>3, BitsOf
<1> QED
  BY <1>4 DEF nonnegative_distance, Bits, d

-----------------------------------------------------------------------------
(* advance_alarm.                                                          *)

Signed(a) == IF Positive(a.type) THEN a.delta >= 0 ELSE a.delta <= 0

(* How far the counter is past the test value, the size of a step, and how *)
(* many of them it takes.                                                  *)
Distance(a, value) == IF Positive(a.type) THEN value - a.test ELSE a.test - value
Size(a) == IF Positive(a.type) THEN a.delta ELSE 0 - a.delta
Steps(a, value) == (Distance(a, value) \div Size(a)) + 1

LEMMA AlarmParts ==
  ASSUME NEW a \in AlarmRecord
  PROVE  /\ a.counter \in Counter \cup {None} /\ a.test \in Value /\ a.delta \in Value
         /\ a.wait \in Value /\ a.relative \in BOOLEAN /\ a.type \in TestType
         /\ a.clients \subseteq Client /\ a.state \in {"active", "inactive"}
         /\ a.test \in Int /\ a.delta \in Int
         /\ a.test <= MaxInt /\ a.test >= MinInt /\ a.delta <= MaxInt /\ a.delta >= MinInt
  BY Widths DEF AlarmRecord

LEMMA StepsPass ==
  ASSUME NEW a \in AlarmRecord, NEW value \in Value, Signed(a), a.delta # 0, Reached(a, value)
  PROVE  /\ Distance(a, value) \in 0..(Modulus - 1) /\ Size(a) \in 1..(MaxInt + 1)
         /\ Steps(a, value) \in 1..Modulus
         /\ Distance(a, value) \div Size(a) \in Nat
         /\ Steps(a, value) * Size(a) > Distance(a, value)
         /\ \A j \in 1..(Steps(a, value) - 1) : j * Size(a) <= Distance(a, value)
<1> DEFINE d == Distance(a, value)
           m == Size(a)
           q == d \div m
<1>1. d \in 0..(Modulus - 1)
  BY AlarmParts, Widths, SMTT(40) DEF Distance, Reached
<1>2. m \in 1..(MaxInt + 1)
  BY AlarmParts, Widths DEF Size, Signed
<1> HIDE DEF d, m
<1>3. m \in Nat \ {0} /\ d \in Int
  BY <1>1, <1>2, Widths
<1>4. q \in Int /\ d % m \in 0..(m - 1) /\ d = q * m + (d % m)
  BY <1>3, DivMod
<1> HIDE DEF q
<1>5. ~ (q <= 0 - 1)
  <2> SUFFICES ASSUME q <= 0 - 1 PROVE FALSE
    OBVIOUS
  <2>1. (0 - q) * m >= 1 * m
    BY <1>3, <1>4
  <2>2. (0 - q) * m = (d % m) - d
    BY <1>3, <1>4
  <2> QED
    BY <1>1, <1>2, <1>4, <2>1, <2>2
<1>6. q \in Nat /\ q * m <= d /\ q * m >= q
  <2>1. q \in Nat
    BY <1>4, <1>5
  <2>2. q * m >= q * 1
    BY <1>3, <2>1
  <2> QED
    BY <1>3, <1>4, <2>1, <2>2
<1>7. (q + 1) * m > d
  <2>1. (q + 1) * m = q * m + m
    BY <1>3, <1>6
  <2> QED
    BY <1>3, <1>4, <1>6, <2>1
<1>8. \A j \in 1..q : j * m <= d
  <2> TAKE j \in 1..q
  <2>1. j * m <= q * m
    BY <1>3, <1>6
  <2> QED
    BY <1>3, <1>6, <2>1
<1>9. q + 1 \in 1..Modulus
  <2>1. q <= d /\ Modulus \in Nat
    BY <1>1, <1>3, <1>6, Widths
  <2> QED
    BY <1>1, <1>6, <2>1
<1>10. Steps(a, value) = q + 1 /\ (q + 1) - 1 = q
  BY <1>6 DEF Steps, q, d, m
<1>11. Distance(a, value) = d /\ Size(a) = m /\ Distance(a, value) \div Size(a) = q
  BY DEF d, m, q
<1> HIDE DEF d, m
<1> QED
  BY <1>1, <1>2, <1>6, <1>7, <1>8, <1>9, <1>10, <1>11

(* The value the alarm moves to, and whether it is one. *)
LEMMA Target ==
  ASSUME NEW a \in AlarmRecord, NEW value \in Value, Signed(a), a.delta # 0, Reached(a, value),
         NEW k \in Nat
  PROVE  /\ a.test + k * a.delta = IF Positive(a.type) THEN a.test + k * Size(a)
                                   ELSE a.test - (k * Size(a))
         /\ k * Size(a) \in Nat
<1>1. Size(a) \in Nat /\ a.test \in Int /\ a.delta \in Int
  BY AlarmParts, StepsPass
<1>2. k * Size(a) \in Nat
  BY <1>1
<1>3. CASE Positive(a.type)
  BY <1>2, <1>3 DEF Size
<1>4. CASE ~ Positive(a.type)
  <2>1. k * Size(a) = 0 - (k * a.delta)
    BY <1>1, <1>4 DEF Size
  <2> QED
    BY <1>1, <1>2, <1>4, <2>1
<1> QED
  BY <1>3, <1>4

LEMMA MovementIs ==
  ASSUME NEW a \in AlarmRecord, NEW value \in Value, Signed(a), a.delta # 0, Reached(a, value)
  PROVE  Movement(a, value) = IF a.test + (Steps(a, value) * a.delta) \in Value
                              THEN Steps(a, value) * Size(a) ELSE None
<1> DEFINE d == Distance(a, value)
           m == Size(a)
           q == d \div m
           free == IF Positive(a.type) THEN MaxInt - a.test ELSE a.test - MinInt
<1>1. /\ d \in 0..(Modulus - 1) /\ m \in 1..(MaxInt + 1) /\ q \in Nat
      /\ Steps(a, value) = q + 1 /\ (q + 1) * m > d
      /\ m \in Nat \ {0} /\ MaxInt \in Value /\ MinInt \in Value
  BY StepsPass, Widths, SMTT(40) DEF Steps
<1>2. (IF Positive(a.type) THEN Bits(a.delta) ELSE Bits(0 - a.delta)) = m
  <2>1. CASE Positive(a.type)
    BY <2>1, AlarmParts, BitsOfValue DEF Size, Signed
  <2>2. CASE ~ Positive(a.type)
    <3>1. m = 0 - a.delta /\ m \in Int /\ m - 0 * Modulus \in 0..(Modulus - 1) /\ m - 0 * Modulus = m
      BY <1>1, <2>2, Widths DEF Size
    <3>2. Bits(m) = m
      BY <3>1, BitsOf
    <3> QED
      BY <2>2, <3>1, <3>2
  <2> QED
    BY <2>1, <2>2
<1>3. (IF Positive(a.type) THEN nonnegative_distance(value, a.test)
       ELSE nonnegative_distance(a.test, value)) = d
  BY AlarmParts, DistanceIs DEF Distance, Reached
<1>4. (IF Positive(a.type) THEN nonnegative_distance(MaxInt, a.test)
       ELSE nonnegative_distance(a.test, MinInt)) = free
  BY <1>1, AlarmParts, DistanceIs
<1>5. free \in 0..(Modulus - 1)
  BY AlarmParts, Widths, SMTT(40)
<1> HIDE DEF d, m, q, free
<1>6. Movement(a, value) =
        IF \/ m = 0 \/ q = Modulus - 1 \/ q + 1 > (Modulus - 1) \div m
           \/ (q + 1) * m > free
        THEN None ELSE (q + 1) * m
  BY <1>2, <1>3, <1>4 DEF Movement, q
<1>7. a.test + (q + 1) * a.delta \in Value <=> (q + 1) * m <= free
  <2>1. /\ a.test + (q + 1) * a.delta = IF Positive(a.type) THEN a.test + (q + 1) * m
                                        ELSE a.test - ((q + 1) * m)
        /\ (q + 1) * m \in Nat
    BY <1>1, Target DEF m
  <2> DEFINE p == (q + 1) * m
  <2>2. p \in Nat /\ a.test + (q + 1) * a.delta = IF Positive(a.type) THEN a.test + p ELSE a.test - p
    BY <2>1
  <2> HIDE DEF p
  <2>3. p <= free <=> a.test + (q + 1) * a.delta \in Value
    BY <2>2, AlarmParts, Widths DEF free
  <2> QED
    BY <2>3 DEF p
<1>8. q = Modulus - 1 => (q + 1) * m > free
  <2> SUFFICES ASSUME q = Modulus - 1 PROVE (q + 1) * m > free
    OBVIOUS
  <2>1. (q + 1) * m >= (q + 1) * 1
    BY <1>1
  <2> QED
    BY <1>1, <1>5, <2>1, Widths
<1>9. q + 1 > (Modulus - 1) \div m => (q + 1) * m > free
  <2> DEFINE x == Modulus - 1
             e == x \div m
             r == x % m
  <2>0. x \in Int
    BY Widths
  <2> HIDE DEF x
  <2>1. e \in Int /\ r \in 0..(m - 1) /\ x = e * m + r
    BY <1>1, <2>0, DivMod
  <2> HIDE DEF e, r
  <2> SUFFICES ASSUME q + 1 > e PROVE (q + 1) * m > free
    BY DEF e, x
  <2>2. (q + 1) * m >= (e + 1) * m
    BY <1>1, <2>1
  <2>3. (e + 1) * m = e * m + m
    BY <1>1, <2>1
  <2> QED
    BY <1>1, <1>5, <2>0, <2>1, <2>2, <2>3 DEF x
<1>10. CASE (q + 1) * m <= free
  BY <1>1, <1>5, <1>6, <1>7, <1>8, <1>9, <1>10 DEF m
<1>11. CASE ~ ((q + 1) * m <= free)
  <2>1. (q + 1) * m \in Nat
    BY <1>1
  <2>2. (q + 1) * m > free
    BY <1>5, <1>11, <2>1
  <2> QED
    BY <1>1, <1>6, <1>7, <1>11, <2>2
<1> QED
  BY <1>10, <1>11

LEMMA BitsPlus ==
  ASSUME NEW t \in Value, NEW p \in Int, t + p \in Value
  PROVE  Bits(Bits(t) + p) = Bits(t + p)
<1> DEFINE x == t + p
           y == Bits(t) + p
<1>1. t \in Int /\ x \in Value /\ x \in Int /\ x <= MaxInt /\ 0 - x <= MaxInt + 1 /\ Modulus \in Int
  BY Widths
<1>2. Bits(t) = IF t >= 0 THEN t ELSE t + Modulus
  BY BitsOfValue
<1>3. Bits(x) = IF x >= 0 THEN x ELSE x + Modulus
  BY <1>1, BitsOfValue
<1>4. y = (IF t >= 0 THEN x ELSE x + Modulus) /\ y \in Int
  BY <1>1, <1>2
<1> HIDE DEF x, y
<1>5. PICK k \in {0 - 1, 0, 1} : y - k * Modulus = Bits(x)
  <2>1. y - 0 * Modulus = y /\ y - 1 * Modulus = y - Modulus /\ y - (0 - 1) * Modulus = y + Modulus
    BY <1>1, <1>4
  <2>2. Bits(x) \in {y, y - Modulus, y + Modulus}
    BY <1>1, <1>3, <1>4
  <2> QED
    BY <2>1, <2>2
<1>6. Bits(x) \in 0..(Modulus - 1)
  BY <1>1, <1>3, Widths
<1>7. Bits(y) = Bits(x)
  BY <1>4, <1>5, <1>6, BitsOf
<1> QED
  BY <1>7 DEF x, y

(* What advance_alarm does to an active comparison alarm that fires. *)
LEMMA AdvanceIs ==
  ASSUME NEW a \in AlarmRecord, NEW value \in Value, Signed(a), a.delta # 0, Reached(a, value),
         a.state = "active", Comparison(a.type)
  PROVE  advance_alarm(a, value) =
           IF a.test + (Steps(a, value) * a.delta) \in Value
           THEN [a EXCEPT !.test = a.test + (Steps(a, value) * a.delta)] ELSE Inactive(a)
<1> DEFINE p == Steps(a, value) * Size(a)
           t == a.test + (Steps(a, value) * a.delta)
<1>1. Steps(a, value) \in Nat /\ a.test \in Value /\ a.test \in Int
  BY StepsPass, AlarmParts, Widths
<1>2. p \in Nat /\ t = IF Positive(a.type) THEN a.test + p ELSE a.test - p
  BY <1>1, Target
<1>3. Movement(a, value) = IF t \in Value THEN p ELSE None
  BY MovementIs
<1> HIDE DEF p, t
<1>4. p # None /\ None \notin Value
  <2>1. p \in Int /\ \A v \in Value : v \in Int
    BY <1>2, Widths
  <2> QED
    BY <2>1, ValueAssumption
<1>5. CASE t \notin Value
  BY <1>3, <1>5 DEF advance_alarm, t
<1>6. CASE t \in Value
  <2> DEFINE moved == IF Positive(a.type) THEN Bits(a.test) + p ELSE Bits(a.test) - p
  <2>1. Bits(moved) = Bits(t)
    <3>1. CASE Positive(a.type)
      BY <1>1, <1>2, <1>6, <3>1, BitsPlus
    <3>2. CASE ~ Positive(a.type)
      <4>1. 0 - p \in Int /\ a.test + (0 - p) = t
        BY <1>1, <1>2, <3>2
      <4>2. Bits(Bits(a.test) + (0 - p)) = Bits(t)
        BY <1>1, <1>6, <4>1, BitsPlus
      <4>3. Bits(a.test) \in Int
        BY <1>1, BitsOfValue, Widths
      <4>4. Bits(a.test) + (0 - p) = Bits(a.test) - p
        BY <1>2, <4>3
      <4> QED
        BY <3>2, <4>2, <4>4
    <3> QED
      BY <3>1, <3>2
  <2>2. signed_from_bits(Bits(moved)) = t
    BY <1>6, <2>1, BitsOfValue
  <2> HIDE DEF moved
  <2>3. advance_alarm(a, value) = Moved(a, signed_from_bits(Bits(moved)))
    BY <1>3, <1>4, <1>6 DEF advance_alarm, moved
  <2> QED
    BY <1>4, <1>6, <2>2, <2>3 DEF Moved, t
<1> QED
  BY <1>5, <1>6

LEMMA AdvanceKeeps ==
  ASSUME NEW a \in AlarmRecord, NEW value \in Value, Signed(a),
         Comparison(a.type) => Reached(a, value)
  PROVE  LET b == advance_alarm(a, value)
         IN /\ b \in AlarmRecord /\ b.counter = a.counter /\ b.clients = a.clients /\ Signed(b)
            /\ b.state = "active" => a.state = "active"
            /\ b.state = "active" /\ Comparison(b.type) => ~ Reached(b, value)
<1> DEFINE b == advance_alarm(a, value)
           t == a.test + (Steps(a, value) * a.delta)
<1>1. \A x \in Value : [a EXCEPT !.test = x] \in AlarmRecord
  BY DEF AlarmRecord
<1>2. Inactive(a) \in AlarmRecord
  BY DEF AlarmRecord, Inactive
<1>3. \/ b = a /\ ~ (a.state = "active" /\ Comparison(a.type))
      \/ b = Inactive(a)
      \/ ~ Comparison(a.type) /\ a.state = "active" /\ \E x \in Value : b = [a EXCEPT !.test = x]
      \/ Comparison(a.type) /\ a.state = "active" /\ a.delta # 0
  <2>1. checked_add(a.test, a.delta) \in Value \cup {None}
    BY DEF checked_add
  <2> QED
    BY <2>1 DEF advance_alarm, Moved
<1>4. CASE Comparison(a.type) /\ a.state = "active" /\ a.delta # 0
  <2>1. b = IF t \in Value THEN [a EXCEPT !.test = t] ELSE Inactive(a)
    BY <1>4, AdvanceIs
  <2>2. CASE t \in Value
    <3>1. b = [a EXCEPT !.test = t] /\ b \in AlarmRecord
      BY <1>1, <2>1, <2>2
    <3>2. /\ b.test = t /\ b.type = a.type /\ b.counter = a.counter /\ b.clients = a.clients
          /\ b.delta = a.delta
      BY <3>1 DEF AlarmRecord
    <3>3. ~ Reached(b, value)
      <4> DEFINE p == Steps(a, value) * Size(a)
      <4>1. Steps(a, value) \in Nat /\ p > Distance(a, value)
        BY <1>4, StepsPass, Widths
      <4>2. p \in Nat /\ t = IF Positive(a.type) THEN a.test + p ELSE a.test - p
        BY <1>4, <4>1, Target
      <4>3. a.test \in Int /\ value \in Int
        BY AlarmParts, Widths
      <4> HIDE DEF p, t
      <4> QED
        BY <3>2, <4>1, <4>2, <4>3 DEF Reached, Distance
    <3> QED
      BY <1>4, <3>1, <3>2, <3>3 DEF Signed
  <2>3. CASE t \notin Value
    BY <1>2, <2>1, <2>3 DEF AlarmRecord, Inactive, Signed
  <2> QED
    BY <2>2, <2>3

<1>5. CASE b = a /\ ~ (a.state = "active" /\ Comparison(a.type))
  BY <1>5
<1>6. CASE b = Inactive(a)
  <2>1. /\ b.state = "inactive" /\ b.type = a.type /\ b.counter = a.counter /\ b.clients = a.clients
        /\ b.delta = a.delta
    BY <1>6 DEF AlarmRecord, Inactive
  <2> QED
    BY <1>2, <1>6, <2>1 DEF Signed
<1>7. CASE /\ ~ Comparison(a.type) /\ a.state = "active"
           /\ \E x \in Value : b = [a EXCEPT !.test = x]
  <2>1. PICK x \in Value : b = [a EXCEPT !.test = x]
    BY <1>7
  <2>2. /\ b.type = a.type /\ b.counter = a.counter /\ b.clients = a.clients /\ b.delta = a.delta
    BY <2>1 DEF AlarmRecord
  <2> QED
    BY <1>1, <1>7, <2>1, <2>2 DEF Signed
<1> QED
  BY <1>3, <1>4, <1>5, <1>6, <1>7

(* The first value beyond, as FirstBeyond finds it. *)
LEMMA FirstBeyondIs ==
  ASSUME NEW a \in AlarmRecord, NEW value \in Value, Signed(a), a.delta # 0, Reached(a, value)
  PROVE  FirstBeyond(a, value) = a.test + (Steps(a, value) * a.delta)
<1> DEFINE Beyond(n) == IF Positive(a.type) THEN value < a.test + n * a.delta
                        ELSE value > a.test + n * a.delta
           k == Steps(a, value)
           first == CHOOSE n \in 1..Modulus : Beyond(n) /\ \A m \in 1..(n - 1) : ~Beyond(m)
<1>1. \A n \in 1..Modulus : Beyond(n) <=> n * Size(a) > Distance(a, value)
  <2> TAKE n \in 1..Modulus
  <2> DEFINE p == n * Size(a)
             t == a.test + n * a.delta
  <2>1. n \in Nat
    BY Widths
  <2>2. p \in Nat /\ t = IF Positive(a.type) THEN a.test + p ELSE a.test - p
    BY <2>1, Target
  <2>3. a.test \in Int /\ value \in Int
    BY AlarmParts, Widths
  <2> HIDE DEF p, t
  <2>4. (IF Positive(a.type) THEN value < t ELSE value > t) <=> p > Distance(a, value)
    BY <2>2, <2>3 DEF Distance
  <2> QED
    BY <2>4 DEF p, t
<1> HIDE DEF Beyond
<1>2. /\ k \in 1..Modulus /\ k * Size(a) > Distance(a, value)
      /\ \A j \in 1..(k - 1) : j * Size(a) <= Distance(a, value)
      /\ Size(a) \in Int /\ Distance(a, value) \in Int /\ Modulus \in Nat
  BY StepsPass, Widths
<1> HIDE DEF k
<1>3. Beyond(k) /\ \A m \in 1..(k - 1) : ~Beyond(m)
  <2>1. \A m \in 1..(k - 1) : m \in 1..Modulus /\ m * Size(a) \in Int
    BY <1>2
  <2> QED
    BY <1>1, <1>2, <2>1
<1>4. first \in 1..Modulus /\ Beyond(first) /\ \A m \in 1..(first - 1) : ~Beyond(m)
  BY <1>2, <1>3
<1> HIDE DEF first
<1>5. first = k
  BY <1>2, <1>3, <1>4
<1>6. FirstBeyond(a, value) = a.test + first * a.delta
  BY DEF FirstBeyond, first, Beyond
<1> QED
  BY <1>5, <1>6 DEF k

-----------------------------------------------------------------------------
(* The inductive invariant, of the tables S of a server whose clients are  *)
(* conn.                                                                   *)

Conditions == {w \in Seq(Condition) : Len(w) <= MaxConditions}
Events == {q \in Seq(Event) : Len(q) <= MaxQueue}

TableSet ==
  [counter : [Counter -> Value \cup {None}], alarm : [Alarm -> AlarmRecord \cup {None}],
   fence : [Fence -> {"none", "reset", "triggered"}], waits : [Client -> Conditions],
   fwaits : [Client -> SUBSET Fence], queue : [Client -> Events]]

Shaped(S) == S \in TableSet

(* A condition of a wait, a counter's value given. *)
Sleeps(d, value) == value # None /\ ~(Comparison(d.type) /\ Reached(d, value))

Sleepers(S) ==
  \A c \in Client : /\ \A i \in DOMAIN S.waits[c] :
                        Sleeps(S.waits[c][i], S.counter[S.waits[c][i].counter])
                    /\ \A f \in S.fwaits[c] : S.fence[f] = "reset"

Pends(S, a) ==
  /\ a.counter # None => S.counter[a.counter] # None
  /\ a.state = "active" => /\ a.counter # None
                           /\ ~(Comparison(a.type) /\ Reached(a, S.counter[a.counter]))

Pending(S) == \A a \in Alarm : S.alarm[a] # None => Pends(S, S.alarm[a]) /\ Signed(S.alarm[a])

Away(S, c) ==
  /\ S.waits[c] = <<>> /\ S.fwaits[c] = {} /\ S.queue[c] = <<>>
  /\ \A a \in Alarm : S.alarm[a] # None => c \notin S.alarm[a].clients

Sound(S, conn) == Shaped(S) /\ Sleepers(S) /\ Pending(S) /\ \A c \in Client \ conn : Away(S, c)

OwnersStay(S, conn) ==
  /\ \A a \in Alarm : S.alarm[a] # None => Owner[a] \in conn
  /\ \A x \in Counter : S.counter[x] # None => Owner[x] \in conn
  /\ \A f \in Fence : S.fence[f] # "none" => Owner[f] \in conn

IInv == connected \subseteq Client /\ Sound(Tables, connected) /\ OwnersStay(Tables, connected)

LEMMA Parts ==
  ASSUME NEW S, Shaped(S)
  PROVE  /\ S.counter \in [Counter -> Value \cup {None}]
         /\ S.alarm \in [Alarm -> AlarmRecord \cup {None}]
         /\ S.fence \in [Fence -> {"none", "reset", "triggered"}]
         /\ S.waits \in [Client -> Conditions] /\ S.fwaits \in [Client -> SUBSET Fence]
         /\ S.queue \in [Client -> Events]
         /\ S = [counter |-> S.counter, alarm |-> S.alarm, fence |-> S.fence, waits |-> S.waits,
                 fwaits |-> S.fwaits, queue |-> S.queue]
  BY DEF Shaped, TableSet

LEMMA NoneIsOutside == None \notin Value /\ None \notin AlarmRecord /\ None \notin Counter
  BY ValueAssumption, RecordAssumption, SyncAssumption, Widths

LEMMA ConditionParts ==
  ASSUME NEW w \in Conditions
  PROVE  /\ w \in Seq(Condition) /\ Len(w) \in Nat /\ Len(w) <= MaxConditions
         /\ DOMAIN w = 1..Len(w)
         /\ \A i \in DOMAIN w : /\ w[i] \in Condition /\ w[i].counter \in Counter
                                /\ w[i].test \in Value /\ w[i].type \in TestType
<1>1. w \in Seq(Condition) /\ Len(w) \in Nat /\ DOMAIN w = 1..Len(w) /\ Len(w) <= MaxConditions
  BY LenProperties DEF Conditions
<1>2. \A i \in DOMAIN w : w[i] \in Condition
  BY <1>1, ElementOfSeq
<1> QED
  BY <1>1, <1>2 DEF Condition
(* The properties of the runs. *)
LEMMA Views ==
  /\ Tables.counter = counter /\ Tables.alarm = alarm /\ Tables.fence = fence
  /\ Tables.waits = waits /\ Tables.fwaits = fwaits /\ Tables.queue = queue
  BY DEF Tables

LEMMA Implied ==
  ASSUME IInv
  PROVE  TypeOK /\ NoMissedWakeup /\ ActiveAlarmsPend /\ NothingKept
<1>1. Shaped(Tables) /\ Sleepers(Tables) /\ Pending(Tables)
      /\ \A c \in Client \ connected : Away(Tables, c)
  BY DEF IInv, Sound
<1>2. TypeOK
  BY <1>1, Views, Parts DEF TypeOK, IInv, Conditions, Events
<1>3. NoMissedWakeup
  BY <1>1, Views DEF NoMissedWakeup, Sleepers, Sleeps
<1>4. ActiveAlarmsPend
  BY <1>1, <1>2, Views DEF ActiveAlarmsPend, Pending, Pends
<1>5. NothingKept
  <2>1. OwnersStay(Tables, connected)
    BY DEF IInv
  <2> QED
    BY <1>1, <2>1, Views DEF NothingKept, Away, OwnersStay, sync_waiting
<1> QED
  BY <1>2, <1>3, <1>4, <1>5

LEMMA Initially == Init => IInv
<1> SUFFICES ASSUME Init PROVE IInv
  OBVIOUS
<1>1. <<>> \in Conditions /\ <<>> \in Events /\ Len(<<>>) = 0
  BY SyncAssumption, EmptySeq DEF Conditions, Events
<1>2. Shaped(Tables)
  BY <1>1 DEF Init, Shaped, TableSet, Tables
<1>3. Sleepers(Tables)
  BY <1>1, Views DEF Init, Sleepers
<1>4. Pending(Tables)
  BY Views DEF Init, Pending
<1>5. \A c \in Client : Away(Tables, c)
  BY Views DEF Init, Away
<1> QED
  BY <1>2, <1>3, <1>4, <1>5, Views DEF Init, IInv, Sound, OwnersStay
-----------------------------------------------------------------------------
(* update_sync_counter.                                                    *)

LEMMA FiredIs ==
  ASSUME NEW d, d.type \in TestType, NEW old, NEW new, Comparison(d.type)
  PROVE  sync_trigger_fired(d, old, new) <=> Reached(d, new)
<1>1. CASE d.type = "positive_comparison"
  BY <1>1 DEF sync_trigger_fired, Reached, Positive
<1>2. CASE d.type = "negative_comparison"
  BY <1>2 DEF sync_trigger_fired, Reached, Positive
<1> QED
  BY <1>1, <1>2 DEF Comparison

(* An alarm that fires, or loses its counter. *)
LEMMA RevisedKeeps ==
  ASSUME NEW a \in AlarmRecord, Signed(a), NEW x \in Counter, NEW old, NEW new \in Value \cup {None},
         Fires(a, x, old, new)
  PROVE  LET b == RevisedAlarm(a, new)
         IN /\ b \in AlarmRecord /\ Signed(b) /\ b.clients = a.clients
            /\ b.counter = IF new = None THEN None ELSE x
            /\ b.state = "active" => /\ new # None
                                     /\ ~(Comparison(b.type) /\ Reached(b, new))
<1>1. CASE new = None
  <2> DEFINE b == [a EXCEPT !.state = "inactive", !.counter = None]
  <2>1. b \in AlarmRecord /\ b.type = a.type /\ b.delta = a.delta /\ b.clients = a.clients
        /\ b.counter = None /\ b.state = "inactive"
    BY DEF AlarmRecord
  <2> QED
    BY <1>1, <2>1 DEF RevisedAlarm, Signed
<1>2. CASE new # None
  <2>1. new \in Value /\ a.counter = x /\ sync_trigger_fired(a, old, new) /\ a.type \in TestType
    BY <1>2, AlarmParts DEF Fires
  <2>2. Comparison(a.type) => Reached(a, new)
    BY <2>1, FiredIs
  <2> QED
    BY <1>2, <2>1, <2>2, AdvanceKeeps DEF RevisedAlarm
<1> QED
  BY <1>1, <1>2

LEMMA UpdateParts ==
  ASSUME NEW S, Shaped(S), NEW x \in Counter, NEW new
  PROVE  LET T == update_sync_counter(S, x, new)
         IN /\ T.counter = [S.counter EXCEPT ![x] = new]
            /\ T.alarm = [a \in Alarm |->
                 IF S.alarm[a] # None /\ Fires(S.alarm[a], x, S.counter[x], new)
                 THEN RevisedAlarm(S.alarm[a], new) ELSE S.alarm[a]]
            /\ T.waits = [c \in Client |-> IF WaitEnds(S, x, new, c) THEN <<>> ELSE S.waits[c]]
            /\ T.fence = S.fence /\ T.fwaits = S.fwaits /\ T.queue = S.queue
            /\ T = [counter |-> T.counter, alarm |-> T.alarm, fence |-> T.fence, waits |-> T.waits,
                    fwaits |-> T.fwaits, queue |-> T.queue]
<1> DEFINE al == [a \in Alarm |->
                 IF S.alarm[a] # None /\ Fires(S.alarm[a], x, S.counter[x], new)
                 THEN RevisedAlarm(S.alarm[a], new) ELSE S.alarm[a]]
           wa == [c \in Client |-> IF WaitEnds(S, x, new, c) THEN <<>> ELSE S.waits[c]]
<1>1. update_sync_counter(S, x, new) = [S EXCEPT !.alarm = al, !.waits = wa, !.counter[x] = new]
  BY DEF update_sync_counter
<1> HIDE DEF al, wa
<1>2. S = [counter |-> S.counter, alarm |-> S.alarm, fence |-> S.fence, waits |-> S.waits,
           fwaits |-> S.fwaits, queue |-> S.queue]
  BY Parts
<1>3. update_sync_counter(S, x, new) =
        [counter |-> [S.counter EXCEPT ![x] = new], alarm |-> al, fence |-> S.fence, waits |-> wa,
         fwaits |-> S.fwaits, queue |-> S.queue]
  BY <1>1, <1>2
<1> QED
  BY <1>3 DEF al, wa
LEMMA UpdateSound ==
  ASSUME NEW S, NEW conn, Sound(S, conn), NEW x \in Counter, NEW new \in Value \cup {None}
  PROVE  /\ Sound(update_sync_counter(S, x, new), conn)
         /\ \A a \in Alarm : update_sync_counter(S, x, new).alarm[a] # None <=> S.alarm[a] # None
<1> DEFINE T == update_sync_counter(S, x, new)
           Fired(a) == S.alarm[a] # None /\ Fires(S.alarm[a], x, S.counter[x], new)
<1>1. Shaped(S) /\ Sleepers(S) /\ Pending(S) /\ \A c \in Client \ conn : Away(S, c)
  BY DEF Sound
<1>2. /\ T.counter = [S.counter EXCEPT ![x] = new]
      /\ T.alarm = [a \in Alarm |-> IF Fired(a) THEN RevisedAlarm(S.alarm[a], new) ELSE S.alarm[a]]
      /\ T.waits = [c \in Client |-> IF WaitEnds(S, x, new, c) THEN <<>> ELSE S.waits[c]]
      /\ T.fence = S.fence /\ T.fwaits = S.fwaits /\ T.queue = S.queue
      /\ T = [counter |-> T.counter, alarm |-> T.alarm, fence |-> T.fence, waits |-> T.waits,
              fwaits |-> T.fwaits, queue |-> T.queue]
  BY <1>1, UpdateParts
<1> HIDE DEF T
<1>3. /\ S.counter \in [Counter -> Value \cup {None}]
      /\ S.alarm \in [Alarm -> AlarmRecord \cup {None}]
      /\ S.waits \in [Client -> Conditions]
  BY <1>1, Parts
<1>4. /\ T.counter \in [Counter -> Value \cup {None}] /\ T.counter[x] = new
      /\ \A y \in Counter \ {x} : T.counter[y] = S.counter[y]
  BY <1>2, <1>3
<1>5. \A a \in Alarm : T.alarm[a] = IF Fired(a) THEN RevisedAlarm(S.alarm[a], new) ELSE S.alarm[a]
  BY <1>2
<1>6. ASSUME NEW a \in Alarm, S.alarm[a] # None
      PROVE  /\ T.alarm[a] \in AlarmRecord /\ T.alarm[a] # None /\ Pends(T, T.alarm[a])
             /\ Signed(T.alarm[a]) /\ T.alarm[a].clients = S.alarm[a].clients
  <2> DEFINE b == S.alarm[a]
  <2>1. b \in AlarmRecord /\ Signed(b) /\ Pends(S, b)
    BY <1>1, <1>3, <1>6 DEF Pending
  <2>2. b.counter \in Counter \cup {None} /\ b.type \in TestType
    BY <2>1, AlarmParts
  <2> HIDE DEF b
  <2>3. CASE Fires(b, x, S.counter[x], new)
    <3> DEFINE r == RevisedAlarm(b, new)
    <3>1. /\ r \in AlarmRecord /\ Signed(r) /\ r.clients = b.clients
          /\ r.counter = IF new = None THEN None ELSE x
          /\ r.state = "active" => new # None /\ ~(Comparison(r.type) /\ Reached(r, new))
      BY <2>1, <2>3, RevisedKeeps
    <3>2. T.alarm[a] = r
      BY <1>5, <1>6, <2>3 DEF b
    <3> HIDE DEF r
    <3>3. Pends(T, r)
      BY <1>4, <3>1, NoneIsOutside DEF Pends
    <3> QED
      BY <3>1, <3>2, <3>3, NoneIsOutside DEF b
  <2>4. CASE ~ Fires(b, x, S.counter[x], new)
    <3>1. T.alarm[a] = b
      BY <1>5, <2>4 DEF b
    <3>2. Pends(T, b)
      <4>1. CASE b.counter = x
        <5>1. new # None /\ ~ sync_trigger_fired(b, S.counter[x], new)
          BY <2>4, <4>1 DEF Fires
        <5>2. Comparison(b.type) => ~ Reached(b, new)
          BY <2>2, <5>1, FiredIs
        <5> QED
          BY <1>4, <2>1, <4>1, <5>1, <5>2 DEF Pends
      <4>2. CASE b.counter # x
        BY <1>4, <2>1, <2>2, <4>2 DEF Pends
      <4> QED
        BY <4>1, <4>2
    <3> QED
      BY <1>6, <2>1, <3>1, <3>2 DEF b
  <2> QED
    BY <2>3, <2>4
<1>7. \A a \in Alarm : S.alarm[a] = None => T.alarm[a] = None
  BY <1>5
<1>8. \A a \in Alarm : T.alarm[a] # None <=> S.alarm[a] # None
  BY <1>6, <1>7
<1>9. Pending(T)
  BY <1>6, <1>7 DEF Pending
<1>10. \A c \in Client : T.waits[c] = IF WaitEnds(S, x, new, c) THEN <<>> ELSE S.waits[c]
  BY <1>2
<1>11. Shaped(T)
  <2>1. <<>> \in Conditions
    BY SyncAssumption, EmptySeq DEF Conditions
  <2>2. T.waits \in [Client -> Conditions]
    BY <1>2, <1>3, <2>1
  <2>3. \A a \in Alarm : T.alarm[a] \in AlarmRecord \cup {None}
    BY <1>6, <1>7
  <2>4. T.alarm \in [Alarm -> AlarmRecord \cup {None}]
    BY <1>2, <2>3
  <2> QED
    BY <1>1, <1>2, <1>4, <2>2, <2>4, Parts DEF Shaped, TableSet
<1>12. Sleepers(T)
  <2>1. ASSUME NEW c \in Client, NEW i \in DOMAIN T.waits[c]
        PROVE  Sleeps(T.waits[c][i], T.counter[T.waits[c][i].counter])
    <3>1. ~ WaitEnds(S, x, new, c)
      <4>1. DOMAIN <<>> = {}
        OBVIOUS
      <4> QED
        BY <1>10, <2>1, <4>1
    <3>2. T.waits[c] = S.waits[c] /\ S.waits[c] \in Conditions
      BY <1>3, <1>10, <3>1
    <3> DEFINE d == S.waits[c][i]
    <3>3. /\ ~ Fires(d, x, S.counter[x], new) /\ Sleeps(d, S.counter[d.counter])
          /\ d.counter \in Counter /\ d.type \in TestType
      BY <1>1, <2>1, <3>1, <3>2, ConditionParts DEF WaitEnds, Sleepers
    <3> HIDE DEF d
    <3>4. Sleeps(d, T.counter[d.counter])
      <4>1. CASE d.counter = x
        <5>1. new # None /\ ~ sync_trigger_fired(d, S.counter[x], new)
          BY <3>3, <4>1 DEF Fires
        <5>2. Comparison(d.type) => ~ Reached(d, new)
          BY <3>3, <5>1, FiredIs
        <5> QED
          BY <1>4, <4>1, <5>1, <5>2 DEF Sleeps
      <4>2. CASE d.counter # x
        BY <1>4, <3>3, <4>2
      <4> QED
        BY <4>1, <4>2
    <3> QED
      BY <3>2, <3>4 DEF d
  <2>2. \A c \in Client : \A f \in T.fwaits[c] : T.fence[f] = "reset"
    BY <1>1, <1>2 DEF Sleepers
  <2> QED
    BY <2>1, <2>2 DEF Sleepers
<1>13. \A c \in Client \ conn : Away(T, c)
  <2> TAKE c \in Client \ conn
  <2>1. Away(S, c)
    BY <1>1
  <2>2. T.waits[c] = <<>> /\ T.fwaits[c] = {} /\ T.queue[c] = <<>>
    BY <1>2, <1>10, <2>1 DEF Away
  <2>3. \A a \in Alarm : T.alarm[a] # None => c \notin T.alarm[a].clients
    BY <1>6, <1>7, <2>1 DEF Away
  <2> QED
    BY <2>2, <2>3 DEF Away
<1> QED
  BY <1>8, <1>9, <1>11, <1>12, <1>13 DEF Sound, T
-----------------------------------------------------------------------------
(* Plans of events, for clients that are there.                            *)

PlanFor(plan, conn) == plan \in [Client -> Seq(Event)] /\ \A c \in Client \ conn : plan[c] = <<>>

LEMMA NoEventsPlan == ASSUME NEW conn PROVE PlanFor(NoEvents, conn)
  BY DEF PlanFor, NoEvents

LEMMA AlarmEvent ==
  ASSUME NEW a \in Alarm, NEW state \in {"active", "inactive", "destroyed"}
  PROVE  [about |-> a, state |-> state] \in Event
  BY DEF Event

LEMMA AlarmPlan ==
  ASSUME NEW conn, NEW a \in Alarm, NEW clients, \A c \in Client \ conn : c \notin clients,
         NEW state \in {"active", "inactive", "destroyed"}
  PROVE  PlanFor(AlarmEvents(a, clients, state), conn)
<1> DEFINE e == [about |-> a, state |-> state]
<1>1. e \in Event
  BY AlarmEvent
<1> HIDE DEF e
<1>2. <<e>> \in Seq(Event) /\ <<>> \in Seq(Event)
  BY <1>1
<1>3. AlarmEvents(a, clients, state) = [c \in Client |-> IF c \in clients THEN <<e>> ELSE <<>>]
  BY DEF AlarmEvents, e
<1> QED
  BY <1>2, <1>3 DEF PlanFor

LEMMA AlarmsPlanIs ==
  ASSUME NEW S, NEW conn, Sound(S, conn), NEW x \in Counter, NEW new \in Value \cup {None},
         NEW c \in Client
  PROVE  /\ AlarmsPlan(S, x, new, c) \in Seq(Event)
         /\ c \notin conn => AlarmsPlan(S, x, new, c) = <<>>
<1> DEFINE H == {a \in Alarm : /\ S.alarm[a] # None /\ c \in S.alarm[a].clients
                               /\ Fires(S.alarm[a], x, S.counter[x], new)}
           hit == SetToSeq(H)
           E(i) == [about |-> hit[i], state |-> RevisedAlarm(S.alarm[hit[i]], new).state]
<1>1. Shaped(S) /\ Pending(S) /\ \A d \in Client \ conn : Away(S, d)
  BY DEF Sound
<1>2. IsFiniteSet(H)
  <2>1. IsFiniteSet(Counter \cup Alarm \cup Fence) /\ H \subseteq Counter \cup Alarm \cup Fence
    BY SyncAssumption
  <2> QED
    BY <2>1, FS_Subset
<1>3. \A a \in H : a \in Alarm /\ RevisedAlarm(S.alarm[a], new) \in AlarmRecord
  <2> TAKE a \in H
  <2>1. S.alarm[a] \in AlarmRecord /\ Signed(S.alarm[a])
    BY <1>1, Parts DEF Pending
  <2> QED
    BY <2>1, RevisedKeeps
<1>4. c \notin conn => H = {}
  BY <1>1 DEF Away
<1> HIDE DEF H
<1>5. hit \in Seq(H) /\ (H = {} => hit = <<>>)
  BY <1>2, SetToSeqLists
<1>6. AlarmsPlan(S, x, new, c) = [i \in 1..Len(hit) |-> E(i)]
  BY DEF AlarmsPlan, H
<1> HIDE DEF hit
<1>7. \A i \in 1..Len(hit) : E(i) \in Event
  <2> TAKE i \in 1..Len(hit)
  <2> DEFINE a == hit[i]
             r == RevisedAlarm(S.alarm[a], new)
  <2>1. a \in H
    BY <1>5, ElementOfSeq
  <2>2. a \in Alarm /\ r \in AlarmRecord
    BY <1>3, <2>1
  <2> HIDE DEF a, r
  <2>3. r.state \in {"active", "inactive"}
    BY <2>2, AlarmParts
  <2>4. [about |-> a, state |-> r.state] \in Event
    BY <2>2, <2>3, AlarmEvent
  <2> QED
    BY <2>4 DEF a, r
<1>8. Len(hit) \in Nat
  BY <1>5, LenProperties
<1> HIDE DEF E
<1>9. AlarmsPlan(S, x, new, c) \in Seq(Event)
  BY <1>6, <1>7, <1>8
<1>10. ASSUME c \notin conn PROVE AlarmsPlan(S, x, new, c) = <<>>
  <2>1. hit = <<>>
    BY <1>4, <1>5, <1>10
  <2>2. Len(hit) = 0
    BY <2>1
  <2>3. Len(AlarmsPlan(S, x, new, c)) = 0
    BY <1>6, <1>9, <2>2
  <2> QED
    BY <1>9, <2>3, EmptySeq
<1> QED
  BY <1>9, <1>10

LEMMA NumberedIs ==
  ASSUME NEW w \in Conditions, NEW wanted
  PROVE  Numbered(Picked(w, wanted)) \in Seq(Event)
<1> DEFINE p == Picked(w, wanted)
<1>1. w \in Seq(Condition) /\ Len(w) <= MaxConditions /\ Len(w) \in Nat /\ MaxConditions \in Nat
  BY ConditionParts, SyncAssumption
<1>2. p \in Seq(Condition) /\ Len(p) <= Len(w)
  BY <1>1, PickedIsPart
<1> HIDE DEF p
<1>3. Len(p) \in Nat /\ Len(p) <= MaxConditions
  BY <1>1, <1>2, LenProperties
<1>4. \A i \in 1..Len(p) : [about |-> p[i].counter, count |-> Len(p) - i] \in Event
  <2> TAKE i \in 1..Len(p)
  <2>1. p[i] \in Condition
    BY <1>2, ElementOfSeq
  <2>2. p[i].counter \in Counter /\ Len(p) - i \in 0..MaxConditions
    BY <1>1, <1>3, <2>1 DEF Condition
  <2> QED
    BY <2>2 DEF Event
<1>5. Numbered(p) = [i \in 1..Len(p) |-> [about |-> p[i].counter, count |-> Len(p) - i]]
  BY DEF Numbered
<1>6. Numbered(p) \in Seq(Event)
  BY <1>3, <1>4, <1>5
<1> QED
  BY <1>6 DEF p

LEMMA UpdatePlanIs ==
  ASSUME NEW S, NEW conn, Sound(S, conn), NEW x \in Counter, NEW new \in Value \cup {None}
  PROVE  PlanFor(UpdatePlan(S, x, new), conn)
<1> DEFINE W(c) == IF WaitEnds(S, x, new, c) THEN Numbered(Notified(S, x, new, S.waits[c])) ELSE <<>>
<1>1. UpdatePlan(S, x, new) = [c \in Client |-> AlarmsPlan(S, x, new, c) \o W(c)]
  BY DEF UpdatePlan
<1>2. ASSUME NEW c \in Client
      PROVE  W(c) \in Seq(Event) /\ (c \notin conn => W(c) = <<>>)
  <2>1. S.waits[c] \in Conditions
    BY Parts DEF Sound
  <2>2. Numbered(Notified(S, x, new, S.waits[c])) \in Seq(Event)
    BY <2>1, NumberedIs DEF Notified
  <2>3. c \notin conn => S.waits[c] = <<>>
    BY DEF Sound, Away
  <2>4. S.waits[c] = <<>> => ~ WaitEnds(S, x, new, c)
    <3>1. DOMAIN <<>> = {}
      OBVIOUS
    <3> QED
      BY <3>1 DEF WaitEnds
  <2> QED
    BY <2>2, <2>3, <2>4
<1> HIDE DEF W
<1>3. ASSUME NEW c \in Client
      PROVE  /\ AlarmsPlan(S, x, new, c) \o W(c) \in Seq(Event)
             /\ c \notin conn => AlarmsPlan(S, x, new, c) \o W(c) = <<>>
  <2> DEFINE p == AlarmsPlan(S, x, new, c)
  <2>1. p \in Seq(Event) /\ (c \notin conn => p = <<>>)
    BY AlarmsPlanIs
  <2>2. W(c) \in Seq(Event) /\ (c \notin conn => W(c) = <<>>)
    BY <1>2
  <2> HIDE DEF p
  <2>3. p \o W(c) \in Seq(Event) /\ (c \notin conn => p \o W(c) = <<>>)
    BY <2>1, <2>2
  <2> QED
    BY <2>3 DEF p
<1> QED
  BY <1>1, <1>3 DEF PlanFor
LEMMA QueueLengths ==
  ASSUME NEW S, Shaped(S), NEW conn, NEW plan, PlanFor(plan, conn), Fits(S, plan), NEW c \in Client
  PROVE  S.queue[c] \o plan[c] \in Events
<1>1. /\ S.queue[c] \in Seq(Event) /\ Len(S.queue[c]) <= MaxQueue /\ plan[c] \in Seq(Event)
      /\ plan[c] # <<>> => Len(S.queue[c]) + Len(plan[c]) <= MaxQueue
  BY Parts DEF PlanFor, Fits, Events
<1> DEFINE q == S.queue[c]
           p == plan[c]
<1> HIDE DEF q, p
<1>2. q \in Seq(Event) /\ Len(q) <= MaxQueue /\ p \in Seq(Event)
      /\ (p # <<>> => Len(q) + Len(p) <= MaxQueue)
  BY <1>1 DEF q, p
<1>3. q \o p \in Seq(Event) /\ Len(q \o p) = Len(q) + Len(p) /\ Len(q) \in Nat
  BY <1>2, ConcatProperties, LenProperties
<1>4. p = <<>> => Len(p) = 0
  BY EmptySeq
<1>5. Len(q \o p) <= MaxQueue
  BY <1>2, <1>3, <1>4
<1> QED
  BY <1>3, <1>5 DEF Events, q, p

LEMMA QueuedParts ==
  ASSUME NEW S, Shaped(S), NEW plan
  PROVE  LET T == Queued(S, plan)
         IN /\ T.counter = S.counter /\ T.alarm = S.alarm /\ T.fence = S.fence /\ T.waits = S.waits
            /\ T.fwaits = S.fwaits /\ T.queue = [c \in Client |-> S.queue[c] \o plan[c]]
            /\ T = [counter |-> T.counter, alarm |-> T.alarm, fence |-> T.fence, waits |-> T.waits,
                    fwaits |-> T.fwaits, queue |-> T.queue]
<1> DEFINE qu == [c \in Client |-> S.queue[c] \o plan[c]]
<1>1. Queued(S, plan) = [S EXCEPT !.queue = qu]
  BY DEF Queued
<1> HIDE DEF qu
<1>2. Queued(S, plan) = [counter |-> S.counter, alarm |-> S.alarm, fence |-> S.fence,
                         waits |-> S.waits, fwaits |-> S.fwaits, queue |-> qu]
  BY <1>1, Parts
<1> QED
  BY <1>2 DEF qu

(* A change of the queues alone. *)
LEMMA QueuesOnly ==
  ASSUME NEW S, NEW conn, Sound(S, conn), NEW T,
         T.counter = S.counter, T.alarm = S.alarm, T.fence = S.fence, T.waits = S.waits,
         T.fwaits = S.fwaits, T.queue \in [Client -> Events],
         \A c \in Client \ conn : T.queue[c] = <<>>,
         T = [counter |-> T.counter, alarm |-> T.alarm, fence |-> T.fence, waits |-> T.waits,
              fwaits |-> T.fwaits, queue |-> T.queue]
  PROVE  Sound(T, conn)
<1>1. Shaped(S) /\ Sleepers(S) /\ Pending(S) /\ \A c \in Client \ conn : Away(S, c)
  BY DEF Sound
<1>2. Shaped(T)
  BY <1>1, Parts DEF Shaped, TableSet
<1>3. Sleepers(T) /\ Pending(T)
  BY <1>1 DEF Sleepers, Pending, Pends
<1>4. \A c \in Client \ conn : Away(T, c)
  BY <1>1 DEF Away
<1> QED
  BY <1>2, <1>3, <1>4 DEF Sound

LEMMA QueuedSound ==
  ASSUME NEW S, NEW conn, Sound(S, conn), NEW plan, PlanFor(plan, conn), Fits(S, plan)
  PROVE  Sound(Queued(S, plan), conn)
<1> DEFINE T == Queued(S, plan)
<1>1. Shaped(S)
  BY DEF Sound
<1>2. /\ T.counter = S.counter /\ T.alarm = S.alarm /\ T.fence = S.fence /\ T.waits = S.waits
      /\ T.fwaits = S.fwaits /\ T.queue = [c \in Client |-> S.queue[c] \o plan[c]]
      /\ T = [counter |-> T.counter, alarm |-> T.alarm, fence |-> T.fence, waits |-> T.waits,
              fwaits |-> T.fwaits, queue |-> T.queue]
  BY <1>1, QueuedParts, ZenonT(60)
<1> HIDE DEF T
<1>3. T.queue \in [Client -> Events]
  BY <1>1, <1>2, QueueLengths
<1>4. \A c \in Client \ conn : T.queue[c] = <<>>
  <2> TAKE c \in Client \ conn
  <2>1. S.queue[c] = <<>> /\ plan[c] = <<>>
    BY DEF Sound, Away, PlanFor
  <2> QED
    BY <1>2, <2>1
<1>5. Sound(T, conn)
  BY <1>2, <1>3, <1>4, QueuesOnly
<1> QED
  BY <1>5 DEF T

(* What finish_update leaves. *)
LEMMA FinishSound ==
  ASSUME NEW S, NEW conn, Sound(S, conn), NEW plan, PlanFor(plan, conn), Fits(S, plan), NEW c \in Client
  PROVE  LET T == [Queued(S, plan) EXCEPT !.queue[c] = <<>>]
         IN /\ Sound(T, conn)
            /\ T.counter = S.counter /\ T.alarm = S.alarm /\ T.fence = S.fence
<1> DEFINE Q == Queued(S, plan)
           T == [Q EXCEPT !.queue[c] = <<>>]
<1>1. Sound(Q, conn) /\ Shaped(Q) /\ Shaped(S)
  BY QueuedSound DEF Sound
<1>2. Q.counter = S.counter /\ Q.alarm = S.alarm /\ Q.fence = S.fence
  BY <1>1, QueuedParts, ZenonT(60)
<1> HIDE DEF Q
<1>3. T = [counter |-> Q.counter, alarm |-> Q.alarm, fence |-> Q.fence, waits |-> Q.waits,
           fwaits |-> Q.fwaits, queue |-> [Q.queue EXCEPT ![c] = <<>>]]
  BY <1>1, Parts
<1>4. /\ T.counter = Q.counter /\ T.alarm = Q.alarm /\ T.fence = Q.fence /\ T.waits = Q.waits
      /\ T.fwaits = Q.fwaits /\ T.queue = [Q.queue EXCEPT ![c] = <<>>]
      /\ T = [counter |-> T.counter, alarm |-> T.alarm, fence |-> T.fence, waits |-> T.waits,
              fwaits |-> T.fwaits, queue |-> T.queue]
  BY <1>3
<1> HIDE DEF T
<1>5. Q.queue \in [Client -> Events] /\ <<>> \in Events
  BY <1>1, Parts, SyncAssumption, EmptySeq DEF Events
<1>6. T.queue \in [Client -> Events]
  BY <1>4, <1>5
<1>7. \A d \in Client \ conn : T.queue[d] = <<>>
  <2> TAKE d \in Client \ conn
  <2>1. Q.queue[d] = <<>>
    BY <1>1 DEF Sound, Away
  <2> QED
    BY <1>4, <1>5, <2>1
<1>8. Sound(T, conn)
  BY <1>1, <1>4, <1>6, <1>7, QueuesOnly
<1> QED
  BY <1>2, <1>4, <1>8 DEF T, Q
-----------------------------------------------------------------------------
(* Steps.                                                                  *)

LEMMA BecomeIs ==
  ASSUME NEW T, Become(T),
         T = [counter |-> T.counter, alarm |-> T.alarm, fence |-> T.fence, waits |-> T.waits,
              fwaits |-> T.fwaits, queue |-> T.queue]
  PROVE  Tables' = T
<1>1. Tables' = [counter |-> T.counter, alarm |-> T.alarm, fence |-> T.fence, waits |-> T.waits,
                 fwaits |-> T.fwaits, queue |-> T.queue]
  BY DEF Become, Tables
<1> QED
  BY <1>1

(* Owners stay where the same things exist. *)
LEMMA SameThings ==
  ASSUME NEW S, NEW conn, OwnersStay(S, conn), NEW T,
         \A a \in Alarm : T.alarm[a] # None => S.alarm[a] # None \/ Owner[a] \in conn,
         \A x \in Counter : T.counter[x] # None => S.counter[x] # None \/ Owner[x] \in conn,
         \A f \in Fence : T.fence[f] # "none" => S.fence[f] # "none" \/ Owner[f] \in conn
  PROVE  OwnersStay(T, conn)
  BY DEF OwnersStay

LEMMA FinishStep ==
  ASSUME NEW c \in Client, NEW S, NEW plan, connected \subseteq Client,
         Sound(S, connected), OwnersStay(S, connected), S.queue = queue, PlanFor(plan, connected),
         finish_update(c, S, plan)
  PROVE  IInv' /\ counter' = S.counter /\ alarm' = S.alarm
<1>1. PICK conn : conn = connected
  OBVIOUS
<1>2. PICK T : T = [Queued(S, plan) EXCEPT !.queue[c] = <<>>]
  OBVIOUS
<1>3. Fits(S, plan) /\ Become(T) /\ connected' = conn /\ conn \subseteq Client
  BY <1>1, <1>2, Views DEF finish_update, Fits
<1>4. Sound(T, conn) /\ T.counter = S.counter /\ T.alarm = S.alarm /\ T.fence = S.fence
  BY <1>1, <1>2, <1>3, FinishSound
<1>5. OwnersStay(T, conn)
  BY <1>1, <1>4, SameThings
<1>6. Shaped(T)
  BY <1>4 DEF Sound
<1>7. Tables' = T
  BY <1>3, <1>6, Parts, BecomeIs
<1>8. counter' = S.counter /\ alarm' = S.alarm
  BY <1>3, <1>4 DEF Become
<1> QED
  BY <1>3, <1>4, <1>5, <1>7, <1>8 DEF IInv
LEMMA UpdateValues ==
  ASSUME NEW S, Shaped(S), NEW x \in Counter, NEW new
  PROVE  /\ update_sync_counter(S, x, new).counter = [S.counter EXCEPT ![x] = new]
         /\ \A a \in Alarm : update_sync_counter(S, x, new).alarm[a] =
              IF S.alarm[a] # None /\ Fires(S.alarm[a], x, S.counter[x], new)
              THEN RevisedAlarm(S.alarm[a], new) ELSE S.alarm[a]
         /\ update_sync_counter(S, x, new).fence = S.fence
         /\ update_sync_counter(S, x, new).queue = S.queue
<1> DEFINE T == update_sync_counter(S, x, new)
<1>1. /\ T.counter = [S.counter EXCEPT ![x] = new]
      /\ T.alarm = [a \in Alarm |->
                 IF S.alarm[a] # None /\ Fires(S.alarm[a], x, S.counter[x], new)
                 THEN RevisedAlarm(S.alarm[a], new) ELSE S.alarm[a]]
      /\ T.waits = [c \in Client |-> IF WaitEnds(S, x, new, c) THEN <<>> ELSE S.waits[c]]
      /\ T.fence = S.fence /\ T.fwaits = S.fwaits /\ T.queue = S.queue
      /\ T = [counter |-> T.counter, alarm |-> T.alarm, fence |-> T.fence, waits |-> T.waits,
              fwaits |-> T.fwaits, queue |-> T.queue]
  BY UpdateParts
<1> HIDE DEF T
<1>2. \A a \in Alarm : T.alarm[a] = IF S.alarm[a] # None /\ Fires(S.alarm[a], x, S.counter[x], new)
                                    THEN RevisedAlarm(S.alarm[a], new) ELSE S.alarm[a]
  BY <1>1
<1> QED
  BY <1>1, <1>2 DEF T

LEMMA UpdateStep ==
  ASSUME IInv, NEW c \in Client, NEW x \in Counter, counter[x] # None, NEW new \in Value \cup {None},
         finish_update(c, update_sync_counter(Tables, x, new), UpdatePlan(Tables, x, new))
  PROVE  /\ IInv'
         /\ counter' = [counter EXCEPT ![x] = new]
         /\ \A a \in Alarm : alarm'[a] = IF alarm[a] # None /\ Fires(alarm[a], x, counter[x], new)
                                         THEN RevisedAlarm(alarm[a], new) ELSE alarm[a]
<1>1. PICK conn : conn = connected
  OBVIOUS
<1>2. PICK S : S = Tables
  OBVIOUS
<1> DEFINE T == update_sync_counter(S, x, new)
<1>4. Sound(S, conn) /\ OwnersStay(S, conn) /\ conn \subseteq Client /\ Shaped(S)
  BY <1>1, <1>2 DEF IInv, Sound
<1>5. /\ T.counter = [S.counter EXCEPT ![x] = new]
      /\ \A a \in Alarm : T.alarm[a] =
            IF S.alarm[a] # None /\ Fires(S.alarm[a], x, S.counter[x], new)
            THEN RevisedAlarm(S.alarm[a], new) ELSE S.alarm[a]
      /\ T.fence = S.fence /\ T.queue = S.queue
  BY <1>4, UpdateValues
<1>6. Sound(T, conn) /\ \A a \in Alarm : T.alarm[a] # None <=> S.alarm[a] # None
  BY <1>4, UpdateSound
<1> HIDE DEF T
<1>7. PlanFor(UpdatePlan(S, x, new), conn)
  BY <1>4, UpdatePlanIs
<1>8. S.counter = counter /\ S.alarm = alarm /\ S.queue = queue
  BY <1>2, Views
<1>9. S.counter \in [Counter -> Value \cup {None}]
  BY <1>4, Parts
<1>10. \A y \in Counter : T.counter[y] # None => S.counter[y] # None
  BY <1>5, <1>8, <1>9
<1>11. OwnersStay(T, conn)
  BY <1>4, <1>5, <1>6, <1>10 DEF OwnersStay
<1>12. finish_update(c, T, UpdatePlan(S, x, new))
  BY <1>2 DEF finish_update, T
<1>13. IInv' /\ counter' = T.counter /\ alarm' = T.alarm
  BY <1>1, <1>4, <1>5, <1>6, <1>7, <1>8, <1>11, <1>12, FinishStep
<1> QED
  BY <1>5, <1>8, <1>13
-----------------------------------------------------------------------------
(* advance_alarm against its definition.                                   *)

LEMMA AdvancesExactly ==
  ASSUME NEW a \in AlarmRecord, Signed(a), NEW value \in Value, a.state = "active",
         Comparison(a.type), Reached(a, value)
  PROVE  IF a.delta = 0 THEN advance_alarm(a, value) = Inactive(a)
         ELSE IF FirstBeyond(a, value) \in Value
              THEN advance_alarm(a, value) = [a EXCEPT !.test = FirstBeyond(a, value)]
              ELSE advance_alarm(a, value) = Inactive(a)
<1>1. CASE a.delta = 0
  BY <1>1 DEF advance_alarm
<1>2. CASE a.delta # 0
  BY <1>2, AdvanceIs, FirstBeyondIs
<1> QED
  BY <1>1, <1>2

(* The alarms of the tables. *)
LEMMA AlarmOfTables ==
  ASSUME IInv, NEW a \in Alarm, alarm[a] # None
  PROVE  /\ alarm[a] \in AlarmRecord /\ Signed(alarm[a])
         /\ alarm[a].counter # None => counter[alarm[a].counter] # None
<1>1. Shaped(Tables) /\ Pending(Tables)
  BY DEF IInv, Sound
<1>2. Tables.alarm[a] \in AlarmRecord /\ Signed(Tables.alarm[a]) /\ Pends(Tables, Tables.alarm[a])
  BY <1>1, Parts, Views DEF Pending
<1> QED
  BY <1>2, Views DEF Pends

LEMMA UpdatesAreExact ==
  ASSUME IInv, NEW x \in Counter, NEW new \in Value \cup {None},
         counter' = [counter EXCEPT ![x] = new],
         \A a \in Alarm : alarm'[a] = IF alarm[a] # None /\ Fires(alarm[a], x, counter[x], new)
                                      THEN RevisedAlarm(alarm[a], new) ELSE alarm[a]
  PROVE  ExactlyAdvanced
<1> SUFFICES ASSUME NEW a \in Alarm, NEW y \in Counter,
                    alarm[a] # None, counter'[y] # None, counter[y] # counter'[y],
                    alarm[a].counter = y, alarm[a].state = "active", Comparison(alarm[a].type)
             PROVE  IF ~Reached(alarm[a], counter'[y]) THEN alarm'[a] = alarm[a]
                    ELSE IF alarm[a].delta = 0 THEN alarm'[a] = Inactive(alarm[a])
                    ELSE IF FirstBeyond(alarm[a], counter'[y]) \in Value
                         THEN alarm'[a] = [alarm[a] EXCEPT !.test = FirstBeyond(alarm[a], counter'[y])]
                         ELSE alarm'[a] = Inactive(alarm[a])
  BY DEF ExactlyAdvanced
<1>1. counter \in [Counter -> Value \cup {None}]
  BY Parts, Views DEF IInv, Sound
<1>2. y = x /\ counter'[y] = new /\ new \in Value
  BY <1>1
<1>3. PICK b \in AlarmRecord : b = alarm[a] /\ Signed(b)
  BY AlarmOfTables
<1>4. Fires(b, x, counter[x], new) <=> Reached(b, new)
  <2>1. b.type \in TestType /\ Comparison(b.type) /\ b.counter = x /\ new # None
    BY <1>2, <1>3, AlarmParts, NoneIsOutside
  <2> QED
    BY <2>1, FiredIs DEF Fires
<1>5. alarm'[a] = IF Reached(b, new) THEN advance_alarm(b, new) ELSE b
  BY <1>2, <1>3, <1>4, NoneIsOutside DEF RevisedAlarm
<1>6. CASE Reached(b, new)
  <2>1. b.state = "active" /\ Comparison(b.type)
    BY <1>3
  <2>2. IF b.delta = 0 THEN advance_alarm(b, new) = Inactive(b)
         ELSE IF FirstBeyond(b, new) \in Value
              THEN advance_alarm(b, new) = [b EXCEPT !.test = FirstBeyond(b, new)]
              ELSE advance_alarm(b, new) = Inactive(b)
    BY <1>2, <1>3, <1>6, <2>1, AdvancesExactly
  <2> QED
    BY <1>2, <1>3, <1>5, <1>6, <2>2
<1>7. CASE ~ Reached(b, new)
  BY <1>2, <1>3, <1>5, <1>7
<1> QED
  BY <1>6, <1>7

(* Other steps take counters away or bring new ones. *)
LEMMA OthersAreExact ==
  ASSUME IInv, \A x \in Counter : counter'[x] \in {counter[x], None} \/ counter[x] = None
  PROVE  ExactlyAdvanced
<1> SUFFICES ASSUME NEW a \in Alarm, NEW y \in Counter,
                    alarm[a] # None, counter'[y] # None, counter[y] # counter'[y],
                    alarm[a].counter = y
             PROVE  FALSE
  BY DEF ExactlyAdvanced
<1>1. counter[y] = None
  OBVIOUS
<1> QED
  BY <1>1, AlarmOfTables, NoneIsOutside
-----------------------------------------------------------------------------
(* Changes of one place of the tables.                                     *)

LEMMA AlarmSet ==
  ASSUME NEW S, NEW conn, Sound(S, conn), NEW a \in Alarm, NEW r,
         \/ r = None
         \/ r \in AlarmRecord /\ Pends(S, r) /\ Signed(r) /\ \A c \in Client \ conn : c \notin r.clients
  PROVE  LET T == [S EXCEPT !.alarm[a] = r]
         IN /\ Sound(T, conn) /\ T.counter = S.counter /\ T.alarm = [S.alarm EXCEPT ![a] = r]
            /\ T.fence = S.fence /\ T.queue = S.queue
<1> DEFINE T == [S EXCEPT !.alarm[a] = r]
<1>1. Shaped(S) /\ Sleepers(S) /\ Pending(S) /\ \A c \in Client \ conn : Away(S, c)
  BY DEF Sound
<1>2. T = [counter |-> S.counter, alarm |-> [S.alarm EXCEPT ![a] = r], fence |-> S.fence,
           waits |-> S.waits, fwaits |-> S.fwaits, queue |-> S.queue]
  BY <1>1, Parts
<1> HIDE DEF T
<1>3. /\ T.counter = S.counter /\ T.alarm = [S.alarm EXCEPT ![a] = r] /\ T.fence = S.fence
      /\ T.waits = S.waits /\ T.fwaits = S.fwaits /\ T.queue = S.queue
  BY <1>2
<1>4. S.alarm \in [Alarm -> AlarmRecord \cup {None}]
  BY <1>1, Parts
<1>5. T.alarm \in [Alarm -> AlarmRecord \cup {None}] /\ T.alarm[a] = r
      /\ \A b \in Alarm \ {a} : T.alarm[b] = S.alarm[b]
  BY <1>3, <1>4
<1>6. Shaped(T)
  BY <1>1, <1>2, <1>3, <1>5, Parts DEF Shaped, TableSet
<1>7. Sleepers(T)
  BY <1>1, <1>3 DEF Sleepers
<1>8. Pending(T)
  <2> SUFFICES ASSUME NEW b \in Alarm, T.alarm[b] # None
               PROVE  Pends(T, T.alarm[b]) /\ Signed(T.alarm[b])
    BY DEF Pending
  <2>1. Pends(S, T.alarm[b]) /\ Signed(T.alarm[b])
    BY <1>1, <1>5 DEF Pending
  <2> QED
    BY <1>3, <2>1 DEF Pends
<1>9. \A c \in Client \ conn : Away(T, c)
  <2> TAKE c \in Client \ conn
  <2>1. Away(S, c)
    BY <1>1
  <2>2. \A b \in Alarm : T.alarm[b] # None => c \notin T.alarm[b].clients
    BY <1>5, <2>1 DEF Away
  <2> QED
    BY <1>3, <2>1, <2>2 DEF Away
<1> QED
  BY <1>3, <1>6, <1>7, <1>8, <1>9 DEF Sound, T

LEMMA WaitsSet ==
  ASSUME NEW S, NEW conn, Sound(S, conn), NEW c \in Client, c \in conn, NEW w \in Conditions,
         \A i \in DOMAIN w : Sleeps(w[i], S.counter[w[i].counter])
  PROVE  LET T == [S EXCEPT !.waits[c] = w]
         IN /\ Sound(T, conn) /\ T.counter = S.counter /\ T.alarm = S.alarm
            /\ T.fence = S.fence /\ T.queue = S.queue
<1> DEFINE T == [S EXCEPT !.waits[c] = w]
<1>1. Shaped(S) /\ Sleepers(S) /\ Pending(S) /\ \A d \in Client \ conn : Away(S, d)
  BY DEF Sound
<1>2. T = [counter |-> S.counter, alarm |-> S.alarm, fence |-> S.fence,
           waits |-> [S.waits EXCEPT ![c] = w], fwaits |-> S.fwaits, queue |-> S.queue]
  BY <1>1, Parts
<1> HIDE DEF T
<1>3. /\ T.counter = S.counter /\ T.alarm = S.alarm /\ T.fence = S.fence
      /\ T.waits = [S.waits EXCEPT ![c] = w] /\ T.fwaits = S.fwaits /\ T.queue = S.queue
  BY <1>2
<1>4. S.waits \in [Client -> Conditions]
  BY <1>1, Parts
<1>5. T.waits \in [Client -> Conditions] /\ T.waits[c] = w
      /\ \A d \in Client \ {c} : T.waits[d] = S.waits[d]
  BY <1>3, <1>4
<1>6. Shaped(T)
  BY <1>1, <1>2, <1>3, <1>5, Parts DEF Shaped, TableSet
<1>7. Sleepers(T)
  <2>1. ASSUME NEW d \in Client, NEW i \in DOMAIN T.waits[d]
        PROVE  Sleeps(T.waits[d][i], T.counter[T.waits[d][i].counter])
    BY <1>1, <1>3, <1>5, <2>1 DEF Sleepers
  <2> QED
    BY <1>1, <1>3, <2>1 DEF Sleepers
<1>8. Pending(T)
  BY <1>1, <1>3 DEF Pending, Pends
<1>9. \A d \in Client \ conn : Away(T, d)
  BY <1>1, <1>3, <1>5 DEF Away
<1> QED
  BY <1>3, <1>6, <1>7, <1>8, <1>9 DEF Sound, T

LEMMA FenceWaitsSet ==
  ASSUME NEW S, NEW conn, Sound(S, conn), NEW c \in Client, c \in conn, NEW F \in SUBSET Fence,
         \A f \in F : S.fence[f] = "reset"
  PROVE  LET T == [S EXCEPT !.fwaits[c] = F]
         IN /\ Sound(T, conn) /\ T.counter = S.counter /\ T.alarm = S.alarm
            /\ T.fence = S.fence /\ T.queue = S.queue
<1> DEFINE T == [S EXCEPT !.fwaits[c] = F]
<1>1. Shaped(S) /\ Sleepers(S) /\ Pending(S) /\ \A d \in Client \ conn : Away(S, d)
  BY DEF Sound
<1>2. T = [counter |-> S.counter, alarm |-> S.alarm, fence |-> S.fence,
           waits |-> S.waits, fwaits |-> [S.fwaits EXCEPT ![c] = F], queue |-> S.queue]
  BY <1>1, Parts
<1> HIDE DEF T
<1>3. /\ T.counter = S.counter /\ T.alarm = S.alarm /\ T.fence = S.fence
      /\ T.waits = S.waits /\ T.fwaits = [S.fwaits EXCEPT ![c] = F] /\ T.queue = S.queue
  BY <1>2
<1>4. S.fwaits \in [Client -> SUBSET Fence]
  BY <1>1, Parts
<1>5. T.fwaits \in [Client -> SUBSET Fence] /\ T.fwaits[c] = F
      /\ \A d \in Client \ {c} : T.fwaits[d] = S.fwaits[d]
  BY <1>3, <1>4
<1>6. Shaped(T)
  BY <1>1, <1>2, <1>3, <1>5, Parts DEF Shaped, TableSet
<1>7. Sleepers(T)
  BY <1>1, <1>3, <1>5 DEF Sleepers
<1>8. Pending(T)
  BY <1>1, <1>3 DEF Pending, Pends
<1>9. \A d \in Client \ conn : Away(T, d)
  BY <1>1, <1>3, <1>5 DEF Away
<1> QED
  BY <1>3, <1>6, <1>7, <1>8, <1>9 DEF Sound, T

(* A fence that is triggered or goes away. *)
FenceEnded(S, f, v) == [S EXCEPT !.fence[f] = v, !.fwaits = FenceWaitsEnded(S, f)]

LEMMA FenceEnds ==
  ASSUME NEW S, NEW conn, Sound(S, conn), NEW f \in Fence, NEW v \in {"none", "triggered"}
  PROVE  LET T == FenceEnded(S, f, v)
         IN /\ Sound(T, conn) /\ T.counter = S.counter /\ T.alarm = S.alarm
            /\ T.fence = [S.fence EXCEPT ![f] = v] /\ T.queue = S.queue
<1> DEFINE T == FenceEnded(S, f, v)
<1>1. Shaped(S) /\ Sleepers(S) /\ Pending(S) /\ \A d \in Client \ conn : Away(S, d)
  BY DEF Sound
<1> DEFINE fe == [S.fence EXCEPT ![f] = v]
           fw == FenceWaitsEnded(S, f)
<1>0. T = [S EXCEPT !.fence = fe, !.fwaits = fw]
  <2>1. S = [counter |-> S.counter, alarm |-> S.alarm, fence |-> S.fence, waits |-> S.waits,
             fwaits |-> S.fwaits, queue |-> S.queue]
    BY <1>1, Parts
  <2> QED
    BY <2>1 DEF FenceEnded
<1> HIDE DEF fe, fw, T
<1>2. T = [counter |-> S.counter, alarm |-> S.alarm, fence |-> fe,
           waits |-> S.waits, fwaits |-> fw, queue |-> S.queue]
  <2>1. PICK co, al, fc, wa, fx, qu :
             /\ S = [counter |-> co, alarm |-> al, fence |-> fc, waits |-> wa, fwaits |-> fx, queue |-> qu]
             /\ co = S.counter /\ al = S.alarm /\ wa = S.waits /\ qu = S.queue
    BY <1>1, Parts
  <2> QED
    BY <1>0, <2>1
<1>3. /\ T.counter = S.counter /\ T.alarm = S.alarm /\ T.fence = [S.fence EXCEPT ![f] = v]
      /\ T.waits = S.waits /\ T.queue = S.queue
      /\ T.fwaits = [d \in Client |-> IF f \in S.fwaits[d] THEN {} ELSE S.fwaits[d]]
  BY <1>2 DEF FenceWaitsEnded, fe, fw
<1>4. S.fwaits \in [Client -> SUBSET Fence] /\ S.fence \in [Fence -> {"none", "reset", "triggered"}]
  BY <1>1, Parts
<1>5. /\ T.fwaits \in [Client -> SUBSET Fence] /\ T.fence \in [Fence -> {"none", "reset", "triggered"}]
      /\ \A d \in Client : T.fwaits[d] = IF f \in S.fwaits[d] THEN {} ELSE S.fwaits[d]
      /\ \A g \in Fence \ {f} : T.fence[g] = S.fence[g]
  BY <1>3, <1>4
<1>6. Shaped(T)
  BY <1>1, <1>2, <1>3, <1>5, Parts DEF Shaped, TableSet
<1>7. Sleepers(T)
  <2>1. \A d \in Client : \A g \in T.fwaits[d] : g \in Fence \ {f} /\ g \in S.fwaits[d]
    BY <1>4, <1>5
  <2>2. \A d \in Client : \A g \in T.fwaits[d] : T.fence[g] = "reset"
    BY <1>1, <1>5, <2>1 DEF Sleepers
  <2> QED
    BY <1>1, <1>3, <2>2 DEF Sleepers
<1>8. Pending(T)
  BY <1>1, <1>3 DEF Pending, Pends
<1>9. \A d \in Client \ conn : Away(T, d)
  BY <1>1, <1>3, <1>5 DEF Away
<1> QED
  BY <1>3, <1>6, <1>7, <1>8, <1>9 DEF Sound, T
LEMMA CounterMade ==
  ASSUME NEW S, NEW conn, Sound(S, conn), NEW x \in Counter, S.counter[x] = None, NEW v \in Value
  PROVE  Sound([S EXCEPT !.counter[x] = v], conn)
<1> DEFINE T == [S EXCEPT !.counter[x] = v]
<1>1. Shaped(S) /\ Sleepers(S) /\ Pending(S) /\ \A d \in Client \ conn : Away(S, d)
  BY DEF Sound
<1>2. T = [counter |-> [S.counter EXCEPT ![x] = v], alarm |-> S.alarm, fence |-> S.fence,
           waits |-> S.waits, fwaits |-> S.fwaits, queue |-> S.queue]
  BY <1>1, Parts
<1> HIDE DEF T
<1>3. /\ T.counter = [S.counter EXCEPT ![x] = v] /\ T.alarm = S.alarm /\ T.fence = S.fence
      /\ T.waits = S.waits /\ T.fwaits = S.fwaits /\ T.queue = S.queue
  BY <1>2
<1>4. /\ S.counter \in [Counter -> Value \cup {None}] /\ S.waits \in [Client -> Conditions]
      /\ S.alarm \in [Alarm -> AlarmRecord \cup {None}]
  BY <1>1, Parts
<1>5. /\ T.counter \in [Counter -> Value \cup {None}]
      /\ \A y \in Counter : S.counter[y] # None => T.counter[y] = S.counter[y]
  BY <1>1, <1>3, <1>4
<1>6. Shaped(T)
  BY <1>1, <1>2, <1>3, <1>5, Parts DEF Shaped, TableSet
<1>7. Sleepers(T)
  <2>1. ASSUME NEW d \in Client, NEW i \in DOMAIN S.waits[d]
        PROVE  Sleeps(S.waits[d][i], T.counter[S.waits[d][i].counter])
    <3>1. S.waits[d][i].counter \in Counter
      BY <1>4, <2>1, ConditionParts
    <3>2. Sleeps(S.waits[d][i], S.counter[S.waits[d][i].counter])
      BY <1>1, <2>1 DEF Sleepers
    <3>3. S.counter[S.waits[d][i].counter] # None
      BY <3>2 DEF Sleeps
    <3> QED
      BY <1>5, <3>1, <3>2, <3>3
  <2> QED
    BY <1>1, <1>3, <2>1 DEF Sleepers
<1>8. Pending(T)
  <2> SUFFICES ASSUME NEW a \in Alarm, S.alarm[a] # None PROVE Pends(T, S.alarm[a])
    BY <1>1, <1>3 DEF Pending
  <2>1. S.alarm[a] \in AlarmRecord /\ Pends(S, S.alarm[a])
    BY <1>1, <1>4 DEF Pending
  <2>2. S.alarm[a].counter \in Counter \cup {None}
    BY <2>1, AlarmParts
  <2> QED
    BY <1>5, <2>1, <2>2 DEF Pends
<1>9. \A d \in Client \ conn : Away(T, d)
  BY <1>1, <1>3 DEF Away
<1> QED
  BY <1>6, <1>7, <1>8, <1>9 DEF Sound, T

LEMMA FenceSet ==
  ASSUME NEW S, NEW conn, Sound(S, conn), NEW f \in Fence, S.fence[f] # "reset",
         NEW v \in {"reset", "triggered"}
  PROVE  Sound([S EXCEPT !.fence[f] = v], conn)
<1> DEFINE T == [S EXCEPT !.fence[f] = v]
<1>1. Shaped(S) /\ Sleepers(S) /\ Pending(S) /\ \A d \in Client \ conn : Away(S, d)
  BY DEF Sound
<1>2. T = [counter |-> S.counter, alarm |-> S.alarm, fence |-> [S.fence EXCEPT ![f] = v],
           waits |-> S.waits, fwaits |-> S.fwaits, queue |-> S.queue]
  BY <1>1, Parts
<1> HIDE DEF T
<1>3. /\ T.counter = S.counter /\ T.alarm = S.alarm /\ T.fence = [S.fence EXCEPT ![f] = v]
      /\ T.waits = S.waits /\ T.fwaits = S.fwaits /\ T.queue = S.queue
  BY <1>2
<1>4. S.fwaits \in [Client -> SUBSET Fence] /\ S.fence \in [Fence -> {"none", "reset", "triggered"}]
  BY <1>1, Parts
<1>5. /\ T.fence \in [Fence -> {"none", "reset", "triggered"}]
      /\ \A g \in Fence : S.fence[g] = "reset" => T.fence[g] = "reset"
  BY <1>3, <1>4
<1>6. Shaped(T)
  BY <1>1, <1>2, <1>3, <1>5, Parts DEF Shaped, TableSet
<1>7. Sleepers(T)
  <2>1. \A d \in Client : \A g \in S.fwaits[d] : T.fence[g] = "reset"
    BY <1>1, <1>4, <1>5 DEF Sleepers
  <2> QED
    BY <1>1, <1>3, <2>1 DEF Sleepers
<1>8. Pending(T)
  BY <1>1, <1>3 DEF Pending, Pends
<1>9. \A d \in Client \ conn : Away(T, d)
  BY <1>1, <1>3 DEF Away
<1> QED
  BY <1>6, <1>7, <1>8, <1>9 DEF Sound, T
-----------------------------------------------------------------------------
(* The requests.                                                           *)

LEMMA Now ==
  ASSUME IInv
  PROVE  /\ connected \subseteq Client /\ Sound(Tables, connected) /\ OwnersStay(Tables, connected)
         /\ Shaped(Tables)
         /\ counter \in [Counter -> Value \cup {None}]
         /\ alarm \in [Alarm -> AlarmRecord \cup {None}]
         /\ fence \in [Fence -> {"none", "reset", "triggered"}]
         /\ waits \in [Client -> Conditions] /\ fwaits \in [Client -> SUBSET Fence]
         /\ queue \in [Client -> Events]
<1>1. connected \subseteq Client /\ Sound(Tables, connected) /\ OwnersStay(Tables, connected)
      /\ Shaped(Tables)
  BY DEF IInv, Sound
<1> QED
  BY <1>1, Parts, Views

LEMMA CreateCounterStep ==
  ASSUME IInv, NEW c \in Client, NEW x \in Counter, NEW v \in Value, CreateCounter(c, x, v)
  PROVE  IInv' /\ ExactlyAdvanced
<1>1. /\ c \in connected /\ Owner[x] = c /\ counter[x] = None
      /\ counter' = [counter EXCEPT ![x] = v] /\ connected' = connected
      /\ alarm' = alarm /\ fence' = fence /\ waits' = waits /\ fwaits' = fwaits /\ queue' = queue
  BY DEF CreateCounter, Reads
<1>2. Tables' = [Tables EXCEPT !.counter[x] = v]
  BY <1>1 DEF Tables
<1>3. Sound([Tables EXCEPT !.counter[x] = v], connected)
  BY <1>1, Now, Views, CounterMade
<1>4. Sound(Tables', connected')
  BY <1>1, <1>2, <1>3
<1>5. OwnersStay(Tables', connected')
  <2>1. OwnersStay(Tables, connected)
    BY Now
  <2> QED
    BY <1>1, <2>1, Now, Views DEF OwnersStay, Tables
<1>6. IInv'
  BY <1>1, <1>4, <1>5, Now DEF IInv
<1>7. ExactlyAdvanced
  BY <1>1, Now, OthersAreExact
<1> QED
  BY <1>6, <1>7

LEMMA UpdateSteps ==
  ASSUME IInv, NEW c \in Client, NEW x \in Counter, NEW v \in Value,
         SetCounter(c, x, v) \/ ChangeCounter(c, x, v) \/ DestroyCounter(c, x)
  PROVE  IInv' /\ ExactlyAdvanced
<1>1. ASSUME NEW new \in Value \cup {None}, counter[x] # None,
             finish_update(c, update_sync_counter(Tables, x, new), UpdatePlan(Tables, x, new))
      PROVE  IInv' /\ ExactlyAdvanced
  BY <1>1, UpdateStep, UpdatesAreExact
<1>2. CASE SetCounter(c, x, v)
  BY <1>1, <1>2 DEF SetCounter
<1>3. CASE ChangeCounter(c, x, v)
  <2>1. checked_add(counter[x], v) \in Value \cup {None}
    BY DEF checked_add
  <2> QED
    BY <1>1, <1>3, <2>1 DEF ChangeCounter
<1>4. CASE DestroyCounter(c, x)
  BY <1>1, <1>4 DEF DestroyCounter
<1> QED
  BY <1>2, <1>3, <1>4
(* A request that leaves the counters alone. *)
LEMMA QuietFinish ==
  ASSUME IInv, NEW c \in Client, NEW S, Sound(S, connected), OwnersStay(S, connected),
         S.queue = queue, S.counter = counter, NEW plan, PlanFor(plan, connected),
         finish_update(c, S, plan)
  PROVE  IInv' /\ ExactlyAdvanced
<1>1. IInv' /\ counter' = counter
  BY Now, FinishStep
<1> QED
  BY <1>1, OthersAreExact

LEMMA AwaitStep ==
  ASSUME IInv, NEW c \in Client, "await" \in Ops, AwaitOp(c)
  PROVE  IInv' /\ ExactlyAdvanced
<1> DEFINE Asked(x) == {Requested(x, wait, relative, type, threshold) :
                          wait \in WaitValue, relative \in BOOLEAN, type \in WaitType,
                          threshold \in Threshold}
<1>1. PICK n \in 1..MaxConditions :
        \E w \in [1..n -> UNION {Asked(x) : x \in {y \in Counter : counter[y] # None}}] : Await(c, w)
  BY DEF AwaitOp
<1>2. PICK w \in [1..n -> UNION {Asked(x) : x \in {y \in Counter : counter[y] # None}}] : Await(c, w)
  BY <1>1
<1>3. ASSUME NEW i \in 1..n
      PROVE  w[i] \in Condition /\ counter[w[i].counter] # None
  <2>1. PICK x \in Counter : counter[x] # None /\ w[i] \in Asked(x)
    BY <1>2
  <2>2. PICK wait \in WaitValue, relative \in BOOLEAN, type \in WaitType, threshold \in Threshold :
          w[i] = Requested(x, wait, relative, type, threshold)
    BY <2>1
  <2> DEFINE t == IF relative THEN checked_add(counter[x], wait) ELSE wait
  <2>3. t \in Value \cup {None}
    BY ValueAssumption DEF checked_add
  <2> HIDE DEF t
  <2>4. w[i] = [counter |-> x, type |-> type, threshold |-> threshold, test |-> t]
    BY <2>2 DEF Requested, t
  <2>5. t # None
    <3>1. w[i].test # None
      BY <1>2 DEF Await
    <3> QED
      BY <2>4, <3>1
  <2>6. type \in TestType /\ threshold \in Value
    BY SyncAssumption, ValueAssumption
  <2> QED
    BY <2>1, <2>3, <2>4, <2>5, <2>6 DEF Condition
<1> HIDE DEF Asked
<1>4. w \in Conditions /\ DOMAIN w = 1..n
  <2>1. n \in Nat /\ n <= MaxConditions /\ w = [i \in 1..n |-> w[i]]
    BY <1>2, SyncAssumption
  <2>2. w \in Seq(Condition) /\ Len(w) = n
    BY <1>3, <2>1
  <2> QED
    BY <1>2, <2>1, <2>2 DEF Conditions
<1>5. c \in connected /\ begin_sync_counter_await(c, w)
  BY <1>2 DEF Await, Reads
<1> DEFINE fired == \E i \in DOMAIN w : sync_trigger_fired(w[i], counter[w[i].counter], counter[w[i].counter])
           wanted == {i \in DOMAIN w : sync_notification_eligible(w[i], counter[w[i].counter])}
           plan == [NoEvents EXCEPT ![c] = Numbered(Picked(w, wanted))]
<1>6. CASE fired
  <2>1. finish_update(c, Tables, plan)
    BY <1>5, <1>6 DEF begin_sync_counter_await
  <2>2. PlanFor(plan, connected)
    <3>1. Numbered(Picked(w, wanted)) \in Seq(Event)
      BY <1>4, NumberedIs
    <3> HIDE DEF wanted
    <3>2. PlanFor(NoEvents, connected)
      BY NoEventsPlan
    <3> QED
      BY <1>5, <3>1, <3>2 DEF PlanFor
  <2> HIDE DEF plan
  <2> QED
    BY <2>1, <2>2, Now, Views, QuietFinish
<1>7. CASE ~ fired
  <2>1. finish_update(c, [Tables EXCEPT !.waits[c] = w], NoEvents)
    BY <1>5, <1>7 DEF begin_sync_counter_await
  <2>2. \A i \in DOMAIN w : Sleeps(w[i], Tables.counter[w[i].counter])
    <3> TAKE i \in DOMAIN w
    <3>1. w[i].type \in TestType /\ counter[w[i].counter] # None
      BY <1>3, <1>4 DEF Condition
    <3>2. ~ sync_trigger_fired(w[i], counter[w[i].counter], counter[w[i].counter])
      BY <1>7
    <3>3. Comparison(w[i].type) => ~ Reached(w[i], counter[w[i].counter])
      BY <3>1, <3>2, FiredIs
    <3> QED
      BY <3>1, <3>3, Views DEF Sleeps
  <2>3. PICK S : S = [Tables EXCEPT !.waits[c] = w]
    OBVIOUS
  <2>4. /\ Sound(S, connected) /\ S.counter = Tables.counter /\ S.alarm = Tables.alarm
        /\ S.fence = Tables.fence /\ S.queue = Tables.queue
    BY <1>4, <1>5, <2>2, <2>3, Now, WaitsSet, SMTT(40)
  <2>5. OwnersStay(S, connected)
    BY <2>4, Now DEF OwnersStay
  <2>6. finish_update(c, S, NoEvents)
    BY <2>1, <2>3 DEF finish_update
  <2> QED
    BY <2>4, <2>5, <2>6, Views, NoEventsPlan, QuietFinish
<1> QED
  BY <1>6, <1>7
LEMMA CommitIs ==
  ASSUME NEW S, Shaped(S), NEW a \in AlarmRecord, Signed(a),
         a.counter # None => S.counter[a.counter] # None
  PROVE  LET r == commit_sync_alarm(S, a).alarm
         IN r \in AlarmRecord /\ Signed(r) /\ Pends(S, r) /\ r.clients = a.clients
<1> DEFINE value == IF a.counter = None THEN None ELSE S.counter[a.counter]
           fresh == [a EXCEPT !.state = IF value = None THEN "inactive" ELSE "active"]
           fired == value # None /\ sync_trigger_fired(a, value, value)
           r == commit_sync_alarm(S, a).alarm
<1>1. r = IF fired THEN advance_alarm(fresh, value) ELSE fresh
  BY DEF commit_sync_alarm
<1>2. a.counter \in Counter \cup {None} /\ S.counter \in [Counter -> Value \cup {None}]
      /\ a.type \in TestType
  BY AlarmParts, Parts
<1>3. value \in Value \cup {None} /\ (value = None <=> a.counter = None)
      /\ (value # None => S.counter[a.counter] = value)
  BY <1>2
<1> HIDE DEF value
<1>4. /\ fresh \in AlarmRecord /\ fresh.type = a.type /\ fresh.test = a.test /\ fresh.delta = a.delta
      /\ fresh.counter = a.counter /\ fresh.clients = a.clients
      /\ fresh.state = IF value = None THEN "inactive" ELSE "active"
  BY DEF AlarmRecord
<1> HIDE DEF fresh, r
<1>5. Signed(fresh) /\ \A v : Reached(fresh, v) <=> Reached(a, v)
  BY <1>4 DEF Signed, Reached
<1>6. CASE fired
  <2>1. value \in Value /\ (Comparison(fresh.type) => Reached(fresh, value))
    BY <1>2, <1>3, <1>4, <1>5, <1>6, FiredIs
  <2>2. r = advance_alarm(fresh, value)
    BY <1>1, <1>6
  <2>3. /\ r \in AlarmRecord /\ r.counter = a.counter /\ r.clients = a.clients /\ Signed(r)
        /\ r.state = "active" /\ Comparison(r.type) => ~ Reached(r, value)
    BY <1>4, <1>5, <2>1, <2>2, AdvanceKeeps
  <2>4. Pends(S, r)
    BY <1>3, <1>6, <2>3 DEF Pends
  <2> QED
    BY <2>3, <2>4 DEF r
<1>7. CASE ~ fired
  <2>1. r = fresh
    BY <1>1, <1>7
  <2>2. value # None /\ Comparison(fresh.type) => ~ Reached(fresh, value)
    BY <1>2, <1>4, <1>5, <1>7, FiredIs
  <2>3. Pends(S, fresh)
    BY <1>3, <1>4, <2>2 DEF Pends
  <2> QED
    BY <1>4, <1>5, <2>1, <2>3 DEF r
<1> QED
  BY <1>6, <1>7

LEMMA ConfigureStep ==
  ASSUME IInv, NEW c \in Client, c \in connected, NEW a \in Alarm, Owner[a] \in connected,
         NEW old \in AlarmRecord, Signed(old), old.counter # None => counter[old.counter] # None,
         \A d \in Client \ connected : d \notin old.clients,
         NEW mask, ConfigureAlarm(c, a, old, mask)
  PROVE  IInv' /\ ExactlyAdvanced
<1>1. PICK x \in Choice(mask, "counter", {y \in Counter : counter[y] # None} \cup {None}, old.counter),
           relative \in Choice(mask, "relative", BOOLEAN, old.relative),
           wait \in Choice(mask, "wait", WaitValue, old.wait),
           type \in Choice(mask, "type", WaitType, old.type),
           delta \in Choice(mask, "delta", WaitValue, old.delta),
           clients \in Choice(mask, "events", {old.clients \cup {c}, old.clients \ {c}}, old.clients) :
        /\ mask \cap {"relative", "wait"} # {} /\ relative => x # None
        /\ LET test == IF mask \cap {"relative", "wait"} = {} THEN old.test
                       ELSE IF relative THEN checked_add(counter[x], wait) ELSE wait
               configured == [counter |-> x, wait |-> wait, relative |-> relative, test |-> test,
                              type |-> type, delta |-> delta, clients |-> clients,
                              state |-> old.state]
               commit == commit_sync_alarm(Tables, configured)
           IN /\ test # None
              /\ mask \cap {"type", "delta"} # {} =>
                   IF Positive(type) THEN delta >= 0 ELSE delta <= 0
              /\ finish_update(c, [Tables EXCEPT !.alarm[a] = commit.alarm],
                               IF commit.fired THEN AlarmEvents(a, clients, commit.alarm.state)
                               ELSE NoEvents)
  BY DEF ConfigureAlarm
<1> DEFINE test == IF mask \cap {"relative", "wait"} = {} THEN old.test
                   ELSE IF relative THEN checked_add(counter[x], wait) ELSE wait
           configured == [counter |-> x, wait |-> wait, relative |-> relative, test |-> test,
                          type |-> type, delta |-> delta, clients |-> clients, state |-> old.state]
           commit == commit_sync_alarm(Tables, configured)
           plan == IF commit.fired THEN AlarmEvents(a, clients, commit.alarm.state) ELSE NoEvents
<1>2. /\ test # None
      /\ mask \cap {"type", "delta"} # {} => IF Positive(type) THEN delta >= 0 ELSE delta <= 0
      /\ finish_update(c, [Tables EXCEPT !.alarm[a] = commit.alarm], plan)
  BY <1>1
<1>3. /\ old.counter \in Counter \cup {None} /\ old.test \in Value /\ old.delta \in Value
      /\ old.wait \in Value /\ old.relative \in BOOLEAN /\ old.type \in TestType
      /\ old.clients \subseteq Client /\ old.state \in {"active", "inactive"}
  BY AlarmParts
<1>4. x \in Counter \cup {None} /\ (x # None => counter[x] # None)
  BY <1>3 DEF Choice
<1>5. relative \in BOOLEAN /\ wait \in Value /\ type \in TestType /\ delta \in Value
  BY <1>3, SyncAssumption, ValueAssumption DEF Choice
<1>6. clients \subseteq Client /\ \A d \in Client \ connected : d \notin clients
  BY <1>3 DEF Choice
<1>7. IF Positive(type) THEN delta >= 0 ELSE delta <= 0
  <2>1. CASE mask \cap {"type", "delta"} # {}
    BY <1>2, <2>1
  <2>2. CASE mask \cap {"type", "delta"} = {}
    <3>1. type = old.type /\ delta = old.delta
      BY <2>2 DEF Choice
    <3> QED
      BY <3>1 DEF Signed
  <2> QED
    BY <2>1, <2>2
<1>8. test \in Value
  BY <1>2, <1>3, <1>5 DEF checked_add
<1> HIDE DEF test
<1>9. /\ configured \in AlarmRecord /\ Signed(configured) /\ configured.clients = clients
      /\ configured.counter = x
  BY <1>3, <1>4, <1>5, <1>6, <1>7, <1>8 DEF AlarmRecord, Signed
<1> HIDE DEF configured
<1>10. /\ commit.alarm \in AlarmRecord /\ Signed(commit.alarm) /\ Pends(Tables, commit.alarm)
       /\ commit.alarm.clients = clients
  BY <1>4, <1>9, Now, Views, CommitIs
<1> DEFINE r == commit.alarm
<1>11. PlanFor(plan, connected)
  <2>1. r.state \in {"active", "inactive"}
    BY <1>10, AlarmParts
  <2>2. PlanFor(AlarmEvents(a, clients, r.state), connected)
    BY <1>6, <2>1, AlarmPlan
  <2> QED
    BY <2>2, NoEventsPlan
<1> HIDE DEF plan, commit
<1>12. PICK S : S = [Tables EXCEPT !.alarm[a] = r]
  OBVIOUS
<1>13. /\ Sound(S, connected) /\ S.counter = Tables.counter /\ S.alarm = [Tables.alarm EXCEPT ![a] = r]
       /\ S.fence = Tables.fence /\ S.queue = Tables.queue
  BY <1>6, <1>10, <1>12, Now, AlarmSet
<1>14. OwnersStay(S, connected)
  <2>1. Tables.alarm \in [Alarm -> AlarmRecord \cup {None}] /\ OwnersStay(Tables, connected)
    BY Now, Views
  <2> QED
    BY <1>13, <2>1 DEF OwnersStay
<1>15. finish_update(c, S, plan)
  BY <1>2, <1>12 DEF finish_update
<1> QED
  BY <1>11, <1>13, <1>14, <1>15, Views, QuietFinish
LEMMA DestroyAlarmStep ==
  ASSUME IInv, NEW c \in Client, NEW a \in Alarm, DestroyAlarm(c, a)
  PROVE  IInv' /\ ExactlyAdvanced
<1>1. c \in connected /\ alarm[a] # None
      /\ finish_update(c, [Tables EXCEPT !.alarm[a] = None], ErasePlan(Tables, a))
  BY DEF DestroyAlarm, Reads
<1>2. PlanFor(ErasePlan(Tables, a), connected)
  <2>1. \A d \in Client \ connected : d \notin Tables.alarm[a].clients
    BY <1>1, Now, Views DEF Sound, Away
  <2> QED
    BY <2>1, AlarmPlan, NoEventsPlan DEF ErasePlan
<1>3. PICK S : S = [Tables EXCEPT !.alarm[a] = None]
  OBVIOUS
<1>4. /\ Sound(S, connected) /\ S.counter = Tables.counter
      /\ S.alarm = [Tables.alarm EXCEPT ![a] = None]
      /\ S.fence = Tables.fence /\ S.queue = Tables.queue
  BY <1>3, Now, AlarmSet, SMTT(40)
<1>5. OwnersStay(S, connected)
  <2>1. Tables.alarm \in [Alarm -> AlarmRecord \cup {None}] /\ OwnersStay(Tables, connected)
    BY Now, Views
  <2> QED
    BY <1>4, <2>1 DEF OwnersStay
<1>6. finish_update(c, S, ErasePlan(Tables, a))
  BY <1>1, <1>3 DEF finish_update
<1> QED
  BY <1>2, <1>4, <1>5, <1>6, Views, QuietFinish

LEMMA AlarmStep ==
  ASSUME IInv, NEW c \in Client, NEW a \in Alarm, AlarmOp(c, a)
  PROVE  IInv' /\ ExactlyAdvanced
<1>1. CASE \E mask \in Masks : CreateAlarm(c, a, mask)
  <2>1. PICK mask \in Masks : CreateAlarm(c, a, mask)
    BY <1>1
  <2>2. c \in connected /\ Owner[a] = c /\ ConfigureAlarm(c, a, NewAlarm(c), mask)
    BY <2>1 DEF CreateAlarm, Reads
  <2>3. 0 \in Value /\ 1 \in Value
    BY Widths
  <2>4. NewAlarm(c) \in AlarmRecord /\ NewAlarm(c).counter = None /\ NewAlarm(c).clients = {c}
        /\ Signed(NewAlarm(c))
    BY <2>3 DEF NewAlarm, AlarmRecord, Signed, Positive, TestType
  <2>5. \A d \in Client \ connected : d \notin NewAlarm(c).clients
    BY <2>2, <2>4
  <2> QED
    BY <2>2, <2>4, <2>5, ConfigureStep
<1>2. CASE \E mask \in Masks : ChangeAlarm(c, a, mask)
  <2>1. PICK mask \in Masks : ChangeAlarm(c, a, mask)
    BY <1>2
  <2>2. c \in connected /\ alarm[a] # None /\ ConfigureAlarm(c, a, alarm[a], mask)
    BY <2>1 DEF ChangeAlarm, Reads
  <2>3. /\ alarm[a] \in AlarmRecord /\ Signed(alarm[a])
        /\ alarm[a].counter # None => counter[alarm[a].counter] # None
    BY <2>2, AlarmOfTables
  <2>4. Owner[a] \in connected /\ \A d \in Client \ connected : d \notin alarm[a].clients
    BY <2>2, Now, Views DEF Sound, Away, OwnersStay
  <2> QED
    BY <2>2, <2>3, <2>4, ConfigureStep
<1>3. CASE DestroyAlarm(c, a)
  BY <1>3, DestroyAlarmStep
<1> QED
  BY <1>1, <1>2, <1>3 DEF AlarmOp

(* A fence made, or set back. *)
LEMMA FenceSetStep ==
  ASSUME IInv, NEW c \in connected, NEW f \in Fence, fence[f] # "reset",
         NEW v \in {"reset", "triggered"}, fence[f] = "none" => Owner[f] = c,
         fence' = [fence EXCEPT ![f] = v],
         UNCHANGED <<connected, counter, alarm, waits, fwaits, queue>>
  PROVE  IInv' /\ ExactlyAdvanced
<1>1. Tables' = [Tables EXCEPT !.fence[f] = v] /\ connected' = connected
  BY DEF Tables
<1>2. Sound([Tables EXCEPT !.fence[f] = v], connected)
  BY Now, Views, FenceSet
<1>3. Sound(Tables', connected')
  BY <1>1, <1>2
<1>4. OwnersStay(Tables', connected')
  <2>1. OwnersStay(Tables, connected)
    BY Now
  <2> QED
    BY <2>1, Now, Views DEF OwnersStay, Tables
<1>5. IInv'
  BY <1>1, <1>3, <1>4, Now DEF IInv
<1>6. ExactlyAdvanced
  BY Now, OthersAreExact
<1> QED
  BY <1>5, <1>6

LEMMA FenceEndStep ==
  ASSUME IInv, NEW c \in Client, NEW f \in Fence, NEW v \in {"none", "triggered"}, fence[f] # "none",
         finish_update(c, [Tables EXCEPT !.fence[f] = v, !.fwaits = FenceWaitsEnded(Tables, f)],
                       NoEvents)
  PROVE  IInv' /\ ExactlyAdvanced
<1> DEFINE S == FenceEnded(Tables, f, v)
<1>1. /\ Sound(S, connected) /\ S.counter = Tables.counter /\ S.alarm = Tables.alarm
      /\ S.fence = [Tables.fence EXCEPT ![f] = v] /\ S.queue = Tables.queue
  BY Now, FenceEnds, ZenonT(60)
<1>2. finish_update(c, S, NoEvents)
  BY DEF FenceEnded
<1> HIDE DEF S
<1>3. OwnersStay(S, connected)
  <2>1. /\ Tables.fence \in [Fence -> {"none", "reset", "triggered"}] /\ OwnersStay(Tables, connected)
        /\ Tables.fence[f] # "none"
    BY Now, Views
  <2> QED
    BY <1>1, <2>1 DEF OwnersStay
<1> QED
  BY <1>1, <1>2, <1>3, Views, NoEventsPlan, QuietFinish

LEMMA AwaitFenceStep ==
  ASSUME IInv, NEW c \in Client, NEW F \in SUBSET Fence, AwaitFence(c, F)
  PROVE  IInv' /\ ExactlyAdvanced
<1>1. c \in connected /\ (\A f \in F : fence[f] # "none") /\ begin_sync_fence_await(c, F)
  BY DEF AwaitFence, Reads
<1>2. CASE \E f \in F : fence[f] = "triggered"
  <2>1. finish_update(c, Tables, NoEvents)
    BY <1>1, <1>2 DEF begin_sync_fence_await
  <2> QED
    BY <2>1, Now, Views, NoEventsPlan, QuietFinish
<1>3. CASE ~ \E f \in F : fence[f] = "triggered"
  <2>1. finish_update(c, [Tables EXCEPT !.fwaits[c] = F], NoEvents)
    BY <1>1, <1>3 DEF begin_sync_fence_await
  <2>2. \A f \in F : Tables.fence[f] = "reset"
    BY <1>1, <1>3, Now, Views
  <2>3. PICK S : S = [Tables EXCEPT !.fwaits[c] = F]
    OBVIOUS
  <2>4. /\ Sound(S, connected) /\ S.counter = Tables.counter /\ S.alarm = Tables.alarm
        /\ S.fence = Tables.fence /\ S.queue = Tables.queue
    BY <1>1, <2>2, <2>3, Now, FenceWaitsSet
  <2>5. OwnersStay(S, connected)
    BY <2>4, Now DEF OwnersStay
  <2>6. finish_update(c, S, NoEvents)
    BY <2>1, <2>3 DEF finish_update
  <2> QED
    BY <2>4, <2>5, <2>6, Views, NoEventsPlan, QuietFinish
<1> QED
  BY <1>2, <1>3

LEMMA FenceStep ==
  ASSUME IInv, NEW c \in Client, FenceOp(c)
  PROVE  IInv' /\ ExactlyAdvanced
<1>1. ASSUME NEW f \in Fence, NEW triggered \in BOOLEAN, CreateFence(c, f, triggered)
      PROVE  IInv' /\ ExactlyAdvanced
  BY <1>1, FenceSetStep DEF CreateFence, Reads
<1>2. ASSUME NEW f \in Fence, TriggerFence(c, f) PROVE IInv' /\ ExactlyAdvanced
  BY <1>2, FenceEndStep DEF TriggerFence
<1>3. ASSUME NEW f \in Fence, ResetFence(c, f) PROVE IInv' /\ ExactlyAdvanced
  BY <1>3, FenceSetStep DEF ResetFence, Reads
<1>4. ASSUME NEW f \in Fence, DestroyFence(c, f) PROVE IInv' /\ ExactlyAdvanced
  BY <1>4, FenceEndStep DEF DestroyFence
<1>5. ASSUME NEW F \in SUBSET Fence, AwaitFence(c, F) PROVE IInv' /\ ExactlyAdvanced
  BY <1>5, AwaitFenceStep
<1>6. \/ \E f \in Fence : \/ \E triggered \in BOOLEAN : CreateFence(c, f, triggered)
                           \/ TriggerFence(c, f) \/ ResetFence(c, f) \/ DestroyFence(c, f)
      \/ \E F \in SUBSET Fence : AwaitFence(c, F)
  BY DEF FenceOp
<1> QED
  BY <1>1, <1>2, <1>3, <1>4, <1>5, <1>6
LEMMA DrainStep ==
  ASSUME IInv, NEW c \in Client, Drain(c)
  PROVE  IInv' /\ ExactlyAdvanced
<1>1. /\ queue' = [queue EXCEPT ![c] = <<>>] /\ connected' = connected /\ counter' = counter
      /\ alarm' = alarm /\ fence' = fence /\ waits' = waits /\ fwaits' = fwaits
  BY DEF Drain
<1>2. PICK T : T = [counter |-> counter, alarm |-> alarm, fence |-> fence, waits |-> waits,
                    fwaits |-> fwaits, queue |-> [queue EXCEPT ![c] = <<>>]]
  OBVIOUS
<1>3. /\ T.counter = Tables.counter /\ T.alarm = Tables.alarm /\ T.fence = Tables.fence
      /\ T.waits = Tables.waits /\ T.fwaits = Tables.fwaits
      /\ T.queue = [Tables.queue EXCEPT ![c] = <<>>]
      /\ T = [counter |-> T.counter, alarm |-> T.alarm, fence |-> T.fence, waits |-> T.waits,
              fwaits |-> T.fwaits, queue |-> T.queue]
  BY <1>2, Views
<1>4. Tables.queue \in [Client -> Events] /\ <<>> \in Events
  BY Now, Views, SyncAssumption, EmptySeq DEF Events
<1>5. T.queue \in [Client -> Events]
  BY <1>3, <1>4
<1>6. \A d \in Client \ connected : T.queue[d] = <<>>
  <2>1. \A d \in Client \ connected : Tables.queue[d] = <<>>
    BY Now DEF Sound, Away
  <2> QED
    BY <1>3, <1>4, <2>1
<1>7. Sound(T, connected)
  BY <1>3, <1>5, <1>6, Now, QueuesOnly
<1>8. Tables' = T
  BY <1>1, <1>2 DEF Tables
<1>9. OwnersStay(T, connected)
  BY <1>3, Now DEF OwnersStay
<1>10. IInv'
  BY <1>1, <1>7, <1>8, <1>9, Now DEF IInv
<1> QED
  BY <1>1, <1>10, OthersAreExact

LEMMA RegisterStep ==
  ASSUME IInv, NEW c \in Client, register_client(c)
  PROVE  IInv' /\ ExactlyAdvanced
<1>1. /\ connected' = connected \cup {c} /\ counter' = counter /\ alarm' = alarm /\ fence' = fence
      /\ waits' = waits /\ fwaits' = fwaits /\ queue' = queue
  BY DEF register_client
<1>2. Tables' = Tables
  BY <1>1 DEF Tables
<1>3. Sound(Tables, connected') /\ OwnersStay(Tables, connected')
  BY <1>1, Now DEF Sound, OwnersStay
<1>4. IInv'
  BY <1>1, <1>2, <1>3, Now DEF IInv
<1> QED
  BY <1>1, <1>4, OthersAreExact
-----------------------------------------------------------------------------
(* A client leaves.                                                        *)

LEMMA ListedOnce ==
  ASSUME NEW S, IsFiniteSet(S), NEW p \in SetToSeqs(S)
  PROVE  /\ p \in Seq(S)
         /\ \A i, j \in 1..Len(p) : p[i] = p[j] => i = j
         /\ \A s \in S : \E i \in 1..Len(p) : p[i] = s
<1> DEFINE k == Cardinality(S)
<1>1. k \in Nat
  BY FS_CardinalityType
<1>2. p \in [1..k -> S] /\ \A i, j \in 1..k : i # j => p[i] # p[j]
  BY DEF SetToSeqs
<1> HIDE DEF k
<1>3. p \in Seq(S) /\ Len(p) = k
  BY <1>1, <1>2
<1>4. p \in Injection(1..k, S)
  BY <1>2 DEF Injection, IsInjective
<1>5. p \in Surjection(1..k, S)
  <2>1. IsFiniteSet(1..k) /\ Cardinality(1..k) = k
    BY <1>1, FS_Interval
  <2>2. Cardinality(1..k) = Cardinality(S)
    BY <2>1 DEF k
  <2> QED
    BY <1>4, <2>1, <2>2, FS_Injection
<1>6. \A s \in S : \E i \in 1..k : p[i] = s
  BY <1>5 DEF Surjection
<1> QED
  BY <1>2, <1>3, <1>6

LEMMA Joined ==
  ASSUME NEW P, NEW p \in Seq(P), NEW q \in Seq(P)
  PROVE  /\ p \o q \in Seq(P) /\ Len(p \o q) = Len(p) + Len(q) /\ Len(p) \in Nat /\ Len(q) \in Nat
         /\ \A i \in 1..Len(p) : (p \o q)[i] = p[i]
         /\ \A i \in 1..Len(q) : (p \o q)[Len(p) + i] = q[i]
         /\ \A i \in 1..Len(p \o q) : i \in 1..Len(p) \/ i - Len(p) \in 1..Len(q)
  BY ConcatProperties, LenProperties
(* A list of all of a set, each once. *)
Lists(p, S) ==
  /\ p \in Seq(S) /\ Len(p) \in Nat
  /\ \A i \in 1..Len(p) : p[i] \in S
  /\ \A i, j \in 1..Len(p) : p[i] = p[j] => i = j
  /\ \A s \in S : \E i \in 1..Len(p) : p[i] = s

LEMMA ListsOnce ==
  ASSUME NEW S, IsFiniteSet(S), NEW p \in SetToSeqs(S)
  PROVE  Lists(p, S)
<1>1. p \in Seq(S)
  BY ListedOnce
<1>2. Len(p) \in Nat /\ \A i \in 1..Len(p) : p[i] \in S
  BY <1>1, LenProperties, ElementOfSeq
<1> QED
  BY <1>1, <1>2, ListedOnce, SMTT(40) DEF Lists

LEMMA ListsJoined ==
  ASSUME NEW A, NEW B, A \cap B = {}, NEW p, Lists(p, A), NEW q, Lists(q, B)
  PROVE  Lists(p \o q, A \cup B)
<1> DEFINE r == p \o q
           m == Len(p)
           k == Len(q)
<1>1. /\ p \in Seq(A \cup B) /\ q \in Seq(A \cup B) /\ m \in Nat /\ k \in Nat
      /\ \A i \in 1..m : p[i] \in A
      /\ \A i \in 1..k : q[i] \in B
      /\ \A i, j \in 1..m : p[i] = p[j] => i = j
      /\ \A i, j \in 1..k : q[i] = q[j] => i = j
      /\ \A s \in A : \E i \in 1..m : p[i] = s
      /\ \A s \in B : \E i \in 1..k : q[i] = s
  BY DEF Lists
<1>2. /\ r \in Seq(A \cup B) /\ Len(r) = m + k
      /\ \A i \in 1..m : r[i] = p[i]
      /\ \A i \in 1..k : r[m + i] = q[i]
  BY <1>1, Joined
<1> HIDE DEF r, m, k
<1>3. \A i \in 1..(m + k) : \/ i \in 1..m /\ r[i] = p[i] /\ p[i] \in A
                            \/ i - m \in 1..k /\ r[i] = q[i - m] /\ q[i - m] \in B
  <2> TAKE i \in 1..(m + k)
  <2>1. CASE i <= m
    BY <1>1, <1>2, <2>1
  <2>2. CASE i > m
    <3> DEFINE d == i - m
    <3>1. d \in 1..k /\ i = m + d
      BY <1>1, <2>2
    <3> HIDE DEF d
    <3>2. r[i] = q[d] /\ q[d] \in B
      BY <1>1, <1>2, <3>1
    <3> QED
      BY <3>1, <3>2 DEF d
  <2> QED
    BY <1>1, <2>1, <2>2
<1>4. ASSUME NEW i \in 1..(m + k), NEW j \in 1..(m + k), r[i] = r[j] PROVE i = j
  <2>1. CASE i \in 1..m /\ r[i] = p[i] /\ p[i] \in A /\ j \in 1..m /\ r[j] = p[j]
    BY <1>1, <1>4, <2>1, ZenonT(60)
  <2>2. CASE /\ i - m \in 1..k /\ r[i] = q[i - m] /\ j - m \in 1..k /\ r[j] = q[j - m]
    <3>1. i - m = j - m
      BY <1>1, <1>4, <2>2
    <3> QED
      BY <1>1, <3>1
  <2>3. ~ (r[i] \in A /\ r[j] \in B) /\ ~ (r[i] \in B /\ r[j] \in A)
    BY <1>4
  <2> QED
    BY <1>3, <2>1, <2>2, <2>3
<1>5. ASSUME NEW s \in A \cup B PROVE \E i \in 1..(m + k) : r[i] = s
  <2>1. CASE s \in A
    <3>1. PICK i \in 1..m : p[i] = s
      BY <1>1, <2>1
    <3> QED
      BY <1>1, <1>2, <3>1
  <2>2. CASE s \in B
    <3>1. PICK i \in 1..k : q[i] = s
      BY <1>1, <2>2
    <3>2. m + i \in 1..(m + k) /\ r[m + i] = s
      BY <1>1, <1>2, <3>1
    <3> QED
      BY <3>2
  <2> QED
    BY <2>1, <2>2
<1>6. \A i \in 1..(m + k) : r[i] \in A \cup B
  BY <1>3
<1>7. Lists(r, A \cup B)
  BY <1>1, <1>2, <1>4, <1>5, <1>6 DEF Lists
<1> QED
  BY <1>7 DEF r
(* The client's own waits, its queue and its part in alarms are gone. *)
LEMMA WithoutClientIs ==
  ASSUME NEW S, NEW conn, Sound(S, conn), NEW c \in Client
  PROVE  LET T == WithoutClient(S, c)
         IN /\ Sound(T, conn \ {c}) /\ T.counter = S.counter /\ T.fence = S.fence
            /\ \A a \in Alarm : T.alarm[a] = None <=> S.alarm[a] = None
<1> DEFINE wa == [S.waits EXCEPT ![c] = <<>>]
           fw == [S.fwaits EXCEPT ![c] = {}]
           qu == [S.queue EXCEPT ![c] = <<>>]
           al == [a \in Alarm |-> IF S.alarm[a] = None THEN None
                                  ELSE [S.alarm[a] EXCEPT !.clients = @ \ {c}]]
           T == WithoutClient(S, c)
<1>1. Shaped(S) /\ Sleepers(S) /\ Pending(S) /\ \A d \in Client \ conn : Away(S, d)
  BY DEF Sound
<1>2. T = [S EXCEPT !.waits = wa, !.fwaits = fw, !.queue = qu, !.alarm = al]
  <2>1. S = [counter |-> S.counter, alarm |-> S.alarm, fence |-> S.fence, waits |-> S.waits,
             fwaits |-> S.fwaits, queue |-> S.queue]
    BY <1>1, Parts
  <2> QED
    BY <2>1 DEF WithoutClient
<1> HIDE DEF wa, fw, qu, al, T
<1>3. T = [counter |-> S.counter, alarm |-> al, fence |-> S.fence, waits |-> wa,
           fwaits |-> fw, queue |-> qu]
  <2>1. PICK co, a1, fc, w1, fx, q1 :
             /\ S = [counter |-> co, alarm |-> a1, fence |-> fc, waits |-> w1, fwaits |-> fx, queue |-> q1]
             /\ co = S.counter /\ fc = S.fence
    BY <1>1, Parts
  <2> QED
    BY <1>2, <2>1
<1>4. /\ T.counter = S.counter /\ T.fence = S.fence /\ T.waits = wa /\ T.fwaits = fw /\ T.queue = qu
      /\ T.alarm = al
  BY <1>3
<1>5. /\ S.waits \in [Client -> Conditions] /\ S.fwaits \in [Client -> SUBSET Fence]
      /\ S.queue \in [Client -> Events] /\ S.alarm \in [Alarm -> AlarmRecord \cup {None}]
  BY <1>1, Parts
<1>6. <<>> \in Conditions /\ <<>> \in Events
  BY SyncAssumption, EmptySeq DEF Conditions, Events
<1>7. wa \in [Client -> Conditions] /\ wa[c] = <<>> /\ \A d \in Client \ {c} : wa[d] = S.waits[d]
  BY <1>5, <1>6 DEF wa
<1>8. fw \in [Client -> SUBSET Fence] /\ fw[c] = {} /\ \A d \in Client \ {c} : fw[d] = S.fwaits[d]
  BY <1>5 DEF fw
<1>9. qu \in [Client -> Events] /\ qu[c] = <<>> /\ \A d \in Client \ {c} : qu[d] = S.queue[d]
  BY <1>5, <1>6 DEF qu
<1>10. \A a \in Alarm : al[a] = IF S.alarm[a] = None THEN None
                                ELSE [S.alarm[a] EXCEPT !.clients = @ \ {c}]
  BY DEF al
<1>11. ASSUME NEW a \in Alarm, S.alarm[a] # None
       PROVE  /\ al[a] \in AlarmRecord /\ al[a] # None /\ Pends(T, al[a]) /\ Signed(al[a])
              /\ al[a].clients = S.alarm[a].clients \ {c}
  <2> DEFINE b == S.alarm[a]
             r == [b EXCEPT !.clients = @ \ {c}]
  <2>1. b \in AlarmRecord /\ Pends(S, b) /\ Signed(b) /\ al[a] = r
    BY <1>1, <1>5, <1>10, <1>11 DEF Pending
  <2> HIDE DEF b
  <2>2. r \in AlarmRecord
    BY <2>1 DEF AlarmRecord
  <2>3. /\ r.counter = b.counter /\ r.type = b.type /\ r.test = b.test /\ r.delta = b.delta
        /\ r.state = b.state /\ r.clients = b.clients \ {c}
    BY <2>1 DEF AlarmRecord
  <2> HIDE DEF r
  <2>4. Pends(T, r) /\ Signed(r)
    BY <1>4, <2>1, <2>3 DEF Pends, Signed, Reached
  <2> QED
    BY <2>1, <2>2, <2>3, <2>4, NoneIsOutside DEF b
<1>12. \A a \in Alarm : S.alarm[a] = None => al[a] = None
  BY <1>10
<1>13. al \in [Alarm -> AlarmRecord \cup {None}]
  <2>1. \A a \in Alarm : al[a] \in AlarmRecord \cup {None}
    BY <1>11, <1>12
  <2> QED
    BY <2>1 DEF al
<1>14. Shaped(T)
  BY <1>1, <1>3, <1>7, <1>8, <1>9, <1>13, Parts DEF Shaped, TableSet
<1>15. Sleepers(T)
  <2>1. ASSUME NEW d \in Client, NEW i \in DOMAIN wa[d] PROVE d # c
    <3>1. DOMAIN <<>> = {}
      OBVIOUS
    <3> QED
      BY <1>7, <2>1, <3>1
  <2>2. ASSUME NEW d \in Client, NEW i \in DOMAIN wa[d]
        PROVE  Sleeps(wa[d][i], S.counter[wa[d][i].counter])
    BY <1>1, <1>7, <2>1, <2>2 DEF Sleepers
  <2>3. \A d \in Client : \A f \in fw[d] : S.fence[f] = "reset"
    BY <1>1, <1>8 DEF Sleepers
  <2> QED
    BY <1>4, <2>2, <2>3 DEF Sleepers
<1>16. Pending(T)
  BY <1>4, <1>11, <1>12 DEF Pending
<1>17. ASSUME NEW d \in Client \ (conn \ {c}) PROVE Away(T, d)
  <2>1. d = c \/ Away(S, d)
    BY <1>1
  <2>2. wa[d] = <<>> /\ fw[d] = {} /\ qu[d] = <<>>
    BY <1>7, <1>8, <1>9, <2>1 DEF Away
  <2>3. \A a \in Alarm : al[a] # None => d \notin al[a].clients
    BY <1>11, <1>12, <2>1 DEF Away
  <2> QED
    BY <1>4, <2>2, <2>3 DEF Away
<1>18. Sound(T, conn \ {c})
  BY <1>14, <1>15, <1>16, <1>17 DEF Sound
<1> QED
  BY <1>4, <1>11, <1>12, <1>18 DEF T
(* What each Gone does to a sound state. *)
LEMMA AlarmGoneIs ==
  ASSUME NEW S, NEW conn, Sound(S, conn), NEW a \in Alarm, S.alarm[a] # None
  PROVE  LET T == AlarmGone(a, S)
         IN /\ Sound(T, conn) /\ T.counter = S.counter /\ T.fence = S.fence /\ T.alarm[a] = None
            /\ \A b \in Alarm \ {a} : T.alarm[b] = S.alarm[b]
<1> DEFINE gone == [S EXCEPT !.alarm[a] = None]
           plan == ErasePlan(S, a)
           T == AlarmGone(a, S)
<1>1. /\ Sound(gone, conn) /\ gone.counter = S.counter /\ gone.alarm = [S.alarm EXCEPT ![a] = None]
      /\ gone.fence = S.fence /\ gone.queue = S.queue
  BY AlarmSet
<1>2. PlanFor(plan, conn)
  <2>1. \A d \in Client \ conn : d \notin S.alarm[a].clients
    BY DEF Sound, Away
  <2> QED
    BY <2>1, AlarmPlan, NoEventsPlan DEF ErasePlan
<1>3. T = IF Fits(S, plan) THEN Queued(gone, plan) ELSE gone
  BY DEF AlarmGone
<1> HIDE DEF gone, plan, T
<1>4. Fits(S, plan) => Fits(gone, plan)
  BY <1>1 DEF Fits
<1>5. /\ Fits(S, plan) => Sound(Queued(gone, plan), conn)
      /\ Queued(gone, plan).counter = gone.counter /\ Queued(gone, plan).alarm = gone.alarm
      /\ Queued(gone, plan).fence = gone.fence
  BY <1>1, <1>2, <1>4, QueuedSound, QueuedParts DEF Sound
<1>6. Sound(T, conn) /\ T.counter = S.counter /\ T.fence = S.fence
      /\ T.alarm = [S.alarm EXCEPT ![a] = None]
  BY <1>1, <1>3, <1>5
<1>7. S.alarm \in [Alarm -> AlarmRecord \cup {None}]
  BY Parts DEF Sound
<1> QED
  BY <1>6, <1>7 DEF T

LEMMA CounterGoneIs ==
  ASSUME NEW S, NEW conn, Sound(S, conn), NEW x \in Counter
  PROVE  LET T == CounterGone(x, S)
         IN /\ Sound(T, conn) /\ T.counter = [S.counter EXCEPT ![x] = None] /\ T.fence = S.fence
            /\ \A a \in Alarm : T.alarm[a] # None <=> S.alarm[a] # None
<1> DEFINE gone == update_sync_counter(S, x, None)
           plan == UpdatePlan(S, x, None)
           T == CounterGone(x, S)
<1>1. /\ Sound(gone, conn) /\ gone.counter = [S.counter EXCEPT ![x] = None]
      /\ gone.fence = S.fence /\ gone.queue = S.queue
      /\ \A a \in Alarm : gone.alarm[a] # None <=> S.alarm[a] # None
  <2>1. None \in Value \cup {None}
    OBVIOUS
  <2>2. Shaped(S)
    BY DEF Sound
  <2>3. Sound(gone, conn) /\ \A a \in Alarm : gone.alarm[a] # None <=> S.alarm[a] # None
    BY <2>1, UpdateSound
  <2>4. gone.counter = [S.counter EXCEPT ![x] = None] /\ gone.fence = S.fence /\ gone.queue = S.queue
    BY <2>2, UpdateValues
  <2> QED
    BY <2>3, <2>4
<1>2. PlanFor(plan, conn)
  BY UpdatePlanIs
<1>3. T = IF Fits(S, plan) THEN Queued(gone, plan) ELSE gone
  BY DEF CounterGone
<1> HIDE DEF gone, plan, T
<1>4. Fits(S, plan) => Fits(gone, plan)
  BY <1>1 DEF Fits
<1>5. /\ Fits(S, plan) => Sound(Queued(gone, plan), conn)
      /\ Queued(gone, plan).counter = gone.counter /\ Queued(gone, plan).alarm = gone.alarm
      /\ Queued(gone, plan).fence = gone.fence
  BY <1>1, <1>2, <1>4, QueuedSound, QueuedParts, ZenonT(60) DEF Sound
<1> QED
  BY <1>1, <1>3, <1>5 DEF T

(* The tables on the way: of the client's own, what is still to go is what *)
(* the rest of the list names.                                             *)
ToGo(T, S, c, ids, i) ==
  /\ \A a \in Alarm : T.alarm[a] # None =>
       S.alarm[a] # None /\ (Owner[a] = c => \E j \in (i + 1)..Len(ids) : ids[j] = a)
  /\ \A j \in (i + 1)..Len(ids) : ids[j] \in Alarm => T.alarm[ids[j]] # None
  /\ \A x \in Counter : /\ T.counter[x] \in {S.counter[x], None}
                        /\ T.counter[x] # None /\ Owner[x] = c =>
                             \E j \in (i + 1)..Len(ids) : ids[j] = x
  /\ \A f \in Fence : T.fence[f] # "none" =>
       S.fence[f] # "none" /\ (Owner[f] = c => \E j \in (i + 1)..Len(ids) : ids[j] = f)

LEMMA GoneKeeps ==
  ASSUME NEW S, NEW conn, NEW c, NEW ids, Len(ids) \in Nat, NEW i \in 1..Len(ids),
         \A j \in 1..Len(ids) : ids[j] \in Alarm \cup Counter \cup Fence,
         \A j, k \in 1..Len(ids) : ids[j] = ids[k] => j = k,
         NEW T, Sound(T, conn), ToGo(T, S, c, ids, i - 1)
  PROVE  Sound(Gone(ids[i], T), conn) /\ ToGo(Gone(ids[i], T), S, c, ids, i)
<1> DEFINE id == ids[i]
           U == Gone(id, T)
<1>1. /\ i \in i..Len(ids) /\ \A j \in (i + 1)..Len(ids) : j \in i..Len(ids) /\ j # i /\ ids[j] # id
      /\ \A j \in i..Len(ids) : j # i => j \in (i + 1)..Len(ids)
      /\ \A j \in i..Len(ids) : j \in 1..Len(ids)
  OBVIOUS
<1>2. (i - 1) + 1 = i
  OBVIOUS
<1>3. /\ \A a \in Alarm : T.alarm[a] # None =>
           S.alarm[a] # None /\ (Owner[a] = c => \E j \in i..Len(ids) : ids[j] = a)
      /\ \A j \in i..Len(ids) : ids[j] \in Alarm => T.alarm[ids[j]] # None
      /\ \A x \in Counter : /\ T.counter[x] \in {S.counter[x], None}
                            /\ T.counter[x] # None /\ Owner[x] = c => \E j \in i..Len(ids) : ids[j] = x
      /\ \A f \in Fence : T.fence[f] # "none" =>
           S.fence[f] # "none" /\ (Owner[f] = c => \E j \in i..Len(ids) : ids[j] = f)
  BY <1>2 DEF ToGo
<1>4. \A y : y # id /\ (\E j \in i..Len(ids) : ids[j] = y) => \E j \in (i + 1)..Len(ids) : ids[j] = y
  BY <1>1
<1>5. Counter \cap Alarm = {} /\ (Counter \cup Alarm) \cap Fence = {}
  BY SyncAssumption
<1>6. id \in Alarm \cup Counter \cup Fence
  BY <1>1
<1>7. CASE id \in Alarm
  <2>1. T.alarm[id] # None
    BY <1>1, <1>3, <1>7
  <2>2. U = AlarmGone(id, T)
    BY <1>7 DEF Gone
  <2> HIDE DEF id, U
  <2>3. /\ Sound(U, conn) /\ U.counter = T.counter /\ U.fence = T.fence /\ U.alarm[id] = None
        /\ \A b \in Alarm \ {id} : U.alarm[b] = T.alarm[b]
    BY <1>7, <2>1, <2>2, AlarmGoneIs
  <2>4. \A a \in Alarm : U.alarm[a] # None =>
           S.alarm[a] # None /\ (Owner[a] = c => \E j \in (i + 1)..Len(ids) : ids[j] = a)
    BY <1>3, <1>4, <2>3
  <2>5. \A j \in (i + 1)..Len(ids) : ids[j] \in Alarm => U.alarm[ids[j]] # None
    BY <1>1, <1>3, <2>3 DEF id
  <2>6. \A y \in Counter \cup Fence : y # id
    BY <1>5, <1>7
  <2>a. \A x \in Counter : /\ U.counter[x] \in {S.counter[x], None}
                           /\ U.counter[x] # None /\ Owner[x] = c =>
                                \E j \in (i + 1)..Len(ids) : ids[j] = x
    BY <1>3, <1>4, <2>3, <2>6, ZenonT(60)
  <2>b. \A f \in Fence : U.fence[f] # "none" =>
           S.fence[f] # "none" /\ (Owner[f] = c => \E j \in (i + 1)..Len(ids) : ids[j] = f)
    BY <1>3, <1>4, <2>3, <2>6
  <2>7. ToGo(U, S, c, ids, i)
    BY <2>4, <2>5, <2>a, <2>b DEF ToGo
  <2> QED
    BY <2>3, <2>7 DEF U, id
<1>8. CASE id \in Counter
  <2>1. U = CounterGone(id, T)
    BY <1>5, <1>8 DEF Gone
  <2> HIDE DEF U
  <2>2. /\ Sound(U, conn) /\ U.counter = [T.counter EXCEPT ![id] = None] /\ U.fence = T.fence
        /\ \A a \in Alarm : U.alarm[a] # None <=> T.alarm[a] # None
    BY <1>8, <2>1, CounterGoneIs, ZenonT(60)
  <2>a. T.counter \in [Counter -> Value \cup {None}]
    BY Parts DEF Sound
  <2>3. U.counter[id] = None /\ \A x \in Counter \ {id} : U.counter[x] = T.counter[x]
    BY <1>8, <2>2, <2>a
  <2>4. \A y \in Alarm \cup Fence : y # id
    BY <1>5, <1>8
  <2> HIDE DEF id
  <2>5. \A a \in Alarm : U.alarm[a] # None =>
           S.alarm[a] # None /\ (Owner[a] = c => \E j \in (i + 1)..Len(ids) : ids[j] = a)
    BY <1>3, <1>4, <2>2, <2>4
  <2>6. \A j \in (i + 1)..Len(ids) : ids[j] \in Alarm => U.alarm[ids[j]] # None
    BY <1>1, <1>3, <2>2
  <2>7. \A x \in Counter : /\ U.counter[x] \in {S.counter[x], None}
                           /\ U.counter[x] # None /\ Owner[x] = c =>
                                \E j \in (i + 1)..Len(ids) : ids[j] = x
    BY <1>3, <1>4, <2>3
  <2>8. ToGo(U, S, c, ids, i)
    BY <1>3, <1>4, <2>2, <2>4, <2>5, <2>6, <2>7, ZenonT(60) DEF ToGo
  <2> QED
    BY <2>2, <2>8 DEF U, id
<1>9. CASE id \in Fence
  <2>1. U = FenceEnded(T, id, "none")
    BY <1>5, <1>9 DEF Gone, FenceGone, FenceEnded
  <2> HIDE DEF U
  <2>2. /\ Sound(U, conn) /\ U.counter = T.counter /\ U.alarm = T.alarm
        /\ U.fence = [T.fence EXCEPT ![id] = "none"]
    BY <1>9, <2>1, FenceEnds
  <2>a. T.fence \in [Fence -> {"none", "reset", "triggered"}]
    BY Parts DEF Sound
  <2>3. U.fence[id] = "none" /\ \A f \in Fence \ {id} : U.fence[f] = T.fence[f]
    BY <1>9, <2>2, <2>a
  <2>4. \A y \in Alarm \cup Counter : y # id
    BY <1>5, <1>9
  <2> HIDE DEF id
  <2>5. \A a \in Alarm : U.alarm[a] # None =>
           S.alarm[a] # None /\ (Owner[a] = c => \E j \in (i + 1)..Len(ids) : ids[j] = a)
    BY <1>3, <1>4, <2>2, <2>4
  <2>6. \A j \in (i + 1)..Len(ids) : ids[j] \in Alarm => U.alarm[ids[j]] # None
    BY <1>1, <1>3, <2>2
  <2>7. \A x \in Counter : /\ U.counter[x] \in {S.counter[x], None}
                           /\ U.counter[x] # None /\ Owner[x] = c =>
                                \E j \in (i + 1)..Len(ids) : ids[j] = x
    BY <1>3, <1>4, <2>2, <2>4
  <2>8. \A f \in Fence : U.fence[f] # "none" =>
           S.fence[f] # "none" /\ (Owner[f] = c => \E j \in (i + 1)..Len(ids) : ids[j] = f)
    BY <1>3, <1>4, <2>3
  <2>9. ToGo(U, S, c, ids, i)
    BY <2>5, <2>6, <2>7, <2>8 DEF ToGo
  <2> QED
    BY <2>2, <2>9 DEF U, id
<1> QED
  BY <1>6, <1>7, <1>8, <1>9
(* What belongs to a client, and disconnect_client's function.             *)
Belongings(S, c) ==
  {a \in Alarm : S.alarm[a] # None /\ Owner[a] = c}
  \cup {x \in Counter : S.counter[x] # None /\ Owner[x] = c}
  \cup {f \in Fence : S.fence[f] # "none" /\ Owner[f] = c}

After(S, c, ids) ==
  CHOOSE g : g = [n \in 0..Len(ids) |->
                    IF n = 0 THEN WithoutClient(S, c) ELSE Gone(ids[n], g[n - 1])]

LEMMA LeavingIs ==
  ASSUME NEW S, NEW conn, Sound(S, conn), OwnersStay(S, conn), NEW c \in Client,
         NEW ids, Lists(ids, Belongings(S, c))
  PROVE  LET T == After(S, c, ids)[Len(ids)]
         IN /\ Sound(T, conn \ {c}) /\ OwnersStay(T, conn \ {c})
            /\ \A x \in Counter : T.counter[x] \in {S.counter[x], None}
<1> DEFINE after == After(S, c, ids)
           n == Len(ids)
           left == conn \ {c}
           base == WithoutClient(S, c)
           St == [i \in 0..n |-> {T \in TableSet : Sound(T, left) /\ ToGo(T, S, c, ids, i)}]
           G == [i \in 1..n |-> [T \in TableSet |-> Gone(ids[i], T)]]
           Step(g) == [i \in 0..n |-> IF i = 0 THEN base ELSE Gone(ids[i], g[i - 1])]
<1>1. /\ n \in Nat
      /\ \A j \in 1..n : /\ ids[j] \in Alarm \cup Counter \cup Fence
                         /\ ids[j] \in Alarm => S.alarm[ids[j]] # None
      /\ \A j, k \in 1..n : ids[j] = ids[k] => j = k
  <2>1. Counter \cap Alarm = {} /\ (Counter \cup Alarm) \cap Fence = {}
    BY SyncAssumption
  <2> QED
    BY <2>1 DEF Lists, Belongings
<1>2. /\ \A a \in Alarm : S.alarm[a] # None /\ Owner[a] = c => \E j \in 1..n : ids[j] = a
      /\ \A x \in Counter : S.counter[x] # None /\ Owner[x] = c => \E j \in 1..n : ids[j] = x
      /\ \A f \in Fence : S.fence[f] # "none" /\ Owner[f] = c => \E j \in 1..n : ids[j] = f
  BY DEF Lists, Belongings
<1>3. Sound(base, left) /\ ToGo(base, S, c, ids, 0) /\ base \in TableSet
  <2>1. /\ Sound(base, left) /\ base.counter = S.counter /\ base.fence = S.fence
        /\ \A a \in Alarm : base.alarm[a] = None <=> S.alarm[a] = None
    BY WithoutClientIs
  <2> HIDE DEF base, left
  <2>2. 0 + 1 = 1
    OBVIOUS
  <2>3. ToGo(base, S, c, ids, 0)
    BY <1>1, <1>2, <2>1, <2>2 DEF ToGo
  <2> QED
    BY <2>1, <2>3 DEF Sound, Shaped
<1>4. \A i \in 0..n : St[i] \subseteq TableSet
  OBVIOUS
<1>5. ASSUME NEW i \in 1..n, NEW T \in St[i - 1] PROVE Gone(ids[i], T) \in St[i]
  <2>1. i - 1 \in 0..n /\ i \in 0..n
    BY <1>1
  <2>2. Sound(T, left) /\ ToGo(T, S, c, ids, i - 1)
    BY <1>5, <2>1
  <2> DEFINE U == Gone(ids[i], T)
  <2> HIDE DEF left
  <2>3. Sound(U, left) /\ ToGo(U, S, c, ids, i)
    BY <1>1, <2>2, GoneKeeps
  <2> HIDE DEF U
  <2>4. U \in TableSet
    BY <2>3 DEF Sound, Shaped
  <2> QED
    BY <2>1, <2>3, <2>4 DEF U
<1>6. \A i \in 1..n : \A T \in TableSet : G[i][T] = Gone(ids[i], T)
  OBVIOUS
<1>7. base \in St[0]
  BY <1>1, <1>3
<1>8. \A i \in 1..n : \A T \in St[i - 1] : G[i][T] \in St[i]
  <2> TAKE i \in 1..n
  <2> TAKE T \in St[i - 1]
  <2>1. i - 1 \in 0..n
    BY <1>1
  <2>2. T \in TableSet
    BY <1>4, <2>1
  <2>3. Gone(ids[i], T) \in St[i]
    BY <1>5
  <2> QED
    BY <1>6, <2>2, <2>3
<1>9. \A i \in 0..n : \A T \in St[i] : Sound(T, left) /\ ToGo(T, S, c, ids, i)
  OBVIOUS
<1> HIDE DEF n, St, G, base, left
<1>10. Leads(n, TableSet, St, base, G)
  BY <1>1, <1>4, <1>7, <1>8 DEF Leads
<1>11. PICK f : Follows(f, n, TableSet, St, base, G)
  BY <1>10, Iteration
<1>12. f = Step(f)
  <2>1. f \in [0..n -> TableSet] /\ f[0] = base /\ \A i \in 1..n : f[i] = G[i][f[i - 1]]
    BY <1>11 DEF Follows
  <2>2. \A i \in 1..n : f[i - 1] \in TableSet
    BY <1>1, <2>1
  <2>3. \A i \in 1..n : f[i] = Gone(ids[i], f[i - 1])
    BY <1>6, <2>1, <2>2
  <2>4. \A i \in 0..n : i = 0 \/ i \in 1..n
    BY <1>1
  <2> QED
    BY <2>1, <2>3, <2>4
<1>13. after = CHOOSE g : g = Step(g)
  BY DEF n, base, After
<1> HIDE DEF after
<1>14. after = Step(after)
  BY <1>12, <1>13
<1>15. after[0] = base /\ \A i \in 1..n : after[i] = Gone(ids[i], after[i - 1])
  <2>1. 0 \in 0..n /\ \A i \in 1..n : i \in 0..n /\ i # 0
    BY <1>1
  <2> QED
    BY <1>14, <2>1
<1>16. \A i \in 0..n : after[i] \in St[i]
  <2>1. \A i \in 1..n : after[i - 1] \in St[i - 1] => after[i] \in St[i]
    BY <1>5, <1>15
  <2> QED
    BY <1>1, <1>7, <1>15, <2>1, IterationStays
<1> DEFINE T == after[n]
<1>17. Sound(T, left) /\ ToGo(T, S, c, ids, n)
  BY <1>1, <1>9, <1>16
<1> HIDE DEF T
<1>18. ~ \E j \in (n + 1)..n : TRUE
  BY <1>1
<1>19. /\ \A a \in Alarm : T.alarm[a] # None => S.alarm[a] # None /\ Owner[a] # c
       /\ \A x \in Counter : /\ T.counter[x] \in {S.counter[x], None}
                             /\ T.counter[x] # None => Owner[x] # c
       /\ \A y \in Fence : T.fence[y] # "none" => S.fence[y] # "none" /\ Owner[y] # c
  BY <1>17, <1>18 DEF ToGo, n
<1>20. OwnersStay(T, left)
  BY <1>19 DEF OwnersStay, left
<1> QED
  BY <1>17, <1>19, <1>20 DEF T, left, n, after

LEMMA DisconnectStep ==
  ASSUME IInv, NEW c \in Client, disconnect_client(c)
  PROVE  IInv' /\ ExactlyAdvanced
<1> DEFINE A == {a \in Alarm : alarm[a] # None /\ Owner[a] = c}
           X == {x \in Counter : counter[x] # None /\ Owner[x] = c}
           F == {f \in Fence : fence[f] # "none" /\ Owner[f] = c}
<1>1. PICK alarms \in SetToSeqs(A), counters \in SetToSeqs(X), fences \in SetToSeqs(F) :
        LET ids == alarms \o counters \o fences
            after[n \in 0..Len(ids)] ==
              IF n = 0 THEN WithoutClient(Tables, c) ELSE Gone(ids[n], after[n - 1])
        IN Become(after[Len(ids)])
  BY DEF disconnect_client
<1>2. connected' = connected \ {c}
  BY DEF disconnect_client
<1> DEFINE ids == alarms \o counters \o fences
           after == After(Tables, c, ids)
<1>3. Become(after[Len(ids)])
  BY <1>1 DEF After
<1>4. Lists(ids, A \cup X \cup F)
  <2>1. /\ Counter \cap Alarm = {} /\ (Counter \cup Alarm) \cap Fence = {}
        /\ IsFiniteSet(Counter \cup Alarm \cup Fence)
    BY SyncAssumption
  <2>2. A \subseteq Counter \cup Alarm \cup Fence /\ X \subseteq Counter \cup Alarm \cup Fence
        /\ F \subseteq Counter \cup Alarm \cup Fence /\ A \cap X = {} /\ (A \cup X) \cap F = {}
    BY <2>1
  <2> HIDE DEF A, X, F
  <2>3. IsFiniteSet(A) /\ IsFiniteSet(X) /\ IsFiniteSet(F)
    BY <2>1, <2>2, FS_Subset
  <2>4. Lists(alarms, A) /\ Lists(counters, X) /\ Lists(fences, F)
    BY <2>3, ListsOnce
  <2>5. Lists(alarms \o counters, A \cup X)
    BY <2>2, <2>4, ListsJoined
  <2> QED
    BY <2>2, <2>4, <2>5, ListsJoined
<1> HIDE DEF ids
<1> DEFINE T == after[Len(ids)]
<1>5. /\ Sound(T, connected \ {c}) /\ OwnersStay(T, connected \ {c})
      /\ \A x \in Counter : T.counter[x] \in {Tables.counter[x], None}
  <2>1. A \cup X \cup F = Belongings(Tables, c)
    BY Views DEF Belongings
  <2>2. Lists(ids, Belongings(Tables, c))
    BY <1>4, <2>1
  <2> QED
    BY <2>2, Now, LeavingIs
<1> HIDE DEF after
<1>6. /\ Sound(T, connected \ {c}) /\ OwnersStay(T, connected \ {c}) /\ Become(T)
      /\ \A x \in Counter : T.counter[x] \in {counter[x], None}
  BY <1>3, <1>5, Views
<1> HIDE DEF T
<1>7. Shaped(T)
  BY <1>6 DEF Sound
<1>8. Tables' = T /\ counter' = T.counter
  <2>1. Tables' = T
    BY <1>6, <1>7, Parts, BecomeIs
  <2> QED
    BY <1>6, <2>1 DEF Become
<1>9. IInv'
  BY <1>2, <1>6, <1>8, Now DEF IInv
<1>10. ExactlyAdvanced
  BY <1>6, <1>8, OthersAreExact
<1> QED
  BY <1>9, <1>10
-----------------------------------------------------------------------------
(* The theorems.                                                           *)

LEMMA StepKeeps ==
  ASSUME IInv, [Next]_vars
  PROVE  IInv' /\ [ExactlyAdvanced]_vars
<1>1. CASE UNCHANGED vars
  <2>1. Tables' = Tables /\ connected' = connected
    BY <1>1 DEF vars, Tables
  <2> QED
    BY <1>1, <2>1 DEF IInv
<1>2. CASE Next
  <2>1. PICK c \in Client :
          \/ register_client(c) \/ disconnect_client(c) \/ Drain(c)
          \/ \E x \in Counter : CounterOp(c, x)
          \/ "alarm" \in Ops /\ \E a \in Alarm : AlarmOp(c, a)
          \/ "await" \in Ops /\ AwaitOp(c)
          \/ "fence" \in Ops /\ FenceOp(c)
    BY <1>2 DEF Next
  <2>2. ASSUME NEW x \in Counter, CounterOp(c, x) PROVE IInv' /\ ExactlyAdvanced
    <3>1. CASE \E v \in Value : CreateCounter(c, x, v)
      BY <3>1, CreateCounterStep
    <3>2. CASE \E v \in Value : SetCounter(c, x, v) \/ ChangeCounter(c, x, v)
      BY <3>2, UpdateSteps
    <3>3. CASE DestroyCounter(c, x)
      <4>1. 0 \in Value
        BY Widths
      <4> QED
        BY <3>3, <4>1, UpdateSteps
    <3> QED
      BY <2>2, <3>1, <3>2, <3>3 DEF CounterOp
  <2>3. IInv' /\ ExactlyAdvanced
    BY <2>1, <2>2, RegisterStep, DisconnectStep, DrainStep, AlarmStep, AwaitStep, FenceStep
  <2> QED
    BY <2>3
<1> QED
  BY <1>1, <1>2

(* The tables stay sound: every state has the inductive invariant, whose   *)
(* parts say that waits sleep, alarms pend with the sign their type wants, *)
(* nothing is kept for the absent and things belong to the connected.      *)
THEOREM Inductive == Spec => []IInv
<1>1. Init => IInv
  BY Initially
<1>2. IInv /\ [Next]_vars => IInv'
  BY StepKeeps
<1> QED
  BY <1>1, <1>2, PTL DEF Spec

(* Nobody sleeps through: begin_sync_counter_await and update_sync_counter *)
(* leave no client waiting for a condition that holds already, and the     *)
(* fence requests none for a fence that is triggered or gone.              *)
THEOREM NobodySleepsThrough == Spec => []NoMissedWakeup
<1>1. IInv => NoMissedWakeup
  BY Implied
<1> QED
  BY <1>1, Inductive, PTL

(* commit_sync_alarm and update_sync_counter leave an active alarm only    *)
(* with a counter that has not reached its test value, and every value     *)
(* they compute fits its Width bits.                                       *)
THEOREM AlarmsPend == Spec => []ActiveAlarmsPend
<1>1. IInv => ActiveAlarmsPend
  BY Implied
<1> QED
  BY <1>1, Inductive, PTL

(* disconnect_client leaves nothing behind, in whatever order its hash     *)
(* tables name what the client had, and whether or not its events fit.     *)
THEOREM NothingIsKept == Spec => []NothingKept
<1>1. IInv => NothingKept
  BY Implied
<1> QED
  BY <1>1, Inductive, PTL

(* advance_alarm, with its unsigned arithmetic modulo 2^Width, finds the   *)
(* first multiple of delta beyond the counter, or that there is none.      *)
THEOREM AdvancesAreExact == Spec => AdvanceIsExact
<1>1. IInv /\ [Next]_vars => [ExactlyAdvanced]_vars
  BY StepKeeps
<1> QED
  BY <1>1, Inductive, PTL DEF Spec, AdvanceIsExact
=============================================================================
