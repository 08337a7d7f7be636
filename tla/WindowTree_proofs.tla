-------------------------- MODULE WindowTree_proofs --------------------------
(***************************************************************************)
(* The windows, for any number of windows, clients and selections: they    *)
(* form one tree, focus and grabs are on what can be seen, nothing refers  *)
(* to what is gone, and a save set rescues what it names.                  *)
(***************************************************************************)
EXTENDS WindowTree, TLAPS, FiniteSetTheorems, SequenceTheorems, WellFoundedInduction
-----------------------------------------------------------------------------
(* Induction, and functions defined step by step.                          *)

(* What is good at 0 and stays good at each step is good at n. *)
LEMMA StepByStep ==
  ASSUME NEW n \in Nat, NEW Good, 0 \in Good,
         \A i \in 0..(n - 1) : i \in Good => i + 1 \in Good
  PROVE  n \in Good
<1> SUFFICES ASSUME n \notin Good PROVE FALSE
  OBVIOUS
<1> DEFINE Bad == (0..n) \ Good
<1>1. Bad \subseteq Nat /\ Bad # {}
  OBVIOUS
<1>2. \E x \in Bad : \A y \in Bad : ~ (<<y, x>> \in OpToRel(<, Nat))
  BY <1>1, WFMin, NatLessThanWellFounded, Zenon
<1>3. PICK x \in Bad : \A y \in Bad : ~ (y < x)
  BY <1>1, <1>2, Zenon DEF OpToRel
<1>4. x > 0 /\ x - 1 \in 0..(n - 1)
  OBVIOUS
<1>5. x - 1 \notin Bad
  BY <1>3
<1> QED
  BY <1>4, <1>5

(* Steps that lead from one set of states to the next define a function,   *)
(* whose values are in these sets.                                         *)
Leads(n, R, St, base, G) ==
  /\ n \in Nat /\ base \in St[0]
  /\ \A i \in 0..n : St[i] \subseteq R
  /\ \A i \in 1..n : \A v \in St[i - 1] : G[i][v] \in St[i]

Follows(f, n, R, St, base, G) ==
  /\ f \in [0..n -> R] /\ f[0] = base
  /\ \A i \in 1..n : f[i] = G[i][f[i - 1]]
  /\ \A i \in 0..n : f[i] \in St[i]

LEMMA Iteration ==
  ASSUME NEW n, NEW R, NEW St, NEW base, NEW G, Leads(n, R, St, base, G)
  PROVE  \E f : Follows(f, n, R, St, base, G)
<1> USE DEF Leads
<1> DEFINE Begins(f, k) == /\ f = [i \in 0..k |-> IF i = 0 THEN base ELSE G[i][f[i - 1]]]
                           /\ \A i \in 0..k : f[i] \in St[i]
           Good == {k \in 0..n : \E f : Begins(f, k)}
<1>1. 0 \in Good
  <2> DEFINE f == [i \in 0..0 |-> base]
  <2>1. f = [i \in 0..0 |-> IF i = 0 THEN base ELSE G[i][f[i - 1]]]
    OBVIOUS
  <2>2. \A i \in 0..0 : f[i] \in St[i]
    OBVIOUS
  <2> HIDE DEF f
  <2>3. Begins(f, 0)
    BY <2>1, <2>2
  <2> QED
    BY <2>3
<1>2. ASSUME NEW k \in 0..(n - 1), k \in Good PROVE k + 1 \in Good
  <2>1. PICK f : Begins(f, k)
    BY <1>2
  <2>2. DOMAIN f = 0..k /\ \A i \in 0..k : f[i] = IF i = 0 THEN base ELSE G[i][f[i - 1]]
    BY <2>1
  <2>3. \A i \in 0..k : f[i] \in St[i]
    BY <2>1
  <2> HIDE DEF Begins, Good
  <2>4. PICK g : g = [i \in 0..(k + 1) |-> IF i = k + 1 THEN G[k + 1][f[k]] ELSE f[i]]
    OBVIOUS
  <2>5. /\ k \in 0..k /\ k + 1 \in 1..n /\ k + 1 \in 0..n /\ k + 1 # 0 /\ (k + 1) - 1 = k
        /\ \A i \in 0..(k + 1) : i # k + 1 => i \in 0..k /\ (i # 0 => i - 1 \in 0..k)
        /\ \A i \in 0..k : i \in 0..(k + 1) /\ i # k + 1
    OBVIOUS
  <2>6. \A i \in 0..k : g[i] = f[i]
    BY <2>4, <2>5
  <2>7. g[k + 1] = G[k + 1][f[k]] /\ g = [i \in 0..(k + 1) |-> g[i]]
    BY <2>4
  <2>8. g[k + 1] \in St[k + 1]
    <3>1. f[k] \in St[(k + 1) - 1]
      BY <2>3, <2>5
    <3> QED
      BY <3>1, <2>5, <2>7
  <2>9. ASSUME NEW i \in 0..(k + 1)
        PROVE  g[i] = (IF i = 0 THEN base ELSE G[i][g[i - 1]]) /\ g[i] \in St[i]
    <3>1. CASE i = k + 1
      <4>1. g[i - 1] = f[k] /\ i # 0
        BY <3>1, <2>5, <2>6
      <4> QED
        BY <3>1, <4>1, <2>7, <2>8
    <3>2. CASE i # k + 1
      <4>1. i \in 0..k /\ g[i] = f[i] /\ (i # 0 => g[i - 1] = f[i - 1])
        BY <3>2, <2>5, <2>6
      <4> QED
        BY <4>1, <2>2, <2>3
    <3> QED
      BY <3>1, <3>2
  <2>10. Begins(g, k + 1)
    <3>1. g = [i \in 0..(k + 1) |-> IF i = 0 THEN base ELSE G[i][g[i - 1]]]
      BY <2>7, <2>9
    <3> QED
      BY <2>9, <3>1 DEF Begins
  <2> QED
    BY <2>5, <2>10 DEF Good
<1> HIDE DEF Begins
<1>3. n \in Good
  BY <1>1, <1>2, StepByStep
<1>4. PICK f : Begins(f, n)
  BY <1>3
<1>5. /\ f = [i \in 0..n |-> IF i = 0 THEN base ELSE G[i][f[i - 1]]]
      /\ \A i \in 0..n : f[i] \in St[i]
  BY <1>4 DEF Begins
<1>6. f[0] = base /\ \A i \in 1..n : f[i] = G[i][f[i - 1]]
  BY <1>5
<1>7. f \in [0..n -> R]
  BY <1>5
<1> QED
  BY <1>5, <1>6, <1>7 DEF Follows

(* Such a function is in the sets whichever it is. *)
LEMMA IterationStays ==
  ASSUME NEW n \in Nat, NEW St, NEW f, f[0] \in St[0],
         \A i \in 1..n : f[i - 1] \in St[i - 1] => f[i] \in St[i]
  PROVE  \A i \in 0..n : f[i] \in St[i]
<1> SUFFICES ASSUME NEW k \in 0..n PROVE f[k] \in St[k]
  OBVIOUS
<1> DEFINE Good == {i \in 0..n : f[i] \in St[i]}
<1>1. 0 \in Good
  OBVIOUS
<1>2. ASSUME NEW i \in 0..(k - 1), i \in Good PROVE i + 1 \in Good
  <2>1. i + 1 \in 1..n /\ (i + 1) - 1 = i
    OBVIOUS
  <2> QED
    BY <1>2, <2>1
<1> HIDE DEF Good
<1>3. k \in Good
  BY <1>1, <1>2, StepByStep
<1> QED
  BY <1>3 DEF Good
-----------------------------------------------------------------------------
(* Sequences.                                                              *)

LEMMA ListedOnce ==
  ASSUME NEW S, IsFiniteSet(S), NEW p \in SetToSeqs(S)
  PROVE  /\ p \in Seq(S)
         /\ \A i, j \in 1..Len(p) : p[i] = p[j] => i = j
         /\ \A s \in S : \E i \in 1..Len(p) : p[i] = s
<1> DEFINE k == Cardinality(S)
<1>1. k \in Nat
  BY FS_CardinalityType
<1>2. p \in [1..k -> S] /\ \A i, j \in 1..k : i # j => p[i] # p[j]
  BY DEF SetToSeqs
<1> HIDE DEF k
<1>3. p \in Seq(S) /\ Len(p) = k
  BY <1>1, <1>2
<1>4. p \in Injection(1..k, S)
  BY <1>2 DEF Injection, IsInjective
<1>5. p \in Surjection(1..k, S)
  <2>1. IsFiniteSet(1..k) /\ Cardinality(1..k) = k
    BY <1>1, FS_Interval
  <2>2. Cardinality(1..k) = Cardinality(S)
    BY <2>1 DEF k
  <2> QED
    BY <1>4, <2>1, <2>2, FS_Injection
<1>6. \A s \in S : \E i \in 1..k : p[i] = s
  BY <1>5 DEF Surjection
<1> QED
  BY <1>2, <1>3, <1>6

(* A list of all of a set, each once. *)
Lists(p, S) ==
  /\ p \in Seq(S) /\ Len(p) \in Nat
  /\ \A i \in 1..Len(p) : p[i] \in S
  /\ \A i, j \in 1..Len(p) : p[i] = p[j] => i = j
  /\ \A s \in S : \E i \in 1..Len(p) : p[i] = s

LEMMA ListsOnce ==
  ASSUME NEW S, IsFiniteSet(S), NEW p \in SetToSeqs(S)
  PROVE  Lists(p, S)
<1>1. p \in Seq(S)
  BY ListedOnce
<1>2. Len(p) \in Nat /\ \A i \in 1..Len(p) : p[i] \in S
  BY <1>1, LenProperties, ElementOfSeq
<1> QED
  BY <1>1, <1>2, ListedOnce DEF Lists
-----------------------------------------------------------------------------
(* Paths in a tree.                                                        *)

(* Every window but the root has its parent, and the root is around each. *)
Rooted(S) ==
  /\ Root \in DOMAIN S.windows
  /\ \A w \in DOMAIN S.windows \ {Root} : S.windows[w].parent \in DOMAIN S.windows
  /\ \A w \in DOMAIN S.windows : Root \in Path(S, w)

LEMMA PathIs ==
  ASSUME NEW S, Rooted(S), NEW w \in DOMAIN S.windows
  PROVE  /\ w \in Path(S, w) /\ Path(S, w) \subseteq DOMAIN S.windows
         /\ Closed(S, Path(S, w))
<1>1. \A x \in Path(S, w) \ {Root} : \A A \in SUBSET DOMAIN S.windows :
        w \in A /\ Closed(S, A) => S.windows[x].parent \in A
  BY DEF Path, Closed
<1>2. \A x \in Path(S, w) \ {Root} : S.windows[x].parent \in DOMAIN S.windows
  BY DEF Path, Rooted
<1>3. Closed(S, Path(S, w))
  BY <1>1, <1>2 DEF Path, Closed
<1> QED
  BY <1>3 DEF Path

LEMMA PathWithin ==
  ASSUME NEW S, NEW w, NEW A \in SUBSET DOMAIN S.windows, w \in A, Closed(S, A)
  PROVE  Path(S, w) \subseteq A
  BY DEF Path

(* What holds of the root, and of a window if of its parent, holds of all. *)
LEMMA FromTheRoot ==
  ASSUME NEW S, Rooted(S), NEW Good, Root \in Good,
         \A w \in DOMAIN S.windows \ {Root} : S.windows[w].parent \in Good => w \in Good
  PROVE  DOMAIN S.windows \subseteq Good
<1> SUFFICES ASSUME NEW w \in DOMAIN S.windows, w \notin Good PROVE FALSE
  OBVIOUS
<1> DEFINE Bad == DOMAIN S.windows \ Good
<1>1. Closed(S, Bad)
  BY DEF Closed, Rooted
<1>2. Path(S, w) \subseteq Bad
  BY <1>1, PathWithin
<1> QED
  BY <1>2 DEF Rooted

LEMMA PathOfPart ==
  ASSUME NEW S, Rooted(S), NEW w \in DOMAIN S.windows, NEW x \in Path(S, w)
  PROVE  x \in DOMAIN S.windows /\ Path(S, x) \subseteq Path(S, w)
  BY PathIs, PathWithin

LEMMA PathOfRoot ==
  ASSUME NEW S, Rooted(S)
  PROVE  Path(S, Root) = {Root}
<1>1. Closed(S, {Root}) /\ {Root} \in SUBSET DOMAIN S.windows
  BY DEF Closed, Rooted
<1> QED
  BY <1>1, PathWithin DEF Rooted

LEMMA PathUp ==
  ASSUME NEW S, Rooted(S), NEW w \in DOMAIN S.windows \ {Root}
  PROVE  /\ S.windows[w].parent \in DOMAIN S.windows
         /\ Path(S, w) = {w} \cup Path(S, S.windows[w].parent)
<1> DEFINE p == S.windows[w].parent
           A == {w} \cup Path(S, p)
<1>1. p \in DOMAIN S.windows
  BY DEF Rooted
<1>2. p \in Path(S, p) /\ Closed(S, Path(S, p)) /\ Path(S, p) \subseteq DOMAIN S.windows
  BY <1>1, PathIs
<1>3. Closed(S, A) /\ A \in SUBSET DOMAIN S.windows
  BY <1>2 DEF Closed
<1>4. Path(S, w) \subseteq A
  BY <1>3, PathWithin
<1>5. w \in Path(S, w) /\ p \in Path(S, w)
  BY PathIs DEF Closed
<1>6. Path(S, p) \subseteq Path(S, w)
  BY <1>5, PathOfPart
<1> QED
  BY <1>1, <1>4, <1>5, <1>6

(* No window is around its parent. *)
LEMMA NoCycle ==
  ASSUME NEW S, Rooted(S), NEW w \in DOMAIN S.windows \ {Root}
  PROVE  w \notin Path(S, S.windows[w].parent)
<1> DEFINE Good == {x \in DOMAIN S.windows : x = Root \/ x \notin Path(S, S.windows[x].parent)}
<1>1. Root \in Good
  BY DEF Rooted
<1>2. ASSUME NEW x \in DOMAIN S.windows \ {Root}, S.windows[x].parent \in Good
      PROVE  x \in Good
  <2> DEFINE y == S.windows[x].parent
  <2> SUFFICES ASSUME x \in Path(S, y) PROVE FALSE
    OBVIOUS
  <2>1. y \in DOMAIN S.windows /\ y \in Path(S, x)
    BY PathUp, PathIs
  <2>2. y # Root
    BY PathOfRoot
  <2>3. y \notin Path(S, S.windows[y].parent)
    BY <1>2, <2>2
  <2>4. x # y
    <3> SUFFICES ASSUME x = y PROVE FALSE
      OBVIOUS
    <3>1. Closed(S, {x}) /\ {x} \in SUBSET DOMAIN S.windows
      BY DEF Closed
    <3>2. Path(S, x) \subseteq {x}
      BY <3>1, PathWithin
    <3> QED
      BY <3>2 DEF Rooted
  <2>5. x \in Path(S, S.windows[y].parent) /\ S.windows[y].parent \in DOMAIN S.windows
    BY <2>1, <2>2, <2>4, PathUp
  <2>6. y \in Path(S, S.windows[y].parent)
    BY <2>1, <2>5, PathOfPart
  <2> QED
    BY <2>3, <2>6
<1> HIDE DEF Good
<1>3. DOMAIN S.windows \subseteq Good
  BY <1>1, <1>2, FromTheRoot
<1> QED
  BY <1>3 DEF Good

LEMMA PathOrder ==
  ASSUME NEW S, Rooted(S), NEW a \in DOMAIN S.windows, NEW b \in DOMAIN S.windows,
         a \in Path(S, b), b \in Path(S, a)
  PROVE  a = b
<1> SUFFICES ASSUME a # b PROVE FALSE
  OBVIOUS
<1>1. b # Root
  BY PathOfRoot
<1>2. a \in Path(S, S.windows[b].parent) /\ S.windows[b].parent \in DOMAIN S.windows
  BY <1>1, PathUp
<1>3. b \in Path(S, S.windows[b].parent)
  BY <1>2, PathOfPart
<1> QED
  BY <1>1, <1>3, NoCycle

(* Of the windows wanted around a window one is the closest. *)
LEMMA OneIsClosest ==
  ASSUME NEW S, Rooted(S), NEW w \in DOMAIN S.windows, NEW wanted,
         Path(S, w) \cap wanted # {}
  PROVE  \E a \in Path(S, w) \cap wanted : \A b \in Path(S, w) \cap wanted : b \in Path(S, a)
<1> DEFINE Good == {x \in DOMAIN S.windows :
             Path(S, x) \cap wanted # {} =>
               \E a \in Path(S, x) \cap wanted : \A b \in Path(S, x) \cap wanted : b \in Path(S, a)}
<1>1. Root \in Good
  BY PathOfRoot DEF Rooted
<1>2. ASSUME NEW x \in DOMAIN S.windows \ {Root}, S.windows[x].parent \in Good
      PROVE  x \in Good
  <2> DEFINE y == S.windows[x].parent
  <2>1. Path(S, x) = {x} \cup Path(S, y)
    BY PathUp
  <2>2. CASE x \in wanted
    BY <2>1, <2>2
  <2>3. CASE x \notin wanted
    <3>1. Path(S, x) \cap wanted = Path(S, y) \cap wanted
      BY <2>1, <2>3
    <3> QED
      BY <1>2, <3>1
  <2> QED
    BY <2>2, <2>3
<1> HIDE DEF Good
<1>3. DOMAIN S.windows \subseteq Good
  BY <1>1, <1>2, FromTheRoot
<1> QED
  BY <1>3 DEF Good

LEMMA ClosestIs ==
  ASSUME NEW S, Rooted(S), NEW w \in DOMAIN S.windows, NEW wanted
  PROVE  LET a == ClosestAncestor(S, w, wanted)
             candidates == (Path(S, w) \ {w}) \cap wanted
         IN IF candidates = {} THEN a = None
            ELSE a \in candidates /\ \A b \in candidates : b \in Path(S, a)
<1> DEFINE candidates == (Path(S, w) \ {w}) \cap wanted
<1>1. candidates = Path(S, w) \cap (wanted \ {w})
  OBVIOUS
<1>2. candidates # {} => \E a \in candidates : \A b \in candidates : b \in Path(S, a)
  <2> DEFINE W == wanted \ {w}
  <2> HIDE DEF W
  <2>1. candidates = Path(S, w) \cap W
    BY <1>1 DEF W
  <2>2. Path(S, w) \cap W # {} =>
          \E a \in Path(S, w) \cap W : \A b \in Path(S, w) \cap W : b \in Path(S, a)
    BY OneIsClosest
  <2> QED
    BY <2>1, <2>2
<1> HIDE DEF candidates
<1>3. ClosestAncestor(S, w, wanted) =
        IF candidates = {} THEN None
        ELSE CHOOSE a \in candidates : \A b \in candidates : b \in Path(S, a)
  BY DEF ClosestAncestor, candidates
<1> QED
  BY <1>2, <1>3 DEF candidates
-----------------------------------------------------------------------------
(* What changes to the tree do to paths.                                   *)

Alike(S, T) ==
  /\ DOMAIN T.windows = DOMAIN S.windows
  /\ \A x \in DOMAIN S.windows : T.windows[x].parent = S.windows[x].parent

LEMMA SamePaths ==
  ASSUME NEW S, NEW T, Rooted(S), Alike(S, T)
  PROVE  /\ Rooted(T) /\ \A w \in DOMAIN S.windows : Path(T, w) = Path(S, w)
         /\ \A w : Subtree(T, w) = Subtree(S, w)
<1>1. \A A \in SUBSET DOMAIN S.windows : Closed(T, A) <=> Closed(S, A)
  BY DEF Alike, Closed
<1>2. ASSUME NEW w \in DOMAIN S.windows PROVE Path(T, w) = Path(S, w)
  BY <1>1 DEF Path, Alike
<1>3. Rooted(T)
  BY <1>2 DEF Rooted, Alike
<1>4. ASSUME NEW w PROVE Subtree(T, w) = Subtree(S, w)
  BY <1>2 DEF Subtree, Alike
<1> QED
  BY <1>2, <1>3, <1>4

(* id is below parent now. *)
MovedTo(S, T, id, parent) ==
  /\ DOMAIN T.windows = DOMAIN S.windows
  /\ id \in DOMAIN S.windows \ {Root} /\ parent \in DOMAIN S.windows
  /\ id \notin Path(S, parent)
  /\ \A x \in DOMAIN S.windows :
       T.windows[x].parent = IF x = id THEN parent ELSE S.windows[x].parent

LEMMA MovedPaths ==
  ASSUME NEW S, NEW T, Rooted(S), NEW id, NEW parent, MovedTo(S, T, id, parent)
  PROVE  /\ Rooted(T)
         /\ \A x \in DOMAIN S.windows : id \notin Path(S, x) => Path(T, x) = Path(S, x)
         /\ \A x \in DOMAIN S.windows : id \in Path(S, x) =>
              \A y \in Path(T, x) : \/ y \in Path(S, parent)
                                    \/ y \in Path(S, x) /\ id \in Path(S, y)
<1> DEFINE D == DOMAIN S.windows
<1> USE DEF MovedTo
<1>1. ASSUME NEW x \in D, id \notin Path(S, x)
      PROVE  Path(T, x) = Path(S, x)
  <2>1. x \in Path(S, x) /\ Path(S, x) \subseteq D /\ Closed(S, Path(S, x))
    BY PathIs
  <2>2. Closed(T, Path(S, x))
    BY <1>1, <2>1 DEF Closed
  <2>3. Path(T, x) \subseteq Path(S, x)
    BY <2>1, <2>2, PathWithin
  <2>4. \A A \in SUBSET D : x \in A /\ Closed(T, A) =>
           x \in A \cap Path(S, x) /\ Closed(S, A \cap Path(S, x))
    BY <1>1, <2>1 DEF Closed
  <2>5. ASSUME NEW y \in Path(S, x), NEW A \in SUBSET D, x \in A, Closed(T, A)
        PROVE  y \in A
    <3>1. Path(S, x) \subseteq A \cap Path(S, x)
      BY <2>1, <2>4, <2>5, PathWithin
    <3> QED
      BY <3>1
  <2>6. Path(S, x) \subseteq Path(T, x)
    BY <2>1, <2>5 DEF Path
  <2> QED
    BY <2>3, <2>6
<1>2. Path(T, parent) = Path(S, parent)
  BY <1>1
<1>3. ASSUME NEW x \in D, id \in Path(S, x)
      PROVE  \A y \in Path(T, x) : \/ y \in Path(S, parent)
                                   \/ y \in Path(S, x) /\ id \in Path(S, y)
  <2> DEFINE below == {y \in Path(S, x) : id \in Path(S, y)}
             A == below \cup Path(S, parent)
  <2>1. /\ x \in Path(S, x) /\ Path(S, x) \subseteq D /\ Closed(S, Path(S, x))
        /\ parent \in Path(S, parent) /\ Path(S, parent) \subseteq D /\ Closed(S, Path(S, parent))
    BY PathIs
  <2>2. ASSUME NEW y \in A \ {Root} PROVE T.windows[y].parent \in A
    <3>1. CASE y = id
      BY <3>1, <2>1
    <3>2. CASE y # id /\ y \in Path(S, parent)
      BY <3>2, <2>1 DEF Closed
    <3>3. CASE y # id /\ y \in below
      <4>1. y \in D \ {Root} /\ T.windows[y].parent = S.windows[y].parent
        BY <3>3, <2>1
      <4>2. Path(S, y) = {y} \cup Path(S, S.windows[y].parent)
        BY <4>1, PathUp
      <4>3. id \in Path(S, S.windows[y].parent) /\ S.windows[y].parent \in Path(S, x)
        BY <3>3, <4>1, <4>2, <2>1 DEF Closed
      <4> QED
        BY <4>1, <4>3
    <3> QED
      BY <3>1, <3>2, <3>3
  <2>3. Closed(T, A) /\ x \in A /\ A \in SUBSET DOMAIN T.windows
    BY <1>3, <2>1, <2>2 DEF Closed
  <2>4. Path(T, x) \subseteq A
    BY <2>3, PathWithin
  <2> QED
    BY <2>4
<1>4. ASSUME NEW x \in D PROVE Root \in Path(T, x)
  <2>1. CASE id \notin Path(S, x)
    BY <2>1, <1>1 DEF Rooted
  <2>2. CASE id \in Path(S, x)
    <3> SUFFICES ASSUME NEW A \in SUBSET D, x \in A, Closed(T, A) PROVE Root \in A
      BY DEF Path, Rooted
    <3>1. CASE id \in A
      <4>1. parent \in A
        BY <3>1 DEF Closed
      <4>2. Path(T, parent) \subseteq A
        BY <4>1, PathWithin
      <4> QED
        BY <4>2, <1>2 DEF Rooted
    <3>2. CASE id \notin A
      <4>1. Closed(S, A)
        BY <3>2 DEF Closed
      <4> QED
        BY <4>1, <2>2, <3>2, PathWithin
    <3> QED
      BY <3>1, <3>2
  <2> QED
    BY <2>1, <2>2
<1>5. Rooted(T)
  BY <1>4 DEF Rooted
<1> QED
  BY <1>1, <1>3, <1>5

(* w and all in it are gone. *)
Erased(S, T, w) ==
  /\ w \in DOMAIN S.windows \ {Root}
  /\ DOMAIN T.windows = DOMAIN S.windows \ Subtree(S, w)
  /\ \A x \in DOMAIN T.windows : T.windows[x].parent = S.windows[x].parent

LEMMA ErasedPaths ==
  ASSUME NEW S, NEW T, Rooted(S), NEW w, Erased(S, T, w)
  PROVE  /\ Rooted(T) /\ \A x \in DOMAIN T.windows : Path(T, x) = Path(S, x)
         /\ S.windows[w].parent \in DOMAIN T.windows /\ w \in Subtree(S, w)
<1> DEFINE D == DOMAIN S.windows
           E == DOMAIN T.windows
<1> USE DEF Erased
<1>1. ASSUME NEW x \in E PROVE x \in D /\ Path(S, x) \subseteq E
  <2>1. x \in D /\ w \notin Path(S, x) /\ Path(S, x) \subseteq D
    BY PathIs DEF Subtree
  <2>2. \A y \in Path(S, x) : w \notin Path(S, y)
    BY <2>1, PathOfPart
  <2> QED
    BY <2>1, <2>2 DEF Subtree
<1>2. ASSUME NEW x \in E PROVE Path(T, x) = Path(S, x)
  <2>1. x \in Path(S, x) /\ Closed(S, Path(S, x)) /\ Path(S, x) \subseteq E
    BY <1>1, PathIs
  <2>2. Closed(T, Path(S, x))
    BY <2>1 DEF Closed
  <2>3. Path(T, x) \subseteq Path(S, x)
    BY <2>1, <2>2, PathWithin
  <2>4. ASSUME NEW A \in SUBSET E, x \in A, Closed(T, A) PROVE Path(S, x) \subseteq A
    <3>1. Closed(S, A) /\ A \in SUBSET D
      BY <2>4 DEF Closed
    <3> QED
      BY <2>4, <3>1, PathWithin
  <2>5. Path(S, x) \subseteq Path(T, x)
    BY <2>1, <2>4 DEF Path
  <2> QED
    BY <2>3, <2>5
<1>3. w \in Subtree(S, w) /\ Root \in E
  <2>1. w \in Path(S, w) /\ Path(S, Root) = {Root}
    BY PathIs, PathOfRoot
  <2> QED
    BY <2>1 DEF Subtree, Rooted
<1>4. \A x \in E \ {Root} : T.windows[x].parent \in E
  <2> TAKE x \in E \ {Root}
  <2>1. S.windows[x].parent \in Path(S, x)
    BY <1>1, PathIs DEF Closed
  <2> QED
    BY <1>1, <2>1
<1>5. Rooted(T)
  BY <1>1, <1>2, <1>3, <1>4 DEF Rooted
<1>6. S.windows[w].parent \in E
  <2>1. S.windows[w].parent \in D /\ w \notin Path(S, S.windows[w].parent)
    BY PathUp, NoCycle
  <2> QED
    BY <2>1 DEF Subtree
<1> QED
  BY <1>2, <1>3, <1>5, <1>6

(* w is new, inside p. *)
Grown(S, T, w, p) ==
  /\ w \notin DOMAIN S.windows /\ p \in DOMAIN S.windows
  /\ DOMAIN T.windows = DOMAIN S.windows \cup {w}
  /\ T.windows[w].parent = p
  /\ \A x \in DOMAIN S.windows : T.windows[x].parent = S.windows[x].parent

LEMMA GrownPaths ==
  ASSUME NEW S, NEW T, Rooted(S), NEW w, NEW p, Grown(S, T, w, p)
  PROVE  Rooted(T) /\ \A x \in DOMAIN S.windows : Path(T, x) = Path(S, x)
<1> DEFINE D == DOMAIN S.windows
<1> USE DEF Grown
<1>1. ASSUME NEW x \in D PROVE Path(T, x) = Path(S, x)
  <2>1. x \in Path(S, x) /\ Closed(S, Path(S, x)) /\ Path(S, x) \subseteq D
    BY PathIs
  <2>2. Closed(T, Path(S, x)) /\ Path(S, x) \in SUBSET DOMAIN T.windows
    BY <2>1 DEF Closed
  <2>3. Path(T, x) \subseteq Path(S, x)
    BY <2>1, <2>2, PathWithin
  <2>4. ASSUME NEW A \in SUBSET DOMAIN T.windows, x \in A, Closed(T, A)
        PROVE  Path(S, x) \subseteq A
    <3>1. Closed(S, A \cap D) /\ A \cap D \in SUBSET D
      BY <2>4 DEF Closed, Rooted
    <3> QED
      BY <2>4, <3>1, PathWithin
  <2>5. Path(S, x) \subseteq Path(T, x)
    BY <2>1, <2>4 DEF Path
  <2> QED
    BY <2>3, <2>5
<1>2. Root \in Path(T, w)
  <2> SUFFICES ASSUME NEW A \in SUBSET DOMAIN T.windows, w \in A, Closed(T, A) PROVE Root \in A
    BY DEF Path, Rooted
  <2>1. p \in A
    BY DEF Closed, Rooted
  <2>2. Path(T, p) \subseteq A
    BY <2>1, PathWithin
  <2> QED
    BY <2>2, <1>1 DEF Rooted
<1>3. Rooted(T)
  BY <1>1, <1>2 DEF Rooted
<1> QED
  BY <1>1, <1>3
-----------------------------------------------------------------------------
(* Sequences.                                                              *)

(* r has the elements of seq at the wanted places up to n, each place once. *)
Selects(h, r, seq, places) ==
  /\ h \in [1..Len(r) -> places]
  /\ \A j \in 1..Len(r) : r[j] = seq[h[j]]
  /\ \A j, k \in 1..Len(r) : h[j] = h[k] => j = k
  /\ \A i \in places : \E j \in 1..Len(r) : h[j] = i

IsPart(r, seq, places) == \E h : Selects(h, r, seq, places)

LEMMA SelectsMore ==
  ASSUME NEW S, NEW r \in Seq(S), NEW seq, NEW places, IsPart(r, seq, places),
         NEW i, i \notin places, seq[i] \in S
  PROVE  IsPart(Append(r, seq[i]), seq, places \cup {i})
<1>0. PICK h : Selects(h, r, seq, places)
  BY DEF IsPart
<1> DEFINE n == Len(r)
           q == Append(r, seq[i])
           g == [j \in 1..(n + 1) |-> IF j = n + 1 THEN i ELSE h[j]]
<1>1. /\ n \in Nat /\ q \in Seq(S) /\ Len(q) = n + 1 /\ q[n + 1] = seq[i]
      /\ \A j \in 1..n : q[j] = r[j]
  BY AppendProperties, LenProperties
<1>2. /\ h \in [1..n -> places] /\ \A j \in 1..n : r[j] = seq[h[j]]
      /\ \A j, k \in 1..n : h[j] = h[k] => j = k
      /\ \A x \in places : \E j \in 1..n : h[j] = x
  BY <1>0 DEF Selects
<1> HIDE DEF n, q
<1>3. g \in [1..(n + 1) -> places \cup {i}]
  BY <1>1, <1>2
<1>4. ASSUME NEW j \in 1..(n + 1) PROVE q[j] = seq[g[j]]
  <2>1. j = n + 1 \/ j \in 1..n
    BY <1>1
  <2> QED
    BY <1>1, <1>2, <2>1
<1>5. ASSUME NEW j \in 1..(n + 1), NEW k \in 1..(n + 1), g[j] = g[k] PROVE j = k
  <2>1. (j = n + 1 \/ j \in 1..n) /\ (k = n + 1 \/ k \in 1..n)
    BY <1>1
  <2> QED
    BY <1>1, <1>2, <1>5, <2>1
<1>6. ASSUME NEW x \in places \cup {i} PROVE \E j \in 1..(n + 1) : g[j] = x
  <2>1. CASE x = i
    BY <1>1, <2>1
  <2>2. CASE x \in places
    <3>1. PICK j \in 1..n : h[j] = x
      BY <1>2, <2>2
    <3>2. j \in 1..(n + 1) /\ j # n + 1
      BY <1>1
    <3> QED
      BY <3>1, <3>2
  <2> QED
    BY <2>1, <2>2
<1> HIDE DEF g
<1>7. Selects(g, q, seq, places \cup {i})
  BY <1>1, <1>3, <1>4, <1>5, <1>6 DEF Selects
<1> QED
  BY <1>7 DEF q, IsPart

LEMMA PickedSelects ==
  ASSUME NEW S, NEW seq \in Seq(S), NEW wanted \in SUBSET DOMAIN seq
  PROVE  /\ Picked(seq, wanted) \in Seq(S)
         /\ IsPart(Picked(seq, wanted), seq, wanted)
<1> DEFINE n == Len(seq)
           R == Seq(S)
           empty == <<>>
           Place(i) == wanted \cap (1..i)
           St == [i \in 0..n |-> {v \in Seq(S) : IsPart(v, seq, Place(i))}]
           G == [i \in 1..n |-> [v \in Seq(S) |-> IF i \in wanted THEN Append(v, seq[i]) ELSE v]]
           Part(f) == [i \in 0..n |-> IF i = 0 THEN <<>>
                        ELSE IF i \in wanted THEN Append(f[i - 1], seq[i]) ELSE f[i - 1]]
<1>1. n \in Nat /\ DOMAIN seq = 1..n /\ \A i \in 1..n : seq[i] \in S
  BY LenProperties, ElementOfSeq
<1>2. empty \in St[0]
  <2>1. empty \in Seq(S) /\ Len(empty) = 0 /\ Place(0) = {}
    OBVIOUS
  <2> DEFINE h == [j \in 1..0 |-> j]
  <2>2. Selects(h, empty, seq, Place(0))
    BY <2>1 DEF Selects
  <2> QED
    BY <1>1, <2>1, <2>2 DEF IsPart
<1>3. ASSUME NEW i \in 1..n, NEW v \in St[i - 1]
      PROVE  (IF i \in wanted THEN Append(v, seq[i]) ELSE v) \in St[i]
  <2>1. i - 1 \in 0..n /\ i \in 0..n /\ i \notin Place(i - 1)
    BY <1>1
  <2>2. v \in Seq(S) /\ IsPart(v, seq, Place(i - 1))
    BY <2>1
  <2>4. CASE i \in wanted
    <3>1. Place(i) = Place(i - 1) \cup {i}
      BY <1>1, <2>4
    <3> HIDE DEF Place
    <3>2. IsPart(Append(v, seq[i]), seq, Place(i - 1) \cup {i})
      BY <1>1, <2>1, <2>2, SelectsMore
    <3>3. Append(v, seq[i]) \in Seq(S)
      BY <1>1, <2>2
    <3> QED
      BY <2>1, <2>4, <3>1, <3>2, <3>3
  <2>5. CASE i \notin wanted
    <3>1. Place(i) = Place(i - 1)
      BY <1>1, <2>5
    <3> HIDE DEF Place
    <3> QED
      BY <2>1, <2>2, <2>5, <3>1
  <2> QED
    BY <2>4, <2>5
<1>a. \A i \in 1..n : \A v \in Seq(S) :
        G[i][v] = IF i \in wanted THEN Append(v, seq[i]) ELSE v
  OBVIOUS
<1>b. \A i \in 0..n : St[i] \subseteq R
  OBVIOUS
<1>w. Place(n) = wanted
  BY <1>1
<1>s. \A i \in 0..n : \A v \in St[i] : v \in Seq(S) /\ IsPart(v, seq, Place(i))
  OBVIOUS
<1> HIDE DEF n, St, G, R, empty, Place
<1>4. ASSUME NEW i \in 1..n, NEW v \in St[i - 1] PROVE G[i][v] \in St[i]
  <2>1. i - 1 \in 0..n
    BY <1>1
  <2>2. G[i][v] = IF i \in wanted THEN Append(v, seq[i]) ELSE v
    BY <1>a, <1>s, <2>1
  <2> QED
    BY <1>3, <2>2
<1>c. Leads(n, R, St, empty, G)
  BY <1>1, <1>2, <1>4, <1>b DEF Leads
<1>d. PICK f : Follows(f, n, R, St, empty, G)
  BY <1>c, Iteration
<1>5. /\ f \in [0..n -> R] /\ f[0] = empty
      /\ \A i \in 1..n : f[i] = G[i][f[i - 1]]
  BY <1>d DEF Follows
<1>6. \A i \in 1..n : f[i - 1] \in Seq(S)
  BY <1>1, <1>5 DEF R
<1>7. f = Part(f)
  <2>1. \A i \in 1..n : G[i][f[i - 1]] = IF i \in wanted THEN Append(f[i - 1], seq[i]) ELSE f[i - 1]
    BY <1>6, <1>a
  <2>2. \A i \in (0..n) \ {0} : i \in 1..n
    BY <1>1, SMTT(40)
  <2> QED
    BY <1>5, <2>1, <2>2 DEF empty
<1> DEFINE part == CHOOSE g : g = Part(g)
<1>8. part = Part(part)
  BY <1>7
<1>9. Picked(seq, wanted) = part[n]
  BY DEF Picked, n
<1> HIDE DEF part
<1>10. part[0] = <<>> /\ \A i \in 1..n : part[i] = IF i \in wanted THEN Append(part[i - 1], seq[i]) ELSE part[i - 1]
  <2>1. 0 \in 0..n /\ \A i \in 1..n : i \in 0..n /\ i # 0
    BY <1>1
  <2> QED
    BY <1>8, <2>1
<1>11. \A i \in 0..n : part[i] \in St[i]
  <2>1. \A i \in 1..n : part[i - 1] \in St[i - 1] => part[i] \in St[i]
    BY <1>3, <1>10
  <2> QED
    BY <1>1, <1>2, <1>10, <2>1, IterationStays DEF empty
<1>12. part[n] \in St[n] /\ n \in 0..n
  BY <1>1, <1>11
<1> QED
  BY <1>9, <1>12, <1>s, <1>w

(* A list without repetition. *)
Once(seq) == \A i, j \in 1..Len(seq) : seq[i] = seq[j] => i = j

LEMMA SequenceIs ==
  ASSUME NEW S, NEW seq \in Seq(S)
  PROVE  /\ Len(seq) \in Nat /\ DOMAIN seq = 1..Len(seq)
         /\ \A i \in 1..Len(seq) : seq[i] \in S
         /\ IsInjective(seq) <=> Once(seq)
         /\ ToSet(seq) \subseteq S
<1>1. Len(seq) \in Nat /\ DOMAIN seq = 1..Len(seq) /\ \A i \in 1..Len(seq) : seq[i] \in S
  BY LenProperties, ElementOfSeq
<1> QED
  BY <1>1 DEF ToSet, IsInjective, Once

LEMMA WithoutIs ==
  ASSUME NEW S, NEW seq \in Seq(S), NEW w
  PROVE  /\ Without(seq, w) \in Seq(S)
         /\ ToSet(Without(seq, w)) = ToSet(seq) \ {w}
         /\ Once(seq) => Once(Without(seq, w))
<1> DEFINE r == Without(seq, w)
           places == {i \in DOMAIN seq : seq[i] # w}
<1>1. r = Picked(seq, places)
  BY DEF Without
<1> HIDE DEF r
<1>2. r \in Seq(S) /\ IsPart(r, seq, places)
  BY <1>1, PickedSelects
<1>3. PICK h : Selects(h, r, seq, places)
  BY <1>2 DEF IsPart
<1>4. /\ h \in [1..Len(r) -> places]
      /\ \A j \in 1..Len(r) : r[j] = seq[h[j]]
      /\ \A j, k \in 1..Len(r) : h[j] = h[k] => j = k
      /\ \A i \in places : \E j \in 1..Len(r) : h[j] = i
  BY <1>3 DEF Selects
<1>5. DOMAIN r = 1..Len(r) /\ DOMAIN seq = 1..Len(seq)
  BY <1>2
<1>6. ToSet(r) = ToSet(seq) \ {w}
  <2>1. ASSUME NEW x \in ToSet(r) PROVE x \in ToSet(seq) \ {w}
    <3>1. PICK j \in 1..Len(r) : x = r[j]
      BY <1>5 DEF ToSet
    <3>2. h[j] \in places /\ x = seq[h[j]]
      BY <1>4, <3>1
    <3> QED
      BY <3>2 DEF ToSet
  <2>2. ASSUME NEW x \in ToSet(seq) \ {w} PROVE x \in ToSet(r)
    <3>1. PICK i \in DOMAIN seq : x = seq[i]
      BY DEF ToSet
    <3>2. i \in places
      BY <3>1
    <3>3. PICK j \in 1..Len(r) : h[j] = i
      BY <1>4, <3>2
    <3> QED
      BY <1>4, <1>5, <3>1, <3>3 DEF ToSet
  <2> QED
    BY <2>1, <2>2
<1>7. Once(seq) => Once(r)
  BY <1>4, <1>5 DEF Once
<1> QED
  BY <1>2, <1>6, <1>7 DEF r

LEMMA EntriesAre ==
  ASSUME NEW seq \in Seq(SaveSetEntry), NEW gone
  PROVE  LET r == EntriesWithout(seq, gone)
         IN /\ r \in Seq(SaveSetEntry)
            /\ \A j \in 1..Len(r) : /\ r[j].window \notin gone
                                    /\ \E i \in 1..Len(seq) : r[j] = seq[i]
            /\ (\A i, j \in 1..Len(seq) : seq[i].window = seq[j].window => i = j)
                 => \A i, j \in 1..Len(r) : r[i].window = r[j].window => i = j
<1> DEFINE r == EntriesWithout(seq, gone)
           places == {i \in DOMAIN seq : seq[i].window \notin gone}
<1>1. r = Picked(seq, places)
  BY DEF EntriesWithout
<1> HIDE DEF r
<1>2. r \in Seq(SaveSetEntry) /\ IsPart(r, seq, places)
  BY <1>1, PickedSelects
<1>3. PICK h : Selects(h, r, seq, places)
  BY <1>2 DEF IsPart
<1>4. /\ h \in [1..Len(r) -> places]
      /\ \A j \in 1..Len(r) : r[j] = seq[h[j]]
      /\ \A j, k \in 1..Len(r) : h[j] = h[k] => j = k
  BY <1>3 DEF Selects
<1>5. DOMAIN seq = 1..Len(seq)
  BY LenProperties
<1>6. \A j \in 1..Len(r) : h[j] \in 1..Len(seq) /\ seq[h[j]].window \notin gone
  BY <1>4, <1>5
<1>7. \A j \in 1..Len(r) : r[j].window \notin gone /\ \E i \in 1..Len(seq) : r[j] = seq[i]
  BY <1>4, <1>6
<1>8. (\A i, j \in 1..Len(seq) : seq[i].window = seq[j].window => i = j)
        => \A i, j \in 1..Len(r) : r[i].window = r[j].window => i = j
  BY <1>4, <1>6, SMTT(40)
<1> QED
  BY <1>2, <1>7, <1>8 DEF r

LEMMA AppendedIs ==
  ASSUME NEW S, NEW seq \in Seq(S), NEW e \in S
  PROVE  /\ Append(seq, e) \in Seq(S)
         /\ ToSet(Append(seq, e)) = ToSet(seq) \cup {e}
         /\ Once(seq) /\ e \notin ToSet(seq) => Once(Append(seq, e))
<1> DEFINE n == Len(seq)
           q == Append(seq, e)
<1>1. /\ n \in Nat /\ q \in Seq(S) /\ Len(q) = n + 1 /\ q[n + 1] = e
      /\ \A j \in 1..n : q[j] = seq[j]
      /\ DOMAIN seq = 1..n /\ DOMAIN q = 1..(n + 1)
  BY AppendProperties, LenProperties
<1> HIDE DEF n, q
<1>2. \A j \in 1..(n + 1) : j = n + 1 \/ j \in 1..n
  BY <1>1
<1>3. n + 1 \in 1..(n + 1) /\ \A j \in 1..n : j \in 1..(n + 1)
  BY <1>1
<1>4. ToSet(q) = ToSet(seq) \cup {e}
  BY <1>1, <1>2, <1>3 DEF ToSet
<1>5. Once(seq) /\ e \notin ToSet(seq) => Once(q)
  <2> SUFFICES ASSUME Once(seq), e \notin ToSet(seq), NEW i \in 1..(n + 1), NEW j \in 1..(n + 1),
                      q[i] = q[j]
               PROVE  i = j
    BY <1>1 DEF Once
  <2>1. \A k \in 1..n : seq[k] # e
    BY <1>1 DEF ToSet
  <2> QED
    BY <1>1, <1>2, <2>1 DEF Once, n
<1> QED
  BY <1>1, <1>4, <1>5 DEF q

LEMMA InsertedIs ==
  ASSUME NEW S, NEW seq \in Seq(S), NEW e \in S, NEW k \in 1..(Len(seq) + 1)
  PROVE  LET q == InsertAt(seq, k, e)
         IN /\ q \in Seq(S) /\ ToSet(q) = ToSet(seq) \cup {e}
            /\ Once(seq) /\ e \notin ToSet(seq) => Once(q)
<1> DEFINE n == Len(seq)
           a == SubSeq(seq, 1, k - 1)
           b == SubSeq(seq, k, n)
           q == InsertAt(seq, k, e)
<1>1. n \in Nat /\ DOMAIN seq = 1..n /\ \A i \in 1..n : seq[i] \in S
  BY LenProperties, ElementOfSeq
<1>2. a \in Seq(S) /\ Len(a) = k - 1 /\ \A i \in 1..(k - 1) : a[i] = seq[i]
  BY <1>1
<1>3. b \in Seq(S) /\ Len(b) = n - k + 1 /\ \A i \in 1..(n - k + 1) : b[i] = seq[k + i - 1]
  BY <1>1, SubSeqProperties
<1>4. q = a \o <<e>> \o b
  BY DEF InsertAt
<1> HIDE DEF a, b, q
<1>5. a \o <<e>> \in Seq(S) /\ Len(a \o <<e>>) = k
      /\ \A i \in 1..k : (a \o <<e>>)[i] = IF i < k THEN seq[i] ELSE e
  BY <1>1, <1>2
<1>6. /\ q \in Seq(S) /\ Len(q) = n + 1
      /\ \A i \in 1..k : q[i] = (a \o <<e>>)[i]
      /\ \A i \in 1..(n - k + 1) : q[k + i] = b[i]
  <2> DEFINE c == a \o <<e>>
  <2> HIDE DEF c
  <2>1. c \in Seq(S) /\ Len(c) = k
    BY <1>5 DEF c
  <2>2. /\ c \o b \in Seq(S) /\ Len(c \o b) = Len(c) + Len(b)
        /\ \A i \in 1..Len(c) : (c \o b)[i] = c[i]
        /\ \A i \in 1..Len(b) : (c \o b)[Len(c) + i] = b[i]
    BY <2>1, <1>3, ConcatProperties
  <2>3. q = c \o b
    BY <1>4 DEF c
  <2> QED
    BY <1>1, <1>3, <2>1, <2>2, <2>3, SMTT(40) DEF c
<1>7. ASSUME NEW i \in 1..(n + 1)
      PROVE  q[i] = IF i < k THEN seq[i] ELSE IF i = k THEN e ELSE seq[i - 1]
  <2>1. CASE i <= k
    BY <1>1, <1>5, <1>6, <2>1
  <2>2. CASE i > k
    <3>1. i - k \in 1..(n - k + 1) /\ k + (i - k) = i /\ k + (i - k) - 1 = i - 1
      BY <1>1, <2>2
    <3>2. q[k + (i - k)] = b[i - k] /\ b[i - k] = seq[k + (i - k) - 1]
      BY <1>3, <1>6, <3>1
    <3> QED
      BY <1>1, <2>2, <3>1, <3>2
  <2> QED
    BY <1>1, <2>1, <2>2
<1>8. DOMAIN q = 1..(n + 1)
  BY <1>1, <1>6
<1>9. ToSet(q) = ToSet(seq) \cup {e}
  <2>1. ASSUME NEW x \in ToSet(q) PROVE x \in ToSet(seq) \cup {e}
    <3>1. PICK i \in 1..(n + 1) : x = q[i]
      BY <1>8 DEF ToSet
    <3>2. i < k => i \in DOMAIN seq
      BY <1>1
    <3>3. i > k => i - 1 \in DOMAIN seq
      BY <1>1
    <3>4. i < k \/ i = k \/ i > k
      BY <1>1
    <3> QED
      BY <1>1, <1>7, <3>1, <3>2, <3>3, <3>4 DEF ToSet
  <2>2. ASSUME NEW i \in 1..n PROVE seq[i] \in ToSet(q)
    <3>1. CASE i < k
      <4>1. i \in 1..(n + 1)
        BY <1>1
      <4> QED
        BY <1>7, <1>8, <3>1, <4>1 DEF ToSet
    <3>2. CASE i >= k
      <4>1. i + 1 \in 1..(n + 1) /\ ~ (i + 1 < k) /\ i + 1 # k /\ (i + 1) - 1 = i
        BY <1>1, <3>2
      <4> QED
        BY <1>7, <1>8, <4>1 DEF ToSet
    <3> QED
      BY <1>1, <3>1, <3>2
  <2>3. e \in ToSet(q)
    <3>1. k \in 1..(n + 1) /\ ~ (k < k)
      BY <1>1
    <3> QED
      BY <1>7, <1>8, <3>1 DEF ToSet
  <2>4. ToSet(seq) = {seq[i] : i \in 1..n}
    BY <1>1 DEF ToSet
  <2> QED
    BY <2>1, <2>2, <2>3, <2>4
<1>10. Once(seq) /\ e \notin ToSet(seq) => Once(q)
  <2> SUFFICES ASSUME Once(seq), e \notin ToSet(seq), NEW i \in 1..(n + 1), NEW j \in 1..(n + 1),
                      q[i] = q[j]
               PROVE  i = j
    BY <1>6 DEF Once
  <2>1. \A x \in 1..n : seq[x] # e
    BY <1>1 DEF ToSet
  <2>2. \A x, y \in 1..n : seq[x] = seq[y] => x = y
    BY DEF Once
  <2>a. k \in 1..(n + 1)
    OBVIOUS
  <2> HIDE DEF n
  <2>3. \A x \in 1..(n + 1) : (x < k => x \in 1..n) /\ (x > k => x - 1 \in 1..n)
    BY <1>1
  <2>4. q[i] = IF i < k THEN seq[i] ELSE IF i = k THEN e ELSE seq[i - 1]
    BY <1>7
  <2>5. q[j] = IF j < k THEN seq[j] ELSE IF j = k THEN e ELSE seq[j - 1]
    BY <1>7
  <2> DEFINE place(x) == IF x < k THEN x ELSE x - 1
  <2>6. \A x \in 1..(n + 1) : x # k => place(x) \in 1..n
    BY <2>3, <2>a, <1>1
  <2>7. (i # k => q[i] = seq[place(i)]) /\ (i = k => q[i] = e)
    BY <2>4, <2>a
  <2>8. (j # k => q[j] = seq[place(j)]) /\ (j = k => q[j] = e)
    BY <2>5, <2>a
  <2>9. \A x, y \in 1..(n + 1) : x # k /\ y # k /\ place(x) = place(y) => x = y
    BY <2>a, <1>1
  <2> HIDE DEF place
  <2>10. (i = k) <=> (j = k)
    BY <2>1, <2>6, <2>7, <2>8
  <2> QED
    BY <2>2, <2>6, <2>7, <2>8, <2>9, <2>10
<1> QED
  BY <1>6, <1>9, <1>10 DEF q
-----------------------------------------------------------------------------
(* The inductive invariant, of a state as a record.                        *)

WindowTable == UNION {[D -> WindowRecord] : D \in SUBSET Id}
FocusState == [kind : {"none", "pointer_root", "window"}, window : Id \cup {None},
               revert : {"none", "pointer_root", "parent"}]
StateSet ==
  [windows : WindowTable, focus : FocusState, pointer : ActiveGrab \cup {None},
   keyboard : ActiveGrab \cup {None}, passive : SUBSET PassiveGrab,
   selections : [Selection -> [window : Id \cup {None}, client : Client \cup {None}]],
   saves : [Client -> Seq(SaveSetEntry)]]

(* The windows form a tree, and each lists its children. *)
Listed(S) ==
  \A p \in DOMAIN S.windows :
    /\ Once(S.windows[p].children)
    /\ ToSet(S.windows[p].children) = {w \in DOMAIN S.windows : S.windows[w].parent = p}
Classed(S) ==
  \A w \in DOMAIN S.windows \ {Root} :
    S.windows[w].class = "io" => S.windows[S.windows[w].parent].class = "io"
Tree(S) ==
  /\ Rooted(S) /\ Listed(S) /\ Classed(S)
  /\ S.windows[Root].parent = None /\ S.windows[Root].owner = None

Owned(S, owners) == \A w \in DOMAIN S.windows \ {Root} : S.windows[w].owner \in owners
Redirects(S, conn) == \A w \in DOMAIN S.windows : S.windows[w].redirect \in conn \cup {None}

(* Focus and grabs are on windows that are viewable or inside h. *)
Shown(S, w, h) == w \in DOMAIN S.windows /\ (Viewable(S, w) \/ h \in Path(S, w))
FocusShown(S, h) == S.focus.kind = "window" => Shown(S, S.focus.window, h)
PointerShown(S, h) ==
  S.pointer # None =>
    /\ Shown(S, S.pointer.window, h)
    /\ S.pointer.kind = "explicit" /\ S.pointer.confine # None => Shown(S, S.pointer.confine, h)
KeyboardShown(S, h) ==
  S.keyboard # None => S.keyboard.confine = None /\ Shown(S, S.keyboard.window, h)
Seen(S, h) == FocusShown(S, h) /\ PointerShown(S, h) /\ KeyboardShown(S, h)

(* What refers to windows and clients refers to those there are. *)
GrabKept(g, D, conn) == {g.window, g.confine} \subseteq D \cup {None} /\ g.owner \in conn
GrabsKept(S, conn) ==
  /\ \A g \in S.passive : GrabKept(g, DOMAIN S.windows, conn)
  /\ S.pointer # None => GrabKept(S.pointer, DOMAIN S.windows, conn)
  /\ S.keyboard # None => GrabKept(S.keyboard, DOMAIN S.windows, conn)
SelectionsKept(S, conn) ==
  \A s \in Selection :
    \/ S.selections[s] = [window |-> None, client |-> None]
    \/ S.selections[s].window \in DOMAIN S.windows /\ S.selections[s].client \in conn
SavesKept(S, conn) ==
  \A c \in Client :
    /\ \A i \in 1..Len(S.saves[c]) :
         /\ c \in conn /\ S.saves[c][i].window \in DOMAIN S.windows
         /\ S.windows[S.saves[c][i].window].owner # c
    /\ \A i, j \in 1..Len(S.saves[c]) : S.saves[c][i].window = S.saves[c][j].window => i = j
Kept(S, conn) == GrabsKept(S, conn) /\ SelectionsKept(S, conn) /\ SavesKept(S, conn)

Good(S, owners, conn) ==
  /\ S \in StateSet /\ Tree(S) /\ Owned(S, owners) /\ Redirects(S, conn)
  /\ Seen(S, None) /\ Kept(S, conn)

IInv == clients \subseteq Client /\ Good(State, clients, clients)

LEMMA TableIs ==
  ASSUME NEW S \in StateSet
  PROVE  /\ S.windows \in [DOMAIN S.windows -> WindowRecord] /\ DOMAIN S.windows \subseteq Id
         /\ \A w \in DOMAIN S.windows : S.windows[w] \in WindowRecord
         /\ S.focus \in FocusState
         /\ S = [windows |-> S.windows, focus |-> S.focus, pointer |-> S.pointer,
                 keyboard |-> S.keyboard, passive |-> S.passive,
                 selections |-> S.selections, saves |-> S.saves]
<1>1. S.windows \in WindowTable /\ S.focus \in FocusState
  BY DEF StateSet
<1>2. S.windows \in [DOMAIN S.windows -> WindowRecord] /\ DOMAIN S.windows \subseteq Id
  BY <1>1 DEF WindowTable
<1>3. \A w \in DOMAIN S.windows : S.windows[w] \in WindowRecord
  BY <1>2
<1>4. S = [windows |-> S.windows, focus |-> S.focus, pointer |-> S.pointer,
           keyboard |-> S.keyboard, passive |-> S.passive,
           selections |-> S.selections, saves |-> S.saves]
  BY DEF StateSet
<1> QED
  BY <1>1, <1>2, <1>3, <1>4

LEMMA TableIn ==
  ASSUME NEW D \in SUBSET Id, NEW t \in [D -> WindowRecord]
  PROVE  t \in WindowTable
  BY DEF WindowTable

(* The identifiers are no client and not None. *)
LEMMA Apart ==
  /\ None \notin Id /\ None \notin Client /\ Root \in Id /\ Root \notin Window
  /\ Window \subseteq Id
  BY TreeAssumption DEF Id

LEMMA NotNone ==
  ASSUME NEW S \in StateSet, NEW w
  PROVE  None \notin DOMAIN S.windows /\ None \notin Path(S, w)
  BY TableIs, Apart DEF Path

(* Focus after it is reverted. *)
LEMMA RevertedIs ==
  ASSUME NEW S \in StateSet, Rooted(S), NEW u,
         S.focus.kind = "window" => S.focus.window \in DOMAIN S.windows
  PROVE  LET f == reverted_focus_state(S, u)
         IN /\ f \in FocusState
            /\ f.kind = "window" => /\ f.window \in DOMAIN S.windows
                                    /\ Viewable(S, f.window) /\ u \notin Path(S, f.window)
<1> DEFINE f == S.focus
           usable == {w \in Path(S, f.window) : u \notin Path(S, w) /\ Viewable(S, w)}
           ancestor == ClosestAncestor(S, f.window, usable)
           r == reverted_focus_state(S, u)
<1>1. f \in FocusState /\ DOMAIN S.windows \subseteq Id
  BY TableIs
<1>2. CASE f.kind # "window" \/ f.window \in usable
  <2>1. r = f
    BY <1>2 DEF reverted_focus_state
  <2> QED
    BY <1>1, <1>2, <2>1 DEF Path
<1>3. CASE f.kind = "window" /\ f.window \notin usable
  <2>1. ancestor = None \/ ancestor \in usable
    <3> DEFINE a == ancestor
    <3> HIDE DEF usable
    <3>1. LET candidates == (Path(S, f.window) \ {f.window}) \cap usable
          IN  IF candidates = {} THEN ancestor = None
              ELSE ancestor \in candidates /\ \A b \in candidates : b \in Path(S, ancestor)
      BY <1>3, ClosestIs
    <3> QED
      BY <3>1
  <2>2. ancestor \in usable => ancestor \in DOMAIN S.windows /\ Viewable(S, ancestor)
                                 /\ u \notin Path(S, ancestor)
    BY DEF Path
  <2>3. r = CASE f.revert = "none" -> [f EXCEPT !.kind = "none", !.window = None]
              [] f.revert = "pointer_root" -> [f EXCEPT !.kind = "pointer_root", !.window = None]
              [] f.revert = "parent" ->
                   [kind |-> IF ancestor = None THEN "none" ELSE "window",
                    window |-> ancestor, revert |-> "none"]
    BY <1>3 DEF reverted_focus_state
  <2> HIDE DEF ancestor, usable, r
  <2>4. CASE f.revert \in {"none", "pointer_root"}
    <3>1. r \in FocusState /\ r.kind # "window"
      BY <1>1, <2>3, <2>4 DEF FocusState
    <3> QED
      BY <3>1 DEF r
  <2>5. CASE f.revert = "parent"
    <3>1. r = [kind |-> IF ancestor = None THEN "none" ELSE "window",
               window |-> ancestor, revert |-> "none"]
      BY <2>3, <2>5
    <3>2. r \in FocusState
      BY <3>1, <2>1, <2>2, <1>1 DEF FocusState
    <3>3. r.kind = "window" => ancestor \in usable /\ r.window = ancestor
      BY <3>1, <2>1
    <3> QED
      BY <2>2, <3>2, <3>3 DEF r
  <2> QED
    BY <1>1, <2>4, <2>5 DEF FocusState
<1> QED
  BY <1>2, <1>3
-----------------------------------------------------------------------------
(* Mapping and unmapping.                                                  *)

(* The same windows but for the flags. *)
Flags(S, T) ==
  /\ DOMAIN T.windows = DOMAIN S.windows
  /\ \A x \in DOMAIN S.windows :
       /\ T.windows[x].parent = S.windows[x].parent
       /\ T.windows[x].children = S.windows[x].children
       /\ T.windows[x].owner = S.windows[x].owner
       /\ T.windows[x].class = S.windows[x].class

Fixed(S, T) == T.passive = S.passive /\ T.selections = S.selections /\ T.saves = S.saves
Fewer(S, T) == T.pointer \in {S.pointer, None} /\ T.keyboard \in {S.keyboard, None}

LEMMA FlagsTree ==
  ASSUME NEW S, NEW T, Tree(S), Flags(S, T)
  PROVE  /\ Tree(T) /\ \A w \in DOMAIN S.windows : Path(T, w) = Path(S, w)
         /\ \A w : Subtree(T, w) = Subtree(S, w)
         /\ \A owners : Owned(S, owners) => Owned(T, owners)
<1>1. Alike(S, T) /\ Rooted(S)
  BY DEF Flags, Alike, Tree
<1>2. /\ Rooted(T) /\ \A w \in DOMAIN S.windows : Path(T, w) = Path(S, w)
      /\ \A w : Subtree(T, w) = Subtree(S, w)
  BY <1>1, SamePaths
<1>3. Listed(T)
  <2> SUFFICES ASSUME NEW p \in DOMAIN S.windows
               PROVE  /\ Once(T.windows[p].children)
                      /\ ToSet(T.windows[p].children)
                           = {w \in DOMAIN T.windows : T.windows[w].parent = p}
    BY DEF Listed, Flags
  <2>1. T.windows[p].children = S.windows[p].children
    BY DEF Flags
  <2>2. Once(S.windows[p].children)
        /\ ToSet(S.windows[p].children) = {w \in DOMAIN S.windows : S.windows[w].parent = p}
    BY DEF Tree, Listed
  <2>3. {w \in DOMAIN T.windows : T.windows[w].parent = p}
          = {w \in DOMAIN S.windows : S.windows[w].parent = p}
    BY DEF Flags
  <2> QED
    BY <2>1, <2>2, <2>3
<1>4. Classed(T)
  BY DEF Classed, Tree, Flags, Rooted
<1>5. T.windows[Root].parent = None /\ T.windows[Root].owner = None
  BY DEF Tree, Flags, Rooted
<1>6. \A owners : Owned(S, owners) => Owned(T, owners)
  BY DEF Owned, Flags
<1> QED
  BY <1>2, <1>3, <1>4, <1>5, <1>6 DEF Tree

LEMMA KeptStays ==
  ASSUME NEW S, NEW T, NEW conn, Kept(S, conn), Fixed(S, T), Fewer(S, T),
         DOMAIN S.windows \subseteq DOMAIN T.windows,
         \A x \in DOMAIN S.windows : T.windows[x].owner = S.windows[x].owner
  PROVE  Kept(T, conn)
<1>1. GrabsKept(T, conn)
  BY DEF Kept, GrabsKept, GrabKept, Fixed, Fewer
<1>2. SelectionsKept(T, conn)
  BY DEF Kept, SelectionsKept, Fixed
<1>3. SavesKept(T, conn)
  BY SMTT(40) DEF Kept, SavesKept, Fixed
<1> QED
  BY <1>1, <1>2, <1>3 DEF Kept

(* The windows with some of them marked mapped or unmapped. *)
Marked(S, changed, mapped) ==
  [S EXCEPT !.windows = [w \in DOMAIN @ |->
     IF w \in changed THEN [@[w] EXCEPT !.mapped = mapped] ELSE @[w]]]

Mapping(S, T, changed, mapped) ==
  /\ T \in StateSet /\ Flags(S, T) /\ Fixed(S, T)
  /\ \A x \in DOMAIN S.windows :
       /\ T.windows[x].mapped = IF x \in changed THEN mapped ELSE S.windows[x].mapped
       /\ T.windows[x].redirect = S.windows[x].redirect
       /\ T.windows[x].override = S.windows[x].override

LEMMA MarkedIs ==
  ASSUME NEW S \in StateSet, NEW changed, NEW mapped \in BOOLEAN
  PROVE  LET T == Marked(S, changed, mapped)
         IN /\ Mapping(S, T, changed, mapped)
            /\ T.focus = S.focus /\ T.pointer = S.pointer /\ T.keyboard = S.keyboard
<1> DEFINE D == DOMAIN S.windows
           t == [w \in D |-> IF w \in changed THEN [S.windows[w] EXCEPT !.mapped = mapped]
                             ELSE S.windows[w]]
           T == Marked(S, changed, mapped)
<1>1. T = [S EXCEPT !.windows = t]
  BY DEF Marked
<1>2. S.windows \in [D -> WindowRecord] /\ D \subseteq Id
      /\ \A w \in D : S.windows[w] \in WindowRecord
  BY TableIs
<1>3. ASSUME NEW w \in D
      PROVE  /\ t[w] \in WindowRecord
             /\ t[w].mapped = IF w \in changed THEN mapped ELSE S.windows[w].mapped
             /\ t[w].parent = S.windows[w].parent /\ t[w].children = S.windows[w].children
             /\ t[w].owner = S.windows[w].owner /\ t[w].class = S.windows[w].class
             /\ t[w].redirect = S.windows[w].redirect /\ t[w].override = S.windows[w].override
  <2>1. PICK r \in WindowRecord : r = S.windows[w]
    BY <1>2
  <2>2. t[w] = IF w \in changed THEN [r EXCEPT !.mapped = mapped] ELSE r
    BY <2>1
  <2>3. [r EXCEPT !.mapped = mapped] \in WindowRecord
    BY DEF WindowRecord
  <2>4. LET q == [r EXCEPT !.mapped = mapped]
        IN /\ q.mapped = mapped /\ q.parent = r.parent /\ q.children = r.children
           /\ q.owner = r.owner /\ q.class = r.class /\ q.redirect = r.redirect
           /\ q.override = r.override
    BY DEF WindowRecord
  <2> QED
    BY <2>1, <2>2, <2>3, <2>4
<1>4. DOMAIN t = D /\ t \in [D -> WindowRecord]
  BY <1>3
<1> HIDE DEF t
<1>5. t \in WindowTable
  BY <1>2, <1>4, TableIn
<1>6. /\ T \in StateSet /\ T.windows = t /\ T.focus = S.focus /\ T.pointer = S.pointer
      /\ T.keyboard = S.keyboard /\ T.passive = S.passive /\ T.selections = S.selections
      /\ T.saves = S.saves
  BY <1>1, <1>5 DEF StateSet
<1> HIDE DEF T
<1>7. Flags(S, T) /\ Fixed(S, T)
  BY <1>3, <1>4, <1>6 DEF Flags, Fixed
<1>8. Mapping(S, T, changed, mapped)
  BY <1>3, <1>6, <1>7 DEF Mapping
<1> QED
  BY <1>6, <1>8 DEF T

FocusIn(S) == S.focus.kind = "window" => S.focus.window \in DOMAIN S.windows

LEMMA RevokedIs ==
  ASSUME NEW S \in StateSet, Tree(S), FocusIn(S),
         S.pointer # None => {S.pointer.window, S.pointer.confine} \subseteq DOMAIN S.windows \cup {None},
         S.keyboard # None => S.keyboard.confine = None
  PROVE  LET T == Revoked(S)
         IN /\ T \in StateSet /\ T.windows = S.windows /\ Fixed(S, T) /\ Fewer(S, T)
            /\ Seen(T, None)
<1> DEFINE T == Revoked(S)
           f == reverted_focus_state(S, None)
           p == IF PointerGrabLost(S) THEN None ELSE S.pointer
           k == IF KeyboardGrabLost(S) THEN None ELSE S.keyboard
<1>1. /\ f \in FocusState
      /\ f.kind = "window" => f.window \in DOMAIN S.windows /\ Viewable(S, f.window)
  BY RevertedIs DEF FocusIn, Tree
<1>2. p \in {S.pointer, None} /\ (p # None => p = S.pointer /\ ~PointerGrabLost(S))
  OBVIOUS
<1>3. k \in {S.keyboard, None} /\ (k # None => k = S.keyboard /\ ~KeyboardGrabLost(S))
  OBVIOUS
<1>4. T = [S EXCEPT !.focus = f, !.pointer = p, !.keyboard = k]
  BY DEF Revoked
<1> HIDE DEF f, p, k
<1>5. /\ T \in StateSet /\ T.windows = S.windows /\ T.focus = f /\ T.pointer = p
      /\ T.keyboard = k /\ T.passive = S.passive /\ T.selections = S.selections
      /\ T.saves = S.saves
  BY <1>1, <1>2, <1>3, <1>4, ZenonT(60) DEF StateSet
<1> HIDE DEF T
<1>6. \A w : Path(T, w) = Path(S, w)
  BY <1>5 DEF Path, Closed
<1>7. \A w : Viewable(S, w) => Shown(T, w, None)
  BY <1>5, <1>6 DEF Viewable, Shown
<1>8. Seen(T, None)
  <2>1. FocusShown(T, None)
    BY <1>1, <1>5, <1>7 DEF FocusShown
  <2>2. PointerShown(T, None)
    BY <1>2, <1>5, <1>7 DEF PointerShown, PointerGrabLost
  <2>3. KeyboardShown(T, None)
    BY <1>3, <1>5, <1>7 DEF KeyboardShown, KeyboardGrabLost
  <2> QED
    BY <2>1, <2>2, <2>3 DEF Seen
<1> QED
  BY <1>2, <1>3, <1>5, <1>8 DEF T, Fixed, Fewer
(* Seen of a state that is as another where it matters. *)
LEMMA SeenStays ==
  ASSUME NEW S, NEW T, NEW h, NEW k, Seen(S, h),
         \A x \in DOMAIN S.windows : Shown(S, x, h) => Shown(T, x, k),
         T.focus = S.focus, Fewer(S, T)
  PROVE  Seen(T, k)
<1>1. FocusShown(T, k)
  BY DEF Seen, FocusShown, Shown
<1>2. PointerShown(T, k)
  BY DEF Seen, PointerShown, Shown, Fewer
<1>3. KeyboardShown(T, k)
  BY DEF Seen, KeyboardShown, Shown, Fewer
<1> QED
  BY <1>1, <1>2, <1>3 DEF Seen

LEMMA SeenIn ==
  ASSUME NEW S, NEW h, Seen(S, h), NEW conn, Kept(S, conn)
  PROVE  /\ FocusIn(S)
         /\ S.pointer # None =>
              {S.pointer.window, S.pointer.confine} \subseteq DOMAIN S.windows \cup {None}
         /\ S.keyboard # None => S.keyboard.confine = None
  BY DEF Seen, FocusShown, KeyboardShown, Shown, FocusIn, Kept, GrabsKept, GrabKept

LEMMA MappingsIs ==
  ASSUME NEW S, NEW owners, NEW conn, Good(S, owners, conn), NEW changed, NEW mapped \in BOOLEAN
  PROVE  LET T == update_window_mappings(S, changed, mapped)
         IN Good(T, owners, conn) /\ Mapping(S, T, changed, mapped)
<1> DEFINE M == Marked(S, changed, mapped)
           T == update_window_mappings(S, changed, mapped)
<1>1. /\ S \in StateSet /\ Tree(S) /\ Owned(S, owners) /\ Redirects(S, conn)
      /\ Seen(S, None) /\ Kept(S, conn)
  BY DEF Good
<1>2. /\ Mapping(S, M, changed, mapped)
      /\ M.focus = S.focus /\ M.pointer = S.pointer /\ M.keyboard = S.keyboard
  BY <1>1, MarkedIs
<1>3. T = IF mapped THEN M ELSE Revoked(M)
  BY DEF update_window_mappings, Marked
<1> HIDE DEF M, T
<1>4. M \in StateSet /\ Flags(S, M) /\ Fixed(S, M) /\ Fewer(S, M)
  BY <1>2 DEF Mapping, Fewer
<1>5. /\ Tree(M) /\ Owned(M, owners)
      /\ \A w \in DOMAIN S.windows : Path(M, w) = Path(S, w)
  BY <1>1, <1>4, FlagsTree
<1>6. Redirects(M, conn)
  BY <1>1, <1>2, <1>4 DEF Redirects, Mapping, Flags
<1>7. Kept(M, conn)
  BY <1>1, <1>4, KeptStays DEF Flags
<1>8. CASE mapped
  <2>1. ASSUME NEW x \in DOMAIN S.windows, Shown(S, x, None) PROVE Shown(M, x, None)
    <3>1. Path(M, x) = Path(S, x) /\ Path(S, x) \subseteq DOMAIN S.windows /\ None \notin Path(S, x)
      BY <1>1, <1>5, NotNone, PathIs DEF Tree
    <3>2. \A y \in Path(S, x) : S.windows[y].mapped
      BY <2>1, <3>1 DEF Shown, Viewable
    <3>3. \A y \in Path(S, x) : M.windows[y].mapped
      BY <1>2, <1>8, <3>1, <3>2 DEF Mapping
    <3> QED
      BY <1>4, <3>1, <3>3 DEF Shown, Viewable, Flags
  <2>2. Seen(M, None)
    BY <1>1, <1>2, <1>4, <2>1, SeenStays
  <2> QED
    BY <1>2, <1>3, <1>4, <1>5, <1>6, <1>7, <1>8, <2>2 DEF Good, T
<1>9. CASE ~ mapped
  <2>1. /\ FocusIn(M)
        /\ M.pointer # None =>
             {M.pointer.window, M.pointer.confine} \subseteq DOMAIN M.windows \cup {None}
        /\ M.keyboard # None => M.keyboard.confine = None
    BY <1>1, <1>2, <1>4, SeenIn DEF FocusIn, Flags
  <2>2. /\ T \in StateSet /\ T.windows = M.windows /\ Fixed(M, T) /\ Fewer(M, T)
        /\ Seen(T, None)
    BY <1>3, <1>4, <1>5, <1>9, <2>1, RevokedIs
  <2>3. Flags(M, T) /\ Redirects(T, conn)
    BY <1>6, <2>2 DEF Flags, Redirects
  <2>4. Tree(T) /\ Owned(T, owners)
    BY <1>5, <2>3, FlagsTree
  <2>5. Kept(T, conn)
    BY <1>7, <2>2, KeptStays
  <2>6. Mapping(S, T, changed, mapped)
    BY <1>2, <2>2 DEF Mapping, Flags, Fixed
  <2> QED
    BY <2>2, <2>3, <2>4, <2>5, <2>6 DEF Good, T
<1> QED
  BY <1>8, <1>9

LEMMA NoMapping ==
  ASSUME NEW S \in StateSet, NEW changed, NEW mapped,
         \A x \in changed \cap DOMAIN S.windows : S.windows[x].mapped = mapped
  PROVE  Mapping(S, S, changed, mapped)
  BY DEF Mapping, Flags, Fixed

LEMMA SetMappedIs ==
  ASSUME NEW S, NEW owners, NEW conn, Good(S, owners, conn), NEW w \in DOMAIN S.windows,
         NEW mapped \in BOOLEAN
  PROVE  LET T == set_window_mapped(S, w, mapped)
         IN Good(T, owners, conn) /\ Mapping(S, T, {w}, mapped)
<1>1. CASE S.windows[w].mapped = mapped
  <2>1. set_window_mapped(S, w, mapped) = S
    BY <1>1 DEF set_window_mapped
  <2>2. Mapping(S, S, {w}, mapped)
    BY <1>1, NoMapping DEF Good
  <2> QED
    BY <2>1, <2>2
<1>2. CASE S.windows[w].mapped # mapped
  <2>1. set_window_mapped(S, w, mapped) = update_window_mappings(S, {w}, mapped)
    BY <1>2 DEF set_window_mapped
  <2> QED
    BY <2>1, MappingsIs
<1> QED
  BY <1>1, <1>2

LEMMA SetSubwindowsMappedIs ==
  ASSUME NEW S, NEW owners, NEW conn, Good(S, owners, conn), NEW w \in DOMAIN S.windows,
         NEW mapped \in BOOLEAN
  PROVE  LET T == set_subwindows_mapped(S, w, mapped)
         IN Good(T, owners, conn) /\ Flags(S, T)
<1> DEFINE changed == {x \in ToSet(S.windows[w].children) : S.windows[x].mapped # mapped}
<1>1. set_subwindows_mapped(S, w, mapped) =
        IF changed = {} THEN S ELSE update_window_mappings(S, changed, mapped)
  BY DEF set_subwindows_mapped
<1> HIDE DEF changed
<1>2. LET T == update_window_mappings(S, changed, mapped) IN Good(T, owners, conn) /\ Flags(S, T)
  BY MappingsIs DEF Mapping
<1>3. Flags(S, S)
  BY DEF Flags
<1> QED
  BY <1>1, <1>2, <1>3
-----------------------------------------------------------------------------
(* A window gets another parent.                                           *)

(* A record but for parent and children. *)
SameBody(r, q) ==
  /\ q.owner = r.owner /\ q.class = r.class /\ q.mapped = r.mapped
  /\ q.override = r.override /\ q.redirect = r.redirect
SameBodies(S, T) == \A x \in DOMAIN S.windows : SameBody(S.windows[x], T.windows[x])

WithParent(r, p) == [r EXCEPT !.parent = p]
WithChildren(r, list) == [r EXCEPT !.children = list]

LEMMA RecordWith ==
  ASSUME NEW r \in WindowRecord, NEW p \in Id \cup {None}, NEW list \in Seq(Window)
  PROVE  /\ WithParent(r, p) \in WindowRecord /\ SameBody(r, WithParent(r, p))
         /\ WithParent(r, p).parent = p /\ WithParent(r, p).children = r.children
         /\ WithChildren(r, list) \in WindowRecord /\ SameBody(r, WithChildren(r, list))
         /\ WithChildren(r, list).parent = r.parent /\ WithChildren(r, list).children = list
  BY DEF WindowRecord, SameBody, WithParent, WithChildren

LEMMA ChildrenAre ==
  ASSUME NEW S \in StateSet, NEW x \in DOMAIN S.windows
  PROVE  S.windows[x].children \in Seq(Window)
  BY TableIs DEF WindowRecord

LEMMA WindowIs ==
  ASSUME NEW S \in StateSet, NEW x \in DOMAIN S.windows, x # Root
  PROVE  x \in Window
  BY TableIs DEF Id

(* Without id in its old list, and at the end of the new one. *)
Relisted(S, id, parent, x) ==
  LET rest == IF x = S.windows[id].parent THEN Without(S.windows[x].children, id)
              ELSE S.windows[x].children
  IN IF x = parent THEN Append(rest, id) ELSE rest

LEMMA RelistedIs ==
  ASSUME NEW S \in StateSet, Tree(S), NEW id \in DOMAIN S.windows \ {Root},
         NEW parent \in DOMAIN S.windows, NEW x \in DOMAIN S.windows
  PROVE  /\ Relisted(S, id, parent, x) \in Seq(Window)
         /\ Once(Relisted(S, id, parent, x))
         /\ ToSet(Relisted(S, id, parent, x))
              = {w \in DOMAIN S.windows : IF w = id THEN parent = x ELSE S.windows[w].parent = x}
<1> DEFINE list == S.windows[x].children
           old == S.windows[id].parent
           rest == IF x = old THEN Without(list, id) ELSE list
           D == DOMAIN S.windows
<1>1. list \in Seq(Window) /\ id \in Window
  BY ChildrenAre, WindowIs
<1>2. Once(list) /\ ToSet(list) = {w \in D : S.windows[w].parent = x}
  BY DEF Tree, Listed
<1>3. /\ Without(list, id) \in Seq(Window)
      /\ ToSet(Without(list, id)) = ToSet(list) \ {id} /\ Once(Without(list, id))
  BY <1>1, <1>2, WithoutIs
<1> HIDE DEF list
<1>4. /\ rest \in Seq(Window) /\ Once(rest)
      /\ ToSet(rest) = {w \in D : w # id /\ S.windows[w].parent = x}
  BY <1>1, <1>2, <1>3
<1>5. Relisted(S, id, parent, x) = IF x = parent THEN Append(rest, id) ELSE rest
  BY DEF Relisted, list
<1> HIDE DEF rest
<1>6. /\ Append(rest, id) \in Seq(Window) /\ ToSet(Append(rest, id)) = ToSet(rest) \cup {id}
      /\ Once(Append(rest, id))
  <2>1. id \notin ToSet(rest)
    BY <1>4
  <2> QED
    BY <1>1, <1>4, <2>1, AppendedIs
<1>7. CASE x = parent
  BY <1>4, <1>5, <1>6, <1>7
<1>8. CASE x # parent
  BY <1>4, <1>5, <1>8
<1> QED
  BY <1>7, <1>8

LEMMA MovedIs ==
  ASSUME NEW S \in StateSet, Tree(S), NEW id \in DOMAIN S.windows \ {Root},
         NEW parent \in DOMAIN S.windows, id \notin Path(S, parent)
  PROVE  LET T == Moved(S, id, parent)
         IN /\ T \in StateSet /\ MovedTo(S, T, id, parent) /\ SameBodies(S, T) /\ Listed(T)
            /\ Fixed(S, T) /\ T.focus = S.focus /\ T.pointer = S.pointer
            /\ T.keyboard = S.keyboard
<1> DEFINE D == DOMAIN S.windows
           W == S.windows
           old == W[id].parent
           cut == [W EXCEPT ![old].children = Without(@, id), ![id].parent = parent]
           t == [cut EXCEPT ![parent].children = Append(@, id)]
           list(x) == Relisted(S, id, parent, x)
           T == Moved(S, id, parent)
<1>1. /\ W \in [D -> WindowRecord] /\ D \subseteq Id /\ \A w \in D : W[w] \in WindowRecord
  BY TableIs
<1>2. old \in D /\ old # id /\ parent # id
  <2>1. Rooted(S)
    BY DEF Tree
  <2>2. old \in D /\ id \notin Path(S, old)
    BY <2>1, PathUp, NoCycle
  <2>3. old \in Path(S, old) /\ parent \in Path(S, parent)
    BY <2>1, <2>2, PathIs
  <2> QED
    BY <2>2, <2>3
<1>3. T = [S EXCEPT !.windows = t]
  BY DEF Moved
<1>a. DOMAIN cut = D /\ DOMAIN t = D
  BY <1>1
<1>b. \A x \in D : cut[x] = IF x = id THEN WithParent(W[x], parent)
                           ELSE IF x = old THEN WithChildren(W[x], Without(W[x].children, id))
                           ELSE W[x]
  BY <1>1, <1>2 DEF WithParent, WithChildren
<1> HIDE DEF cut
<1>c. \A x \in D : t[x] = IF x = parent THEN WithChildren(cut[x], Append(cut[x].children, id))
                         ELSE cut[x]
  BY <1>1, <1>a DEF WithChildren
<1>4. ASSUME NEW x \in D
      PROVE  /\ t[x] \in WindowRecord /\ SameBody(W[x], t[x])
             /\ t[x].parent = IF x = id THEN parent ELSE W[x].parent
             /\ t[x].children = list(x)
  <2> DEFINE r == W[x]
             rest == Without(r.children, id)
             b == cut[x]
             more == Append(b.children, id)
             c == t[x]
  <2>1. b = IF x = id THEN WithParent(r, parent) ELSE IF x = old THEN WithChildren(r, rest) ELSE r
    BY <1>b
  <2>2. c = IF x = parent THEN WithChildren(b, more) ELSE b
    BY <1>c
  <2>3. r \in WindowRecord /\ r.children \in Seq(Window) /\ id \in Window /\ parent \in Id
    BY <1>1, ChildrenAre, WindowIs
  <2>4. rest \in Seq(Window)
    BY <2>3, WithoutIs
  <2>5. SameBody(r, r)
    BY DEF SameBody
  <2> HIDE DEF r, rest, b, c
  <2>6. /\ b \in WindowRecord /\ SameBody(r, b) /\ b.parent = IF x = id THEN parent ELSE r.parent
        /\ b.children = IF x = old THEN rest ELSE r.children
    BY <1>2, <2>1, <2>3, <2>4, <2>5, RecordWith
  <2>7. b.children \in Seq(Window) /\ more \in Seq(Window)
    BY <2>3, <2>4, <2>6
  <2> HIDE DEF more
  <2>8. /\ c \in WindowRecord /\ SameBody(r, c) /\ c.parent = b.parent
        /\ c.children = IF x = parent THEN more ELSE b.children
    <3>1. CASE x = parent
      <4>1. /\ c \in WindowRecord /\ SameBody(b, c) /\ c.parent = b.parent /\ c.children = more
        BY <2>2, <2>3, <2>6, <2>7, <3>1, RecordWith
      <4> QED
        BY <2>6, <3>1, <4>1 DEF SameBody
    <3>2. CASE x # parent
      BY <2>2, <2>6, <3>2
    <3> QED
      BY <3>1, <3>2
  <2>9. c.children = list(x)
    BY <2>6, <2>8 DEF Relisted, more, rest, r
  <2> QED
    BY <2>6, <2>8, <2>9 DEF r, c
<1>d. t = [x \in DOMAIN t |-> t[x]]
  BY <1>a
<1>5. DOMAIN t = D
  BY <1>a
<1> HIDE DEF t, list
<1>6. t \in WindowTable
  <2>1. t \in [D -> WindowRecord]
    BY <1>4, <1>5, <1>d
  <2> QED
    BY <1>1, <2>1, TableIn
<1>7. /\ T \in StateSet /\ T.windows = t /\ T.focus = S.focus /\ T.pointer = S.pointer
      /\ T.keyboard = S.keyboard /\ T.passive = S.passive /\ T.selections = S.selections
      /\ T.saves = S.saves
  BY <1>3, <1>6 DEF StateSet
<1> HIDE DEF T
<1>8. MovedTo(S, T, id, parent)
  BY <1>4, <1>5, <1>7 DEF MovedTo
<1>9. SameBodies(S, T)
  BY <1>4, <1>7 DEF SameBodies
<1>10. Listed(T)
  <2> SUFFICES ASSUME NEW p \in D
               PROVE  /\ Once(t[p].children)
                      /\ ToSet(t[p].children) = {w \in D : t[w].parent = p}
    BY <1>5, <1>7 DEF Listed
  <2>1. /\ Once(list(p))
        /\ ToSet(list(p)) = {w \in D : IF w = id THEN parent = p ELSE W[w].parent = p}
    BY RelistedIs DEF list
  <2>2. \A w \in D : (t[w].parent = p) <=> (IF w = id THEN parent = p ELSE W[w].parent = p)
    BY <1>4
  <2> QED
    BY <1>4, <2>1, <2>2
<1> QED
  BY <1>7, <1>8, <1>9, <1>10 DEF T, Fixed
(* All of the invariant but what is seen stays. *)
LEMMA MovedRest ==
  ASSUME NEW S, NEW owners, NEW conn, Good(S, owners, conn), NEW T \in StateSet,
         NEW id, NEW parent, MovedTo(S, T, id, parent), SameBodies(S, T), Listed(T),
         Fixed(S, T), Fewer(S, T),
         S.windows[id].class = "io" => S.windows[parent].class = "io"
  PROVE  Tree(T) /\ Owned(T, owners) /\ Redirects(T, conn) /\ Kept(T, conn)
<1> USE DEF MovedTo, SameBodies, SameBody
<1>1. Tree(S) /\ Owned(S, owners) /\ Redirects(S, conn) /\ Kept(S, conn) /\ Rooted(S)
  BY DEF Good, Tree
<1>2. Rooted(T)
  BY <1>1, MovedPaths
<1>3. Classed(T)
  BY <1>1 DEF Tree, Classed, Rooted
<1>4. T.windows[Root].parent = None /\ T.windows[Root].owner = None
  BY <1>1 DEF Tree, Rooted
<1>5. Owned(T, owners) /\ Redirects(T, conn)
  BY <1>1 DEF Owned, Redirects
<1>6. Kept(T, conn)
  BY <1>1, KeptStays
<1> QED
  BY <1>2, <1>3, <1>4, <1>5, <1>6 DEF Tree

LEMMA ReparentIs ==
  ASSUME NEW S, NEW owners, NEW conn, Good(S, owners, conn), NEW id \in DOMAIN S.windows \ {Root},
         NEW parent \in DOMAIN S.windows, id \notin Path(S, parent),
         S.windows[id].class = "io" => S.windows[parent].class = "io"
  PROVE  LET T == reparent_window(S, id, parent)
         IN /\ Good(T, owners, conn) /\ MovedTo(S, T, id, parent) /\ SameBodies(S, T)
            /\ T.saves = S.saves
<1> DEFINE U == IF S.windows[id].mapped THEN update_window_mappings(S, {id}, FALSE) ELSE S
           M == Moved(S, id, parent)
           T == reparent_window(S, id, parent)
<1>1. S \in StateSet /\ Tree(S) /\ Rooted(S)
  BY DEF Good, Tree
<1>2. Good(U, owners, conn) /\ Mapping(S, U, {id}, FALSE)
  <2>1. CASE S.windows[id].mapped
    BY <2>1, MappingsIs
  <2>2. CASE ~ S.windows[id].mapped
    <3>1. S.windows[id].mapped = FALSE
      BY <1>1, <2>2, TableIs DEF WindowRecord
    <3>2. Mapping(S, S, {id}, FALSE)
      BY <1>1, <3>1, NoMapping
    <3> QED
      BY <2>2, <3>2
  <2> QED
    BY <2>1, <2>2
<1>3. /\ M \in StateSet /\ MovedTo(S, M, id, parent) /\ SameBodies(S, M) /\ Listed(M)
      /\ Fixed(S, M)
  BY <1>1, MovedIs
<1>4. T = [M EXCEPT !.focus = U.focus, !.pointer = U.pointer, !.keyboard = U.keyboard]
  BY DEF reparent_window
<1> HIDE DEF U, M, T
<1>5. U \in StateSet /\ Flags(S, U) /\ Seen(U, None) /\ Fixed(S, U) /\ Kept(U, conn)
      /\ \A x \in DOMAIN S.windows :
           U.windows[x].mapped = IF x \in {id} THEN FALSE ELSE S.windows[x].mapped
  BY <1>2 DEF Good, Mapping
<1>6. /\ T \in StateSet /\ T.windows = M.windows /\ T.focus = U.focus /\ T.pointer = U.pointer
      /\ T.keyboard = U.keyboard /\ T.passive = M.passive /\ T.selections = M.selections
      /\ T.saves = M.saves
  BY <1>3, <1>4, <1>5 DEF StateSet
<1>7. MovedTo(S, T, id, parent) /\ SameBodies(S, T) /\ Listed(T) /\ T.saves = S.saves
  BY <1>3, <1>6 DEF MovedTo, SameBodies, Listed, Fixed
<1>8. MovedTo(U, T, id, parent) /\ Fixed(U, T) /\ Fewer(U, T) /\ Tree(U)
      /\ \A x \in DOMAIN S.windows : Path(U, x) = Path(S, x)
  <2>1. Tree(U) /\ \A x \in DOMAIN S.windows : Path(U, x) = Path(S, x)
    BY <1>1, <1>5, FlagsTree
  <2>2. MovedTo(U, T, id, parent)
    BY <1>5, <1>7, <2>1 DEF MovedTo, Flags
  <2>3. Fixed(U, T) /\ Fewer(U, T)
    BY <1>3, <1>5, <1>6 DEF Fixed, Fewer
  <2> QED
    BY <2>1, <2>2, <2>3
<1>9. ASSUME NEW x \in DOMAIN U.windows, Shown(U, x, None) PROVE Shown(T, x, None)
  <2>1. x \in DOMAIN S.windows /\ DOMAIN T.windows = DOMAIN S.windows
    BY <1>5, <1>7 DEF Flags, MovedTo
  <2>2. None \notin Path(U, x) /\ Path(U, x) \subseteq DOMAIN S.windows
    BY <1>5, <1>8, <2>1, NotNone, PathIs DEF Tree, Flags
  <2>3. \A y \in Path(U, x) : U.windows[y].mapped
    BY <1>9, <2>2 DEF Shown, Viewable
  <2>4. id \notin Path(U, x)
    BY <1>5, <2>2, <2>3
  <2>5. Path(T, x) = Path(U, x)
    BY <1>8, <2>1, <2>4, MovedPaths, ZenonT(60) DEF Tree
  <2>6. \A y \in Path(U, x) : T.windows[y].mapped
    <3> TAKE y \in Path(U, x)
    <3>1. y \in DOMAIN S.windows /\ y # id
      BY <2>2, <2>4
    <3>2. U.windows[y].mapped = S.windows[y].mapped /\ T.windows[y].mapped = S.windows[y].mapped
      BY <1>5, <1>7, <3>1 DEF SameBodies, SameBody
    <3> QED
      BY <2>3, <3>2
  <2> QED
    BY <2>1, <2>5, <2>6 DEF Shown, Viewable
<1>10. Seen(T, None)
  BY <1>5, <1>6, <1>8, <1>9, SeenStays
<1>11. Tree(T) /\ Owned(T, owners) /\ Redirects(T, conn) /\ Kept(T, conn)
  <2>1. Listed(T) /\ SameBodies(U, U)
    BY <1>7 DEF SameBodies, SameBody
  <2>2. Rooted(T)
    BY <1>1, <1>7, MovedPaths
  <2>3. Classed(T)
    BY <1>1, <1>7 DEF Tree, Classed, Rooted, MovedTo, SameBodies, SameBody
  <2>4. T.windows[Root].parent = None /\ T.windows[Root].owner = None
    BY <1>1, <1>7 DEF Tree, Rooted, MovedTo, SameBodies, SameBody
  <2>5. Owned(T, owners) /\ Redirects(T, conn)
    BY <1>7 DEF Good, Owned, Redirects, MovedTo, SameBodies, SameBody
  <2>6. DOMAIN U.windows \subseteq DOMAIN T.windows
        /\ \A x \in DOMAIN U.windows : T.windows[x].owner = U.windows[x].owner
    BY <1>5, <1>7 DEF Flags, MovedTo, SameBodies, SameBody
  <2>7. Kept(T, conn)
    BY <1>5, <1>8, <2>6, KeptStays
  <2> QED
    BY <2>1, <2>2, <2>3, <2>4, <2>5, <2>7 DEF Tree
<1>12. Good(T, owners, conn)
  BY <1>6, <1>10, <1>11 DEF Good
<1> QED
  BY <1>7, <1>12 DEF T

(* Towards the root a window stays viewable. *)
LEMMA MovedUpIs ==
  ASSUME NEW S, NEW owners, NEW conn, Good(S, owners, conn), NEW id \in DOMAIN S.windows \ {Root},
         NEW parent \in DOMAIN S.windows, id \notin Path(S, parent),
         parent \in Path(S, id),
         S.windows[id].class = "io" => S.windows[parent].class = "io"
  PROVE  LET T == Moved(S, id, parent)
         IN /\ Good(T, owners, conn) /\ MovedTo(S, T, id, parent) /\ SameBodies(S, T)
            /\ T.saves = S.saves
<1> DEFINE T == Moved(S, id, parent)
<1>1. S \in StateSet /\ Tree(S) /\ Rooted(S) /\ Seen(S, None)
  BY DEF Good, Tree
<1>2. /\ T \in StateSet /\ MovedTo(S, T, id, parent) /\ SameBodies(S, T) /\ Listed(T)
      /\ Fixed(S, T) /\ T.focus = S.focus /\ T.pointer = S.pointer
      /\ T.keyboard = S.keyboard
  BY <1>1, MovedIs
<1> HIDE DEF T
<1>3. Fewer(S, T)
  BY <1>2 DEF Fewer
<1>4. Tree(T) /\ Owned(T, owners) /\ Redirects(T, conn) /\ Kept(T, conn)
  BY <1>2, <1>3, MovedRest
<1>5. ASSUME NEW x \in DOMAIN S.windows, Shown(S, x, None) PROVE Shown(T, x, None)
  <2>1. None \notin Path(S, x) /\ Path(S, x) \subseteq DOMAIN S.windows
    BY <1>1, NotNone, PathIs
  <2>2. \A y \in Path(S, x) : S.windows[y].mapped
    BY <1>5, <2>1 DEF Shown, Viewable
  <2>3. Path(T, x) \subseteq Path(S, x)
    <3>1. CASE id \in Path(S, x)
      <4>1. Path(S, id) \subseteq Path(S, x)
        BY <1>1, <3>1, PathOfPart
      <4>2. Path(S, parent) \subseteq Path(S, x)
        BY <1>1, <4>1, PathOfPart
      <4> QED
        BY <1>1, <1>2, <3>1, <4>2, MovedPaths
    <3>2. CASE id \notin Path(S, x)
      BY <1>1, <1>2, <3>2, MovedPaths
    <3> QED
      BY <3>1, <3>2
  <2>4. \A y \in Path(T, x) : T.windows[y].mapped
    BY <1>2, <2>1, <2>2, <2>3 DEF SameBodies, SameBody
  <2> QED
    BY <1>2, <2>4 DEF Shown, Viewable, MovedTo
<1>6. Seen(T, None)
  BY <1>1, <1>2, <1>3, <1>5, SeenStays
<1> QED
  BY <1>2, <1>4, <1>6 DEF Good, Fixed, T
-----------------------------------------------------------------------------
(* Destruction.                                                            *)

(* Good but for what is inside w. *)
Nearly(S, w, owners, conn) ==
  /\ S \in StateSet /\ Tree(S) /\ Owned(S, owners) /\ Redirects(S, conn)
  /\ Seen(S, w) /\ Kept(S, conn)

LEMMA GoodNearly ==
  ASSUME NEW S, NEW owners, NEW conn, Good(S, owners, conn), NEW w
  PROVE  Nearly(S, w, owners, conn)
<1>1. \A x \in DOMAIN S.windows : Shown(S, x, None) => Shown(S, x, w)
  BY NotNone DEF Shown, Good
<1>2. Fewer(S, S) /\ Seen(S, None)
  BY DEF Fewer, Good
<1>3. Seen(S, w)
  BY <1>1, <1>2, SeenStays
<1> QED
  BY <1>3 DEF Good, Nearly

LEMMA RevertFromIs ==
  ASSUME NEW S \in StateSet, Tree(S), NEW w, FocusShown(S, w)
  PROVE  LET R == revert_focus_from(S, w)
         IN /\ R \in StateSet /\ R.windows = S.windows /\ Fixed(S, R)
            /\ R.pointer = S.pointer /\ R.keyboard = S.keyboard
            /\ R.focus.kind = "window" => /\ R.focus.window \in DOMAIN S.windows
                                          /\ Viewable(S, R.focus.window)
                                          /\ w \notin Path(S, R.focus.window)
<1> DEFINE f == reverted_focus_state(S, w)
           R == revert_focus_from(S, w)
           inside == S.focus.kind = "window" /\ S.focus.window \in Subtree(S, w)
<1>1. R = IF inside THEN [S EXCEPT !.focus = f] ELSE S
  BY DEF revert_focus_from
<1>2. /\ f \in FocusState
      /\ f.kind = "window" => /\ f.window \in DOMAIN S.windows
                              /\ Viewable(S, f.window) /\ w \notin Path(S, f.window)
  BY RevertedIs DEF Tree, FocusShown, Shown
<1> HIDE DEF f, R
<1>3. CASE inside
  BY <1>1, <1>2, <1>3 DEF StateSet, Fixed, R
<1>4. CASE ~inside
  <2>1. R = S
    BY <1>1, <1>4
  <2>2. S.focus.kind = "window" => /\ S.focus.window \in DOMAIN S.windows
                                   /\ Viewable(S, S.focus.window) /\ w \notin Path(S, S.focus.window)
    BY <1>4 DEF FocusShown, Shown, Subtree
  <2> QED
    BY <2>1, <2>2 DEF Fixed, R
<1> QED
  BY <1>3, <1>4

Refers(g, gone) == g.window \in gone \/ g.confine \in gone

(* The table without w and what is in it. *)
ErasedTable(S, w) ==
  LET rest == [x \in DOMAIN S.windows \ Subtree(S, w) |-> S.windows[x]]
  IN [rest EXCEPT ![S.windows[w].parent].children = Without(@, w)]

LEMMA ErasedTableIs ==
  ASSUME NEW S \in StateSet, Tree(S), NEW w \in DOMAIN S.windows \ {Root}, NEW T \in StateSet,
         T.windows = ErasedTable(S, w)
  PROVE  Erased(S, T, w) /\ SameBodies(T, S) /\ Listed(T)
<1> DEFINE D == DOMAIN S.windows
           E == D \ Subtree(S, w)
           W == S.windows
           p == W[w].parent
           rest == [x \in E |-> W[x]]
           t == ErasedTable(S, w)
<1>1. W \in [D -> WindowRecord] /\ D \subseteq Id /\ \A x \in D : W[x] \in WindowRecord
  BY TableIs
<1>2. p \in D /\ p \in E /\ w \in Subtree(S, w)
  <2>1. Rooted(S)
    BY DEF Tree
  <2>2. p \in D /\ w \notin Path(S, p) /\ w \in Path(S, w)
    BY <2>1, PathUp, NoCycle, PathIs
  <2> QED
    BY <2>2 DEF Subtree
<1>3. t = [rest EXCEPT ![p].children = Without(@, w)]
  BY SMTT(40) DEF ErasedTable
<1>4. \A x \in E : t[x] = IF x = p THEN WithChildren(W[x], Without(W[x].children, w)) ELSE W[x]
  BY <1>2, <1>3 DEF WithChildren
<1>5. DOMAIN t = E
  BY <1>3
<1> HIDE DEF t
<1>6. ASSUME NEW x \in E
      PROVE  /\ t[x].parent = W[x].parent /\ SameBody(t[x], W[x])
             /\ t[x].children = IF x = p THEN Without(W[x].children, w) ELSE W[x].children
  <2> DEFINE r == W[x]
             q == t[x]
             list == Without(r.children, w)
  <2>1. r \in WindowRecord /\ list \in Seq(Window)
    BY <1>1, ChildrenAre, WithoutIs
  <2>2. q = IF x = p THEN WithChildren(r, list) ELSE r
    BY <1>4, SMTT(40)
  <2> HIDE DEF r, q, list
  <2>3. CASE x = p
    <3>1. /\ WithChildren(r, list).parent = r.parent /\ WithChildren(r, list).children = list
          /\ SameBody(r, WithChildren(r, list))
      BY <2>1, RecordWith, Apart
    <3> QED
      BY <2>2, <2>3, <3>1 DEF SameBody, r, q, list
  <2>4. CASE x # p
    BY <2>2, <2>4 DEF SameBody, r, q
  <2> QED
    BY <2>3, <2>4
<1>7. Erased(S, T, w)
  BY <1>5, <1>6 DEF Erased, t
<1>8. SameBodies(T, S)
  BY <1>5, <1>6 DEF SameBodies, t
<1>9. ASSUME NEW x \in E
      PROVE  Once(t[x].children) /\ ToSet(t[x].children) = {y \in E : W[y].parent = x}
  <2>1. Once(W[x].children) /\ ToSet(W[x].children) = {y \in D : W[y].parent = x}
    BY DEF Tree, Listed
  <2>2. W[x].children \in Seq(Window)
    BY ChildrenAre
  <2>3. /\ ToSet(Without(W[x].children, w)) = ToSet(W[x].children) \ {w}
        /\ Once(Without(W[x].children, w))
    BY <2>1, <2>2, WithoutIs
  <2>4. ASSUME NEW y \in D, W[y].parent = x, y # w PROVE y \in E
    <3>1. y # Root
      BY <1>1, <2>4, Apart DEF Tree
    <3>2. Path(S, y) = {y} \cup Path(S, x)
      BY <2>4, <3>1, PathUp DEF Tree
    <3>3. w \notin Path(S, x)
      BY DEF Subtree
    <3> QED
      BY <2>4, <3>2, <3>3 DEF Subtree
  <2>5. CASE x = p
    <3>1. {y \in D : W[y].parent = x} \ {w} = {y \in E : W[y].parent = x}
      BY <1>2, <2>4
    <3> QED
      BY <1>6, <2>1, <2>3, <2>5, <3>1
  <2>6. CASE x # p
    <3>1. {y \in D : W[y].parent = x} = {y \in E : W[y].parent = x}
      BY <2>4, <2>6
    <3> QED
      BY <1>6, <2>1, <2>6, <3>1
  <2> QED
    BY <2>5, <2>6
<1>10. Listed(T)
  <2> SUFFICES ASSUME NEW x \in E
               PROVE  Once(t[x].children) /\ ToSet(t[x].children) = {y \in E : t[y].parent = x}
    BY <1>5 DEF Listed, t
  <2>1. {y \in E : t[y].parent = x} = {y \in E : W[y].parent = x}
    BY <1>6
  <2> QED
    BY <1>9, <2>1
<1> QED
  BY <1>7, <1>8, <1>10
LEMMA ErasedSavesAre ==
  ASSUME NEW S \in StateSet, NEW gone, NEW conn, SavesKept(S, conn)
  PROVE  /\ ErasedSaves(S, gone) \in [Client -> Seq(SaveSetEntry)]
         /\ \A c \in Client :
              LET r == ErasedSaves(S, gone)[c]
              IN /\ \A j \in 1..Len(r) : /\ c \in conn /\ r[j].window \notin gone
                                         /\ r[j].window \in DOMAIN S.windows
                                         /\ S.windows[r[j].window].owner # c
                 /\ \A i, j \in 1..Len(r) : r[i].window = r[j].window => i = j
<1>1. ASSUME NEW c \in Client
      PROVE  LET r == EntriesWithout(S.saves[c], gone)
             IN /\ r \in Seq(SaveSetEntry)
                /\ \A j \in 1..Len(r) : /\ c \in conn /\ r[j].window \notin gone
                                        /\ r[j].window \in DOMAIN S.windows
                                        /\ S.windows[r[j].window].owner # c
                /\ \A i, j \in 1..Len(r) : r[i].window = r[j].window => i = j
  <2> DEFINE seq == S.saves[c]
             r == EntriesWithout(seq, gone)
  <2>1. seq \in Seq(SaveSetEntry)
    BY DEF StateSet
  <2>2. /\ \A i \in 1..Len(seq) : /\ c \in conn /\ seq[i].window \in DOMAIN S.windows
                                  /\ S.windows[seq[i].window].owner # c
        /\ \A i, j \in 1..Len(seq) : seq[i].window = seq[j].window => i = j
    BY DEF SavesKept
  <2> HIDE DEF seq, r
  <2>3. /\ r \in Seq(SaveSetEntry)
        /\ \A j \in 1..Len(r) : /\ r[j].window \notin gone
                                /\ \E i \in 1..Len(seq) : r[j] = seq[i]
        /\ (\A i, j \in 1..Len(seq) : seq[i].window = seq[j].window => i = j)
             => \A i, j \in 1..Len(r) : r[i].window = r[j].window => i = j
    BY <2>1, EntriesAre DEF r
  <2>4. \A j \in 1..Len(r) : /\ c \in conn /\ r[j].window \notin gone
                             /\ r[j].window \in DOMAIN S.windows
                             /\ S.windows[r[j].window].owner # c
    BY <2>2, <2>3
  <2> QED
    BY <2>2, <2>3, <2>4 DEF r, seq
<1>2. \A c \in Client : ErasedSaves(S, gone)[c] = EntriesWithout(S.saves[c], gone)
  BY DEF ErasedSaves
<1>3. ErasedSaves(S, gone) = [c \in Client |-> ErasedSaves(S, gone)[c]]
  BY DEF ErasedSaves
<1>4. ErasedSaves(S, gone) \in [Client -> Seq(SaveSetEntry)]
  BY <1>1, <1>2, <1>3
<1> QED
  BY <1>1, <1>2, <1>4

(* What is left of the grabs and selections when windows go. *)
LeftGrab(g, gone) == IF g # None /\ Refers(g, gone) THEN None ELSE g
LeftKeyboard(g, gone) == IF g # None /\ g.window \in gone THEN None ELSE g

LEMMA EraseParts ==
  ASSUME NEW S, NEW w, NEW owners, NEW conn, Nearly(S, w, owners, conn),
         w \in DOMAIN S.windows \ {Root}
  PROVE  LET T == erase_window_tree(S, w)
             R == revert_focus_from(S, w)
             gone == Subtree(S, w)
         IN /\ T \in StateSet /\ T.windows = ErasedTable(S, w) /\ T.focus = R.focus
            /\ T.pointer = LeftGrab(S.pointer, gone) /\ T.keyboard = LeftKeyboard(S.keyboard, gone)
            /\ T.passive = {g \in S.passive : ~Refers(g, gone)}
            /\ T.selections = clear_selections_for_windows(S, gone)
            /\ T.saves = ErasedSaves(S, gone)
<1> DEFINE T == erase_window_tree(S, w)
           R == revert_focus_from(S, w)
           gone == Subtree(S, w)
           t == ErasedTable(S, w)
           p == LeftGrab(S.pointer, gone)
           k == LeftKeyboard(S.keyboard, gone)
           passives == {g \in S.passive : ~Refers(g, gone)}
           selected == clear_selections_for_windows(S, gone)
           saved == ErasedSaves(S, gone)
<1>1. /\ S \in StateSet /\ Tree(S) /\ FocusShown(S, w) /\ SavesKept(S, conn)
  BY DEF Nearly, Seen, Kept
<1>2. /\ R \in StateSet /\ R.windows = S.windows /\ Fixed(S, R)
      /\ R.pointer = S.pointer /\ R.keyboard = S.keyboard
  BY <1>1, RevertFromIs
<1>3. T = [R EXCEPT !.windows = t, !.pointer = p, !.keyboard = k, !.passive = passives,
                    !.selections = selected, !.saves = saved]
  BY <1>2 DEF erase_window_tree, ErasedTable, LeftGrab, LeftKeyboard, Refers, Fixed, StateSet
<1>4. t \in WindowTable
  <2> DEFINE E == DOMAIN S.windows \ gone
             rest == [x \in E |-> S.windows[x]]
             q == S.windows[w].parent
             list == Without(S.windows[q].children, w)
  <2>1. S.windows \in [DOMAIN S.windows -> WindowRecord] /\ DOMAIN S.windows \subseteq Id
    BY <1>1, TableIs
  <2>2. t = [rest EXCEPT ![q].children = Without(@, w)]
    BY DEF ErasedTable
  <2>3. DOMAIN t = E
    BY <2>2
  <2>4. ASSUME NEW x \in E PROVE t[x] \in WindowRecord
    <3>1. CASE x = q
      <4>1. S.windows[x] \in WindowRecord /\ list \in Seq(Window)
        BY <1>1, <2>1, <3>1, ChildrenAre, WithoutIs
      <4>2. t[x] = WithChildren(S.windows[x], list)
        BY <2>2, <3>1 DEF WithChildren
      <4> QED
        BY <4>1, <4>2, RecordWith, Apart
    <3>2. CASE x # q
      BY <2>1, <2>2, <3>2
    <3> QED
      BY <3>1, <3>2
  <2>5. t \in [E -> WindowRecord]
    <3>1. t = [x \in DOMAIN t |-> t[x]]
      BY <2>2
    <3> HIDE DEF t
    <3> QED
      BY <2>3, <2>4, <3>1, SMTT(40)
  <2> QED
    BY <2>1, <2>5, TableIn
<1>5. p \in ActiveGrab \cup {None} /\ k \in ActiveGrab \cup {None}
  BY <1>1 DEF LeftGrab, LeftKeyboard, StateSet
<1>6. passives \in SUBSET PassiveGrab
  BY <1>1 DEF StateSet
<1>7. selected \in [Selection -> [window : Id \cup {None}, client : Client \cup {None}]]
  BY <1>1 DEF StateSet, clear_selections_for_windows
<1>8. saved \in [Client -> Seq(SaveSetEntry)]
  BY <1>1, ErasedSavesAre
<1> HIDE DEF T, R, t, p, k, passives, selected, saved
<1>9. /\ T \in StateSet /\ T.windows = t /\ T.focus = R.focus /\ T.pointer = p
      /\ T.keyboard = k /\ T.passive = passives /\ T.selections = selected /\ T.saves = saved
  BY <1>2, <1>3, <1>4, <1>5, <1>6, <1>7, <1>8 DEF StateSet
<1> QED
  BY <1>9 DEF T, R, t, p, k, passives, selected, saved

LEMMA EraseIs ==
  ASSUME NEW S, NEW w, NEW owners, NEW conn, Nearly(S, w, owners, conn),
         w \in DOMAIN S.windows \ {Root}
  PROVE  LET T == erase_window_tree(S, w)
         IN Good(T, owners, conn) /\ Erased(S, T, w) /\ SameBodies(T, S)
<1> DEFINE T == erase_window_tree(S, w)
           R == revert_focus_from(S, w)
           gone == Subtree(S, w)
<1>1. /\ S \in StateSet /\ Tree(S) /\ Owned(S, owners) /\ Redirects(S, conn)
      /\ FocusShown(S, w) /\ PointerShown(S, w) /\ KeyboardShown(S, w) /\ Kept(S, conn) /\ Rooted(S)
  BY DEF Nearly, Seen, Tree
<1>2. /\ T \in StateSet /\ T.windows = ErasedTable(S, w) /\ T.focus = R.focus
      /\ T.pointer = LeftGrab(S.pointer, gone) /\ T.keyboard = LeftKeyboard(S.keyboard, gone)
      /\ T.passive = {g \in S.passive : ~Refers(g, gone)}
      /\ T.selections = clear_selections_for_windows(S, gone)
      /\ T.saves = ErasedSaves(S, gone)
  BY EraseParts
<1>3. R.focus.kind = "window" => /\ R.focus.window \in DOMAIN S.windows
                                 /\ Viewable(S, R.focus.window)
                                 /\ w \notin Path(S, R.focus.window)
  BY <1>1, RevertFromIs
<1> HIDE DEF T, R
<1>4. Erased(S, T, w) /\ SameBodies(T, S) /\ Listed(T)
  BY <1>1, <1>2, ErasedTableIs
<1>5. /\ Rooted(T) /\ \A x \in DOMAIN T.windows : Path(T, x) = Path(S, x)
      /\ DOMAIN T.windows = DOMAIN S.windows \ gone
  BY <1>1, <1>4, ErasedPaths DEF Erased
<1>6. Tree(T)
  <2>1. Classed(T)
    BY <1>1, <1>4, <1>5 DEF Tree, Classed, Rooted, Erased, SameBodies, SameBody
  <2>2. T.windows[Root].parent = None /\ T.windows[Root].owner = None
    BY <1>1, <1>4, <1>5 DEF Tree, Rooted, Erased, SameBodies, SameBody
  <2> QED
    BY <1>4, <1>5, <2>1, <2>2 DEF Tree
<1>7. Owned(T, owners) /\ Redirects(T, conn)
  BY <1>1, <1>4, <1>5 DEF Owned, Redirects, SameBodies, SameBody
<1>8. ASSUME NEW x \in DOMAIN S.windows, Viewable(S, x), w \notin Path(S, x)
      PROVE  Shown(T, x, None)
  <2>1. x \in DOMAIN T.windows
    BY <1>5, <1>8 DEF Subtree
  <2>2. Path(T, x) = Path(S, x) /\ Path(T, x) \subseteq DOMAIN T.windows
    BY <1>5, <2>1, PathIs
  <2>3. \A y \in Path(T, x) : T.windows[y].mapped
    BY <1>4, <1>8, <2>2 DEF Viewable, SameBodies, SameBody
  <2> QED
    BY <2>1, <2>3 DEF Shown, Viewable
<1>a. \A x \in DOMAIN S.windows : Shown(S, x, w) /\ x \notin gone => Shown(T, x, None)
  BY <1>8 DEF Shown, Subtree
<1>9. Seen(T, None)
  <2>1. FocusShown(T, None)
    BY <1>2, <1>3, <1>8 DEF FocusShown
  <2>2. PointerShown(T, None)
    BY <1>1, <1>2, <1>a DEF PointerShown, LeftGrab, Refers, Shown
  <2>3. KeyboardShown(T, None)
    BY <1>1, <1>2, <1>a DEF KeyboardShown, LeftKeyboard, Shown
  <2> QED
    BY <2>1, <2>2, <2>3 DEF Seen
<1>10. Kept(T, conn)
  <2>1. GrabsKept(T, conn)
    <3>1. \A g : GrabKept(g, DOMAIN S.windows, conn) /\ ~Refers(g, gone)
                   => GrabKept(g, DOMAIN T.windows, conn)
      BY <1>5 DEF GrabKept, Refers
    <3>2. T.keyboard # None => T.keyboard = S.keyboard /\ ~Refers(S.keyboard, gone)
      <4>1. None \notin gone
        BY <1>1, NotNone DEF Subtree
      <4> QED
        BY <1>1, <1>2, <4>1 DEF KeyboardShown, LeftKeyboard, Refers
    <3>3. T.pointer # None => T.pointer = S.pointer /\ ~Refers(S.pointer, gone)
      BY <1>2 DEF LeftGrab
    <3> QED
      BY <1>1, <1>2, <3>1, <3>2, <3>3 DEF Kept, GrabsKept
  <2>2. SelectionsKept(T, conn)
    BY <1>1, <1>2, <1>5 DEF Kept, SelectionsKept, clear_selections_for_windows
  <2>3. SavesKept(T, conn)
    <3>1. \A c \in Client :
            LET r == T.saves[c]
            IN /\ \A j \in 1..Len(r) : /\ c \in conn /\ r[j].window \notin gone
                                       /\ r[j].window \in DOMAIN S.windows
                                       /\ S.windows[r[j].window].owner # c
               /\ \A i, j \in 1..Len(r) : r[i].window = r[j].window => i = j
      BY <1>1, <1>2, ErasedSavesAre DEF Kept
    <3>2. \A x \in DOMAIN S.windows \ gone : T.windows[x].owner = S.windows[x].owner
      BY <1>4, <1>5 DEF SameBodies, SameBody
    <3> QED
      BY <1>5, <3>1, <3>2 DEF SavesKept
  <2> QED
    BY <2>1, <2>2, <2>3 DEF Kept
<1> QED
  BY <1>2, <1>4, <1>6, <1>7, <1>9, <1>10 DEF Good, T
(* w and what is in it are gone, the rest is as it was. *)
Destroyed(S, T, w) == Erased(S, T, w) /\ SameBodies(T, S)

LEMMA ErasedAfterFlags ==
  ASSUME NEW S, NEW H, NEW T, NEW w, Tree(S), Flags(S, H), Destroyed(H, T, w),
         w \in DOMAIN S.windows \ {Root},
         \A x \in DOMAIN S.windows \ {w} : SameBody(H.windows[x], S.windows[x])
  PROVE  Destroyed(S, T, w)
<1>1. Subtree(H, w) = Subtree(S, w) /\ DOMAIN H.windows = DOMAIN S.windows /\ Rooted(S)
  BY FlagsTree DEF Flags, Tree
<1>2. w \in Subtree(S, w)
  BY <1>1, PathIs DEF Subtree
<1>3. Erased(S, T, w)
  BY <1>1 DEF Destroyed, Erased, Flags
<1>4. SameBodies(T, S)
  <2> SUFFICES ASSUME NEW x \in DOMAIN T.windows PROVE SameBody(T.windows[x], S.windows[x])
    BY DEF SameBodies
  <2>1. x \in DOMAIN S.windows \ {w}
    BY <1>2, <1>3 DEF Erased
  <2>2. SameBody(T.windows[x], H.windows[x]) /\ SameBody(H.windows[x], S.windows[x])
    BY <2>1 DEF Destroyed, SameBodies
  <2> QED
    BY <2>2 DEF SameBody
<1> QED
  BY <1>3, <1>4 DEF Destroyed

LEMMA DestroyIs ==
  ASSUME NEW S, NEW owners, NEW conn, Good(S, owners, conn), NEW w \in DOMAIN S.windows \ {Root}
  PROVE  LET T == destroy_window(S, w)
         IN Good(T, owners, conn) /\ Destroyed(S, T, w)
<1> DEFINE H == set_window_mapped(S, w, FALSE)
           T == destroy_window(S, w)
<1>1. Good(H, owners, conn) /\ Mapping(S, H, {w}, FALSE)
  BY SetMappedIs
<1>2. T = erase_window_tree(H, w)
  BY DEF destroy_window
<1> HIDE DEF H, T
<1>3. Nearly(H, w, owners, conn)
  BY <1>1, GoodNearly
<1>4. Tree(S) /\ Flags(S, H)
  BY <1>1 DEF Good, Mapping
<1>5. w \in DOMAIN H.windows \ {Root}
  BY <1>4 DEF Flags
<1>6. Good(T, owners, conn) /\ Destroyed(H, T, w)
  BY <1>2, <1>3, <1>5, EraseIs DEF Destroyed
<1>7. \A x \in DOMAIN S.windows \ {w} : SameBody(H.windows[x], S.windows[x])
  BY <1>1, <1>4 DEF Mapping, Flags, SameBody
<1>8. Destroyed(S, T, w)
  BY <1>4, <1>6, <1>7, ErasedAfterFlags
<1> QED
  BY <1>6, <1>8 DEF T

(* Unmapped without a word, the window is the only one to suffer. *)
LEMMA UnmappedNearly ==
  ASSUME NEW S, NEW owners, NEW conn, Good(S, owners, conn), NEW w \in DOMAIN S.windows
  PROVE  LET H == Marked(S, {w}, FALSE)
         IN /\ Nearly(H, w, owners, conn) /\ Flags(S, H)
            /\ \A x \in DOMAIN S.windows \ {w} : SameBody(H.windows[x], S.windows[x])
<1> DEFINE H == Marked(S, {w}, FALSE)
<1>1. /\ S \in StateSet /\ Tree(S) /\ Owned(S, owners) /\ Redirects(S, conn)
      /\ Seen(S, None) /\ Kept(S, conn)
  BY DEF Good
<1>2. /\ Mapping(S, H, {w}, FALSE)
      /\ H.focus = S.focus /\ H.pointer = S.pointer /\ H.keyboard = S.keyboard
  BY <1>1, MarkedIs
<1> HIDE DEF H
<1>3. H \in StateSet /\ Flags(S, H) /\ Fixed(S, H) /\ Fewer(S, H)
  BY <1>2 DEF Mapping, Fewer
<1>4. /\ Tree(H) /\ Owned(H, owners)
      /\ \A x \in DOMAIN S.windows : Path(H, x) = Path(S, x)
  BY <1>1, <1>3, FlagsTree
<1>5. Redirects(H, conn)
  BY <1>1, <1>2, <1>3 DEF Redirects, Mapping, Flags
<1>6. Kept(H, conn)
  BY <1>1, <1>3, KeptStays DEF Flags
<1>7. ASSUME NEW x \in DOMAIN S.windows, Shown(S, x, None) PROVE Shown(H, x, w)
  <2>1. Path(H, x) = Path(S, x) /\ Path(S, x) \subseteq DOMAIN S.windows /\ None \notin Path(S, x)
    BY <1>1, <1>4, NotNone, PathIs DEF Tree
  <2>2. CASE w \in Path(S, x)
    BY <1>3, <2>1, <2>2 DEF Shown, Flags
  <2>3. CASE w \notin Path(S, x)
    <3>1. \A y \in Path(S, x) : S.windows[y].mapped
      BY <1>7, <2>1 DEF Shown, Viewable
    <3>2. \A y \in Path(S, x) : H.windows[y].mapped
      BY <1>2, <2>1, <2>3, <3>1 DEF Mapping
    <3> QED
      BY <1>3, <2>1, <3>2 DEF Shown, Viewable, Flags
  <2> QED
    BY <2>2, <2>3
<1>8. Seen(H, w)
  BY <1>1, <1>2, <1>3, <1>7, SeenStays
<1>9. Nearly(H, w, owners, conn)
  BY <1>3, <1>4, <1>5, <1>6, <1>8 DEF Nearly
<1>10. \A x \in DOMAIN S.windows \ {w} : SameBody(H.windows[x], S.windows[x])
  BY <1>2, <1>3 DEF Mapping, Flags, SameBody
<1> QED
  BY <1>3, <1>9, <1>10 DEF H

LEMMA RevertedNearly ==
  ASSUME NEW S, NEW w, NEW owners, NEW conn, Nearly(S, w, owners, conn)
  PROVE  LET R == revert_focus_from(S, w)
         IN Nearly(R, w, owners, conn) /\ R.windows = S.windows
<1> DEFINE R == revert_focus_from(S, w)
<1>1. /\ S \in StateSet /\ Tree(S) /\ Owned(S, owners) /\ Redirects(S, conn)
      /\ FocusShown(S, w) /\ PointerShown(S, w) /\ KeyboardShown(S, w) /\ Kept(S, conn)
  BY DEF Nearly, Seen
<1>2. /\ R \in StateSet /\ R.windows = S.windows /\ Fixed(S, R)
      /\ R.pointer = S.pointer /\ R.keyboard = S.keyboard
      /\ R.focus.kind = "window" => /\ R.focus.window \in DOMAIN S.windows
                                    /\ Viewable(S, R.focus.window)
                                    /\ w \notin Path(S, R.focus.window)
  BY <1>1, RevertFromIs
<1> HIDE DEF R
<1>3. Flags(S, R) /\ Fewer(S, R)
  BY <1>2 DEF Flags, Fewer
<1>4. Tree(R) /\ Owned(R, owners)
  BY <1>1, <1>3, FlagsTree
<1>5. Redirects(R, conn)
  BY <1>1, <1>2 DEF Redirects
<1>6. Kept(R, conn)
  BY <1>1, <1>2, <1>3, KeptStays
<1>7. \A x : Path(R, x) = Path(S, x)
  BY <1>2 DEF Path, Closed
<1>8. \A x : (Viewable(S, x) => Viewable(R, x)) /\ (Shown(S, x, w) => Shown(R, x, w))
  BY <1>2, <1>7 DEF Viewable, Shown
<1>9. Seen(R, w)
  <2>1. FocusShown(R, w)
    BY <1>2, <1>8 DEF FocusShown, Shown
  <2>2. PointerShown(R, w) /\ KeyboardShown(R, w)
    BY <1>1, <1>2, <1>8 DEF PointerShown, KeyboardShown
  <2> QED
    BY <2>1, <2>2 DEF Seen
<1> QED
  BY <1>2, <1>4, <1>5, <1>6, <1>9 DEF Nearly, R

LEMMA TornIs ==
  ASSUME NEW S, NEW owners, NEW conn, Good(S, owners, conn), NEW w \in DOMAIN S.windows \ {Root},
         NEW fits
  PROVE  LET T == Torn(S, w, fits)
         IN Good(T, owners, conn) /\ Destroyed(S, T, w)
<1>1. CASE w \in fits
  <2>1. Torn(S, w, fits) = destroy_window(S, w)
    BY <1>1 DEF Torn
  <2> QED
    BY <2>1, DestroyIs
<1>2. CASE w \notin fits
  <2> DEFINE H == Marked(S, {w}, FALSE)
             U == [S EXCEPT !.windows[w].mapped = FALSE]
             R == revert_focus_from(H, w)
             T == Torn(S, w, fits)
  <2>1. U = H
    <3>1. S \in StateSet /\ S.windows = [x \in DOMAIN S.windows |-> S.windows[x]]
      BY TableIs DEF Good
    <3>2. [S.windows EXCEPT ![w].mapped = FALSE]
            = [x \in DOMAIN S.windows |-> IF x \in {w} THEN [S.windows[x] EXCEPT !.mapped = FALSE]
                                          ELSE S.windows[x]]
      BY <3>1
    <3> QED
      BY <3>1, <3>2 DEF Marked, StateSet
  <2>2. T = erase_window_tree(revert_focus_from(U, w), w)
    BY <1>2 DEF Torn
  <2> HIDE DEF U, H
  <2>3. T = erase_window_tree(R, w)
    BY <2>1, <2>2
  <2>4. /\ Nearly(H, w, owners, conn) /\ Flags(S, H)
        /\ \A x \in DOMAIN S.windows \ {w} : SameBody(H.windows[x], S.windows[x])
    BY UnmappedNearly DEF H
  <2>5. Nearly(R, w, owners, conn) /\ R.windows = H.windows
    BY <2>4, RevertedNearly
  <2> HIDE DEF R, T
  <2>6. w \in DOMAIN R.windows \ {Root}
    BY <2>4, <2>5 DEF Flags
  <2>7. Good(T, owners, conn) /\ Destroyed(R, T, w)
    BY <2>3, <2>5, <2>6, EraseIs DEF Destroyed
  <2>8. Flags(S, R) /\ \A x \in DOMAIN S.windows \ {w} : SameBody(R.windows[x], S.windows[x])
    BY <2>4, <2>5 DEF Flags
  <2>9. Destroyed(S, T, w)
    BY <2>7, <2>8, ErasedAfterFlags DEF Good
  <2> QED
    BY <2>7, <2>9 DEF T
<1> QED
  BY <1>1, <1>2
(* Of two windows in one neither is around the other. *)
LEMMA SubwindowStep ==
  ASSUME NEW S, NEW owners, NEW conn, Good(S, owners, conn), NEW w \in DOMAIN S.windows,
         NEW x \in DOMAIN S.windows, S.windows[x].parent = w
  PROVE  LET T == erase_window_tree(S, x)
         IN /\ Good(T, owners, conn) /\ w \in DOMAIN T.windows
            /\ \A y \in DOMAIN S.windows : S.windows[y].parent = w /\ y # x =>
                 y \in DOMAIN T.windows /\ T.windows[y].parent = w
<1> DEFINE T == erase_window_tree(S, x)
<1>1. S \in StateSet /\ Tree(S) /\ Rooted(S) /\ None \notin DOMAIN S.windows
  BY NotNone DEF Good, Tree
<1>2. x # Root /\ \A y \in DOMAIN S.windows : S.windows[y].parent = w => y # Root
  BY <1>1 DEF Tree
<1>3. Good(T, owners, conn) /\ Erased(S, T, x)
  BY <1>2, GoodNearly, EraseIs
<1> HIDE DEF T
<1>4. x \notin Path(S, w) /\ Path(S, w) \subseteq DOMAIN S.windows
  BY <1>1, <1>2, NoCycle, PathIs
<1>5. w \in DOMAIN T.windows
  BY <1>3, <1>4 DEF Erased, Subtree
<1>6. ASSUME NEW y \in DOMAIN S.windows, S.windows[y].parent = w, y # x
      PROVE  y \in DOMAIN T.windows /\ T.windows[y].parent = w
  <2>1. Path(S, y) = {y} \cup Path(S, w)
    BY <1>1, <1>2, <1>6, PathUp
  <2> QED
    BY <1>3, <1>4, <1>6, <2>1 DEF Erased, Subtree
<1> QED
  BY <1>3, <1>5, <1>6 DEF T

(* The children of w from place i on are still there. *)
StillThere(v, w, list, i) ==
  /\ w \in DOMAIN v.windows
  /\ \A j \in (i + 1)..Len(list) : list[j] \in DOMAIN v.windows /\ v.windows[list[j]].parent = w

LEMMA DestroySubwindowsIs ==
  ASSUME NEW S, NEW owners, NEW conn, Good(S, owners, conn), NEW w \in DOMAIN S.windows
  PROVE  Good(destroy_subwindows(S, w), owners, conn)
<1> DEFINE children == S.windows[w].children
           list == Reverse(children)
           n == Len(list)
           base == set_subwindows_mapped(S, w, FALSE)
           R == StateSet
           St == [i \in 0..n |-> {v \in StateSet : Good(v, owners, conn) /\ StillThere(v, w, list, i)}]
           G == [i \in 1..n |-> [v \in StateSet |-> erase_window_tree(v, list[i])]]
           Part(f) == [i \in 0..n |-> IF i = 0 THEN base ELSE erase_window_tree(f[i - 1], list[i])]
<1>1. /\ n \in Nat /\ \A i \in 1..n : list[i] \in DOMAIN S.windows /\ S.windows[list[i]].parent = w
      /\ \A i, j \in 1..n : list[i] = list[j] => i = j
  <2>1. children \in Seq(Window)
    BY ChildrenAre DEF Good
  <2>2. Once(children) /\ ToSet(children) = {x \in DOMAIN S.windows : S.windows[x].parent = w}
    BY DEF Good, Tree, Listed
  <2>3. Len(children) \in Nat /\ DOMAIN children = 1..Len(children)
    BY <2>1, SequenceIs
  <2> HIDE DEF children
  <2>4. n = Len(children) /\ \A i \in 1..Len(children) : list[i] = children[(Len(children) - i) + 1]
    BY <2>3 DEF Reverse
  <2>5. \A i \in 1..n : (Len(children) - i) + 1 \in 1..Len(children)
    BY <2>3, <2>4
  <2>6. \A i \in 1..n : list[i] \in ToSet(children)
    BY <2>3, <2>4, <2>5 DEF ToSet
  <2>7. \A i, j \in 1..n : list[i] = list[j] => i = j
    BY <2>2, <2>3, <2>4, <2>5 DEF Once
  <2> QED
    BY <2>2, <2>3, <2>4, <2>6, <2>7
<1>2. Good(base, owners, conn) /\ Flags(S, base)
  BY SetSubwindowsMappedIs
<1> HIDE DEF list, base
<1>3. base \in St[0]
  <2>1. StillThere(base, w, list, 0)
    BY <1>1, <1>2 DEF StillThere, Flags
  <2> QED
    BY <1>1, <1>2, <2>1 DEF Good
<1>4. ASSUME NEW i \in 1..n, NEW v \in St[i - 1] PROVE erase_window_tree(v, list[i]) \in St[i]
  <2> DEFINE T == erase_window_tree(v, list[i])
  <2>1. i - 1 \in 0..n /\ i \in 0..n /\ i \in ((i - 1) + 1)..n
    BY <1>1
  <2>2. Good(v, owners, conn) /\ StillThere(v, w, list, i - 1)
    BY <2>1
  <2>3. w \in DOMAIN v.windows /\ list[i] \in DOMAIN v.windows /\ v.windows[list[i]].parent = w
    BY <2>1, <2>2 DEF StillThere
  <2>4. /\ Good(T, owners, conn) /\ w \in DOMAIN T.windows
        /\ \A y \in DOMAIN v.windows : v.windows[y].parent = w /\ y # list[i] =>
             y \in DOMAIN T.windows /\ T.windows[y].parent = w
    BY <2>2, <2>3, SubwindowStep
  <2> HIDE DEF T
  <2>5. \A j \in (i + 1)..n : j \in ((i - 1) + 1)..n /\ list[j] # list[i]
    BY <1>1
  <2>6. StillThere(T, w, list, i)
    BY <2>2, <2>4, <2>5 DEF StillThere
  <2> QED
    BY <2>1, <2>4, <2>6 DEF Good, T
<1>a. \A i \in 1..n : \A v \in StateSet : G[i][v] = erase_window_tree(v, list[i])
  OBVIOUS
<1>s. \A i \in 0..n : St[i] \subseteq R /\ \A v \in St[i] : Good(v, owners, conn)
  OBVIOUS
<1> HIDE DEF n, St, G
<1>5. ASSUME NEW i \in 1..n, NEW v \in St[i - 1] PROVE G[i][v] \in St[i]
  <2>1. i - 1 \in 0..n
    BY <1>1
  <2>2. G[i][v] = erase_window_tree(v, list[i])
    BY <1>a, <1>s, <2>1
  <2> QED
    BY <1>4, <2>2
<1>6. Leads(n, R, St, base, G)
  BY <1>1, <1>3, <1>5, <1>s DEF Leads
<1>7. PICK f : Follows(f, n, R, St, base, G)
  BY <1>6, Iteration
<1>8. /\ f \in [0..n -> R] /\ f[0] = base /\ \A i \in 1..n : f[i] = G[i][f[i - 1]]
  BY <1>7 DEF Follows
<1>9. f = Part(f)
  <2>1. \A i \in 1..n : G[i][f[i - 1]] = erase_window_tree(f[i - 1], list[i])
    BY <1>1, <1>8, <1>a
  <2>2. \A i \in (0..n) \ {0} : i \in 1..n
    BY <1>1
  <2> QED
    BY <1>8, <2>1, <2>2
<1> DEFINE after == CHOOSE g : g = Part(g)
<1>10. after = Part(after)
  BY <1>9
<1>11. destroy_subwindows(S, w) = after[n]
  BY DEF destroy_subwindows, n, list, base
<1> HIDE DEF after
<1>12. after[0] = base /\ \A i \in 1..n : after[i] = erase_window_tree(after[i - 1], list[i])
  <2>1. 0 \in 0..n /\ \A i \in 1..n : i \in 0..n /\ i # 0
    BY <1>1
  <2> QED
    BY <1>10, <2>1
<1>13. \A i \in 0..n : after[i] \in St[i]
  <2>1. \A i \in 1..n : after[i - 1] \in St[i - 1] => after[i] \in St[i]
    BY <1>4, <1>12
  <2> QED
    BY <1>1, <1>3, <1>12, <2>1, IterationStays
<1> QED
  BY <1>1, <1>11, <1>13, <1>s
-----------------------------------------------------------------------------
(* A save set is applied.                                                  *)

LEMMA IoAbove ==
  ASSUME NEW S, Tree(S), NEW w \in DOMAIN S.windows, S.windows[w].class = "io"
  PROVE  \A x \in Path(S, w) : S.windows[x].class = "io"
<1> DEFINE Fine == {y \in DOMAIN S.windows : S.windows[y].class = "io" =>
                      \A x \in Path(S, y) : S.windows[x].class = "io"}
<1>1. Rooted(S)
  BY DEF Tree
<1>2. Root \in Fine
  BY <1>1, PathOfRoot DEF Rooted
<1>3. ASSUME NEW y \in DOMAIN S.windows \ {Root}, S.windows[y].parent \in Fine PROVE y \in Fine
  <2>1. Path(S, y) = {y} \cup Path(S, S.windows[y].parent)
    BY <1>1, PathUp
  <2> QED
    BY <1>3, <2>1 DEF Tree, Classed
<1> HIDE DEF Fine
<1>4. DOMAIN S.windows \subseteq Fine
  BY <1>1, <1>2, <1>3, FromTheRoot
<1> QED
  BY <1>4 DEF Fine

LEMMA ForeignParentIs ==
  ASSUME NEW S, Tree(S), NEW c \in Client, NEW w \in DOMAIN S.windows
  PROVE  LET p == ForeignParent(S, c, w)
         IN p \in Path(S, w) /\ S.windows[p].owner # c
<1> DEFINE wanted == {a \in DOMAIN S.windows : S.windows[a].owner # c}
           p == ForeignParent(S, c, w)
           candidates == (Path(S, w) \ {w}) \cap wanted
<1>1. Rooted(S) /\ Root \in wanted /\ Root \in Path(S, w)
  BY Apart DEF Tree, Rooted
<1>2. CASE S.windows[w].owner # c
  BY <1>1, <1>2, PathIs DEF ForeignParent
<1>3. CASE S.windows[w].owner = c
  <2>1. p = ClosestAncestor(S, w, wanted)
    BY <1>3 DEF ForeignParent
  <2>2. Root \in candidates
    BY <1>1, <1>3
  <2> HIDE DEF wanted
  <2>3. LET cs == (Path(S, w) \ {w}) \cap wanted
        IN  IF cs = {} THEN ClosestAncestor(S, w, wanted) = None
            ELSE /\ ClosestAncestor(S, w, wanted) \in cs
                 /\ \A b \in cs : b \in Path(S, ClosestAncestor(S, w, wanted))
    BY <1>1, ClosestIs
  <2>4. p \in candidates
    BY <2>1, <2>2, <2>3
  <2> QED
    BY <2>4 DEF wanted
<1> QED
  BY <1>2, <1>3

(* Windows have only moved towards the root. *)
Shrinks(S, T) ==
  /\ DOMAIN T.windows = DOMAIN S.windows
  /\ \A x \in DOMAIN S.windows : /\ T.windows[x].owner = S.windows[x].owner
                                 /\ Path(T, x) \subseteq Path(S, x)

LEMMA FlagsShrink ==
  ASSUME NEW S, NEW T, Tree(S), Flags(S, T)
  PROVE  Shrinks(S, T)
  BY FlagsTree DEF Shrinks, Flags

LEMMA UpShrinks ==
  ASSUME NEW S, NEW T, Rooted(S), NEW id, NEW parent, MovedTo(S, T, id, parent),
         parent \in Path(S, id), SameBodies(S, T)
  PROVE  Shrinks(S, T)
<1>1. ASSUME NEW x \in DOMAIN S.windows PROVE Path(T, x) \subseteq Path(S, x)
  <2>1. CASE id \in Path(S, x)
    <3>1. Path(S, id) \subseteq Path(S, x)
      BY <2>1, PathOfPart
    <3>2. Path(S, parent) \subseteq Path(S, x)
      BY <3>1, PathOfPart
    <3> QED
      BY <2>1, <3>2, MovedPaths
  <2>2. CASE id \notin Path(S, x)
    BY <2>2, MovedPaths
  <2> QED
    BY <2>1, <2>2
<1> QED
  BY <1>1 DEF Shrinks, MovedTo, SameBodies, SameBody

(* No window around w, nor w, belongs to c; or only those up to a point. *)
Clear(S, c, w) == w \in DOMAIN S.windows /\ \A a \in Path(S, w) : S.windows[a].owner # c
Onward(S, c, w) ==
  \A a \in Path(S, w) \ {w} :
    S.windows[a].owner = c =>
      \A b \in Path(S, w) \cap Subtree(S, a) : b = w \/ S.windows[b].owner = c

LEMMA ShrinksKeeps ==
  ASSUME NEW S, NEW T, Rooted(S), Shrinks(S, T), NEW c, NEW w \in DOMAIN S.windows
  PROVE  (Clear(S, c, w) => Clear(T, c, w)) /\ (Onward(S, c, w) => Onward(T, c, w))
<1>1. Path(T, w) \subseteq Path(S, w) /\ Path(S, w) \subseteq DOMAIN S.windows
  BY PathIs DEF Shrinks
<1>2. Clear(S, c, w) => Clear(T, c, w)
  BY <1>1 DEF Clear, Shrinks
<1>3. ASSUME Onward(S, c, w), NEW a \in Path(T, w) \ {w}, T.windows[a].owner = c,
             NEW b \in Path(T, w) \cap Subtree(T, a)
      PROVE  b = w \/ T.windows[b].owner = c
  <2>1. a \in DOMAIN S.windows /\ b \in DOMAIN S.windows /\ a \in Path(S, b)
    BY <1>1, <1>3 DEF Subtree, Shrinks
  <2>2. S.windows[a].owner = c /\ b \in Path(S, w) \cap Subtree(S, a)
    BY <1>1, <1>3, <2>1 DEF Subtree, Shrinks
  <2> QED
    BY <1>1, <1>3, <2>1, <2>2 DEF Onward, Shrinks
<1> QED
  BY <1>2, <1>3 DEF Onward

LEMMA ShrinksOn ==
  ASSUME NEW S, NEW T, NEW U, Shrinks(S, T), Shrinks(T, U)
  PROVE  Shrinks(S, U)
  BY DEF Shrinks

(* The new parent is around w and, if w is in c's windows up to a point,   *)
(* is beyond that point.                                                   *)
LEMMA NewParentIs ==
  ASSUME NEW S, Tree(S), NEW c \in Client, NEW w \in DOMAIN S.windows \ {Root}, NEW toRoot
  PROVE  LET p == IF toRoot THEN Root ELSE ForeignParent(S, c, S.windows[w].parent)
         IN /\ p \in DOMAIN S.windows /\ p \in Path(S, w) /\ w \notin Path(S, p)
            /\ toRoot \/ Onward(S, c, w) => Clear(S, c, p)
<1> DEFINE up == S.windows[w].parent
           p == IF toRoot THEN Root ELSE ForeignParent(S, c, up)
<1>1. /\ Rooted(S) /\ up \in DOMAIN S.windows /\ Path(S, w) = {w} \cup Path(S, up)
      /\ w \notin Path(S, up)
  BY PathUp, NoCycle DEF Tree
<1>2. p \in Path(S, up) /\ S.windows[p].owner # c
  <2>1. CASE toRoot
    BY <1>1, <2>1, Apart DEF Tree, Rooted
  <2>2. CASE ~toRoot
    BY <1>1, <2>2, ForeignParentIs
  <2> QED
    BY <2>1, <2>2
<1> HIDE DEF up
<1>3. p \in DOMAIN S.windows /\ Path(S, p) \subseteq Path(S, up)
  BY <1>1, <1>2, PathOfPart
<1>4. w \notin Path(S, p) /\ p \in Path(S, w) /\ p # w
  BY <1>1, <1>2, <1>3
<1>5. ASSUME toRoot PROVE Clear(S, c, p)
  BY <1>1, <1>2, <1>5, PathOfRoot DEF Clear, Rooted
<1>6. ASSUME Onward(S, c, w) PROVE Clear(S, c, p)
  <2> SUFFICES ASSUME NEW a \in Path(S, p), S.windows[a].owner = c PROVE FALSE
    BY <1>3 DEF Clear
  <2>1. a \in Path(S, w) \ {w}
    BY <1>1, <1>3
  <2>2. p \in Path(S, w) \cap Subtree(S, a)
    BY <1>3, <1>4 DEF Subtree
  <2> QED
    BY <1>2, <1>4, <1>6, <2>1, <2>2 DEF Onward
<1> HIDE DEF p
<1> QED
  BY <1>3, <1>4, <1>5, <1>6 DEF p, up
(* What one entry does to the windows. *)
Rescues(S, T, c, entry) ==
  /\ Shrinks(S, T) /\ T.saves = S.saves
  /\ \A x \in DOMAIN S.windows \ {entry.window} : T.windows[x].mapped = S.windows[x].mapped
  /\ S.windows[entry.window].owner # c =>
       /\ entry.map => T.windows[entry.window].mapped
       /\ entry.root \/ Onward(S, c, entry.window) => Clear(T, c, entry.window)

LEMMA RescuedIs ==
  ASSUME NEW S, NEW owners, NEW conn, Good(S, owners, conn), NEW w \in DOMAIN S.windows \ {Root},
         NEW p \in DOMAIN S.windows, p \in Path(S, w), w \notin Path(S, p), NEW fits
  PROVE  LET T == Rescued(S, w, p, fits)
         IN /\ Good(T, owners, conn) /\ MovedTo(S, T, w, p) /\ SameBodies(S, T)
            /\ T.saves = S.saves
<1>1. S.windows[w].class = "io" => S.windows[p].class = "io"
  BY IoAbove DEF Good
<1>2. CASE w \in fits
  <2>1. Rescued(S, w, p, fits) = reparent_window(S, w, p)
    BY <1>2 DEF Rescued
  <2> QED
    BY <1>1, <2>1, ReparentIs
<1>3. CASE w \notin fits
  <2>1. Rescued(S, w, p, fits) = Moved(S, w, p)
    BY <1>3 DEF Rescued
  <2> QED
    BY <1>1, <2>1, MovedUpIs
<1> QED
  BY <1>2, <1>3

(* The window is where the entry wants it, hidden or not. *)
Placed(S, c, w, toRoot, map, fits) ==
  LET parent == IF toRoot THEN Root ELSE ForeignParent(S, c, S.windows[w].parent)
      hidden == IF map THEN S ELSE set_window_mapped(S, w, FALSE)
  IN IF S.windows[w].parent = parent THEN S ELSE Rescued(hidden, w, parent, fits)

LEMMA PlacedIs ==
  ASSUME NEW S, NEW owners, NEW conn, Good(S, owners, conn), NEW c \in Client,
         NEW w \in DOMAIN S.windows \ {Root}, NEW toRoot, NEW map, NEW fits,
         S.windows[w].owner # c
  PROVE  LET T == Placed(S, c, w, toRoot, map, fits)
         IN /\ Good(T, owners, conn) /\ Shrinks(S, T) /\ T.saves = S.saves
            /\ \A x \in DOMAIN S.windows \ {w} : T.windows[x].mapped = S.windows[x].mapped
            /\ toRoot \/ Onward(S, c, w) => Clear(T, c, w)
<1> DEFINE p == IF toRoot THEN Root ELSE ForeignParent(S, c, S.windows[w].parent)
           H == IF map THEN S ELSE set_window_mapped(S, w, FALSE)
           T == Placed(S, c, w, toRoot, map, fits)
<1>0. T = IF S.windows[w].parent = p THEN S ELSE Rescued(H, w, p, fits)
  BY DEF Placed
<1> HIDE DEF T
<1>1. Tree(S) /\ Rooted(S) /\ S \in StateSet
  BY DEF Good, Tree
<1>2. /\ p \in DOMAIN S.windows /\ p \in Path(S, w) /\ w \notin Path(S, p)
      /\ toRoot \/ Onward(S, c, w) => Clear(S, c, p)
  BY <1>1, NewParentIs
<1> HIDE DEF p
<1>3. /\ Good(H, owners, conn) /\ Flags(S, H) /\ H.saves = S.saves
      /\ \A x \in DOMAIN S.windows \ {w} : H.windows[x].mapped = S.windows[x].mapped
  <2>1. CASE map
    BY <2>1 DEF Flags
  <2>2. CASE ~map
    <3> DEFINE U == set_window_mapped(S, w, FALSE)
    <3>1. Good(U, owners, conn) /\ Mapping(S, U, {w}, FALSE)
      BY SetMappedIs
    <3> HIDE DEF U
    <3>2. /\ Flags(S, U) /\ U.saves = S.saves
          /\ \A x \in DOMAIN S.windows \ {w} : U.windows[x].mapped = S.windows[x].mapped
      BY <3>1 DEF Mapping, Fixed
    <3>3. H = U
      BY <2>2 DEF U
    <3> HIDE DEF H
    <3> QED
      BY <3>1, <3>2, <3>3
  <2> QED
    BY <2>1, <2>2
<1> HIDE DEF H
<1>4. /\ Shrinks(S, H) /\ Rooted(H) /\ DOMAIN H.windows = DOMAIN S.windows
      /\ \A x \in DOMAIN S.windows : Path(H, x) = Path(S, x)
      /\ \A x \in DOMAIN S.windows : H.windows[x].owner = S.windows[x].owner
  BY <1>1, <1>3, FlagsShrink, FlagsTree DEF Tree, Flags
<1>5. CASE S.windows[w].parent = p
  <2>1. T = S
    BY <1>0, <1>5
  <2>2. Shrinks(S, S)
    BY DEF Shrinks
  <2>3. Path(S, w) = {w} \cup Path(S, p)
    BY <1>1, <1>5, PathUp
  <2>4. Clear(S, c, p) => Clear(S, c, w)
    BY <2>3 DEF Clear
  <2> QED
    BY <1>2, <1>5, <2>1, <2>2, <2>4 DEF T, p
<1>6. CASE S.windows[w].parent # p
  <2>1. T = Rescued(H, w, p, fits)
    BY <1>0, <1>6
  <2>2. /\ Good(T, owners, conn) /\ MovedTo(H, T, w, p) /\ SameBodies(H, T)
        /\ T.saves = H.saves
    BY <1>2, <1>3, <1>4, <2>1, RescuedIs
  <2>3. Shrinks(H, T)
    BY <1>2, <1>4, <2>2, UpShrinks
  <2>4. Shrinks(S, T)
    BY <1>4, <2>3, ShrinksOn
  <2>5. \A x \in DOMAIN S.windows \ {w} : T.windows[x].mapped = S.windows[x].mapped
    BY <1>3, <1>4, <2>2 DEF SameBodies, SameBody
  <2>6. Path(T, w) = {w} \cup Path(T, p)
    <3>1. Rooted(T) /\ w \in DOMAIN T.windows \ {Root} /\ T.windows[w].parent = p
      BY <1>4, <2>2 DEF Good, Tree, MovedTo
    <3> QED
      BY <3>1, PathUp
  <2>7. Path(T, p) = Path(S, p)
    <3>1. w \notin Path(H, p) /\ p \in DOMAIN H.windows /\ Path(H, p) = Path(S, p)
      BY <1>2, <1>4
    <3>2. Rooted(H) /\ MovedTo(H, T, w, p)
      BY <1>4, <2>2
    <3>3. \A x \in DOMAIN H.windows : w \notin Path(H, x) => Path(T, x) = Path(H, x)
      BY <3>2, MovedPaths
    <3> QED
      BY <3>1, <3>3
  <2>8. Clear(S, c, p) => Clear(T, c, w)
    <3>1. Path(S, p) \subseteq DOMAIN S.windows
      BY <1>1, <1>2, PathIs
    <3> QED
      BY <2>4, <2>6, <2>7, <3>1 DEF Clear, Shrinks
  <2> QED
    BY <1>2, <1>3, <2>2, <2>4, <2>5, <2>8 DEF T, p, H
<1> QED
  BY <1>5, <1>6

LEMMA SavedIs ==
  ASSUME NEW S, NEW owners, NEW conn, Good(S, owners, conn), NEW c \in Client,
         NEW entry \in SaveSetEntry, entry.window \in DOMAIN S.windows \ {Root}, NEW fits
  PROVE  LET T == Saved(S, c, entry, fits)
         IN Good(T, owners, conn) /\ Rescues(S, T, c, entry)
<1> DEFINE w == entry.window
           P == Placed(S, c, w, entry.root, entry.map, fits)
           T == Saved(S, c, entry, fits)
<1>1. T = IF S.windows[w].owner = c THEN S
          ELSE IF entry.map THEN set_window_mapped(P, w, TRUE) ELSE P
  BY DEF Saved, Placed
<1>2. CASE S.windows[w].owner = c
  <2>1. T = S
    BY <1>1, <1>2
  <2>2. Rescues(S, S, c, entry)
    BY <1>2 DEF Rescues, Shrinks
  <2> QED
    BY <2>1, <2>2
<1>3. CASE S.windows[w].owner # c
  <2>1. /\ Good(P, owners, conn) /\ Shrinks(S, P) /\ P.saves = S.saves
        /\ \A x \in DOMAIN S.windows \ {w} : P.windows[x].mapped = S.windows[x].mapped
        /\ entry.root \/ Onward(S, c, w) => Clear(P, c, w)
    BY <1>3, PlacedIs
  <2>2. T = IF entry.map THEN set_window_mapped(P, w, TRUE) ELSE P
    BY <1>1, <1>3
  <2> HIDE DEF P, T
  <2>3. CASE entry.map
    <3>1. T = set_window_mapped(P, w, TRUE) /\ w \in DOMAIN P.windows
      BY <2>1, <2>2, <2>3 DEF Shrinks
    <3>2. Good(T, owners, conn) /\ Mapping(P, T, {w}, TRUE)
      BY <2>1, <3>1, SetMappedIs
    <3>3. Flags(P, T) /\ Tree(P) /\ Rooted(P) /\ T.saves = P.saves
      BY <2>1, <3>2 DEF Good, Tree, Mapping, Fixed
    <3>4. Shrinks(P, T)
      BY <3>3, FlagsShrink
    <3>5. Shrinks(S, T)
      BY <2>1, <3>4, ShrinksOn
    <3>6. Clear(P, c, w) => Clear(T, c, w)
      BY <3>1, <3>3, <3>4, ShrinksKeeps
    <3>7. T.windows[w].mapped /\ \A x \in DOMAIN S.windows \ {w} : T.windows[x].mapped = S.windows[x].mapped
      BY <2>1, <3>1, <3>2 DEF Mapping, Shrinks
    <3> QED
      BY <2>1, <3>2, <3>3, <3>5, <3>6, <3>7 DEF Rescues, T
  <2>4. CASE ~entry.map
    <3>1. T = P
      BY <2>2, <2>4
    <3> QED
      BY <2>1, <2>4, <3>1 DEF Rescues, T
  <2> QED
    BY <2>3, <2>4
<1> QED
  BY <1>2, <1>3
(* The state without the save set of c. *)
Forgotten(S, c) == [S EXCEPT !.saves[c] = <<>>]

LEMMA ForgottenIs ==
  ASSUME NEW S, NEW owners, NEW conn, Good(S, owners, conn), NEW c \in Client
  PROVE  LET T == Forgotten(S, c)
         IN /\ Good(T, owners, conn) /\ T.windows = S.windows
            /\ T.saves = [S.saves EXCEPT ![c] = <<>>]
<1> DEFINE T == Forgotten(S, c)
           s == [S.saves EXCEPT ![c] = <<>>]
           empty == <<>>
<1>1. /\ S \in StateSet /\ Tree(S) /\ Owned(S, owners) /\ Redirects(S, conn)
      /\ Seen(S, None) /\ GrabsKept(S, conn) /\ SelectionsKept(S, conn) /\ SavesKept(S, conn)
  BY DEF Good, Kept
<1>2. S.saves \in [Client -> Seq(SaveSetEntry)]
  BY <1>1 DEF StateSet
<1>e. empty \in Seq(SaveSetEntry) /\ Len(empty) = 0
  OBVIOUS
<1>f. s[c] = empty /\ \A d \in Client : d # c => s[d] = S.saves[d]
  BY <1>2
<1>g. s = [d \in Client |-> s[d]]
  BY <1>2
<1> HIDE DEF empty
<1>3. s \in [Client -> Seq(SaveSetEntry)]
  <2>1. \A d \in Client : s[d] \in Seq(SaveSetEntry)
    BY <1>2, <1>e, <1>f
  <2> HIDE DEF s
  <2> QED
    BY <2>1, <1>g
<1>4. T = [S EXCEPT !.saves = s]
  BY DEF Forgotten
<1> HIDE DEF s
<1>5. /\ T \in StateSet /\ T.windows = S.windows /\ T.focus = S.focus /\ T.pointer = S.pointer
      /\ T.keyboard = S.keyboard /\ T.passive = S.passive /\ T.selections = S.selections
      /\ T.saves = s
  BY <1>1, <1>3, <1>4 DEF StateSet
<1> HIDE DEF T
<1>6. Flags(S, T) /\ Fewer(S, T)
  BY <1>5 DEF Flags, Fewer
<1>7. Tree(T) /\ Owned(T, owners)
  BY <1>1, <1>6, FlagsTree
<1>8. Redirects(T, conn)
  BY <1>1, <1>5 DEF Redirects
<1>9. \A x : Shown(S, x, None) => Shown(T, x, None)
  BY <1>5 DEF Shown, Viewable, Path, Closed
<1>10. Seen(T, None)
  BY <1>1, <1>5, <1>6, <1>9, SeenStays
<1>11. GrabsKept(T, conn) /\ SelectionsKept(T, conn)
  BY <1>1, <1>5 DEF GrabsKept, SelectionsKept
<1>12. SavesKept(T, conn)
  <2> SUFFICES ASSUME NEW d \in Client
               PROVE  /\ \A i \in 1..Len(s[d]) :
                           /\ d \in conn /\ s[d][i].window \in DOMAIN S.windows
                           /\ S.windows[s[d][i].window].owner # d
                      /\ \A i, j \in 1..Len(s[d]) : s[d][i].window = s[d][j].window => i = j
    BY <1>5 DEF SavesKept
  <2>1. CASE d = c
    BY <1>e, <1>f, <2>1
  <2>2. CASE d # c
    BY <1>1, <1>f, <2>2 DEF SavesKept
  <2> QED
    BY <2>1, <2>2
<1> QED
  BY <1>5, <1>7, <1>8, <1>10, <1>11, <1>12 DEF Good, Kept, T, s

(* What has become of an entry. *)
Survives(S, T, c, entry) ==
  S.windows[entry.window].owner # c =>
    /\ entry.map => T.windows[entry.window].mapped
    /\ entry.root \/ Onward(S, c, entry.window) => Clear(T, c, entry.window)

LEMMA SavedStep ==
  ASSUME NEW B, NEW S, NEW T, NEW c, Rooted(B), Rooted(S), Shrinks(B, S),
         NEW entry, entry.window \in DOMAIN B.windows, Rescues(S, T, c, entry)
  PROVE  /\ Shrinks(B, T) /\ Survives(B, T, c, entry)
         /\ \A e : e.window \in DOMAIN B.windows \ {entry.window} /\ Survives(B, S, c, e)
                     => Survives(B, T, c, e)
<1>1. Shrinks(B, T) /\ Shrinks(S, T)
  BY ShrinksOn DEF Rescues
<1>2. entry.window \in DOMAIN S.windows /\ S.windows[entry.window].owner = B.windows[entry.window].owner
  BY DEF Shrinks
<1>3. Survives(B, T, c, entry)
  <2>1. Onward(B, c, entry.window) => Onward(S, c, entry.window)
    BY ShrinksKeeps
  <2> QED
    BY <1>2, <2>1 DEF Survives, Rescues
<1>4. ASSUME NEW e, e.window \in DOMAIN B.windows \ {entry.window}, Survives(B, S, c, e)
      PROVE  Survives(B, T, c, e)
  <2>1. e.window \in DOMAIN S.windows \ {entry.window}
    BY <1>4 DEF Shrinks
  <2>2. Clear(S, c, e.window) => Clear(T, c, e.window)
    BY <1>1, <2>1, ShrinksKeeps
  <2>3. T.windows[e.window].mapped = S.windows[e.window].mapped
    BY <2>1 DEF Rescues
  <2> QED
    BY <1>4, <2>2, <2>3 DEF Survives
<1> QED
  BY <1>1, <1>3, <1>4

Applied(B, v, c, entries, i) ==
  Shrinks(B, v) /\ v.saves = B.saves /\ \A j \in 1..i : Survives(B, v, c, entries[j])

LEMMA ApplySaveSetIs ==
  ASSUME NEW S, NEW owners, NEW conn, Good(S, owners, conn), NEW c \in Client, NEW fits
  PROVE  LET T == apply_save_set(S, c, fits)
         IN /\ Good(T, owners, conn) /\ Shrinks(S, T) /\ T.saves = [S.saves EXCEPT ![c] = <<>>]
            /\ \A j \in 1..Len(S.saves[c]) : Survives(S, T, c, S.saves[c][j])
<1> DEFINE entries == S.saves[c]
           n == Len(entries)
           B == Forgotten(S, c)
           R == StateSet
           St == [i \in 0..n |-> {v \in StateSet : Good(v, owners, conn) /\ Applied(B, v, c, entries, i)}]
           G == [i \in 1..n |-> [v \in StateSet |-> Saved(v, c, entries[i], fits)]]
           Part(f) == [i \in 0..n |-> IF i = 0 THEN B ELSE Saved(f[i - 1], c, entries[i], fits)]
<1>1. /\ n \in Nat
      /\ \A i \in 1..n : entries[i] \in SaveSetEntry /\ entries[i].window \in DOMAIN S.windows \ {Root}
      /\ \A i, j \in 1..n : entries[i].window = entries[j].window => i = j
  <2>1. entries \in Seq(SaveSetEntry)
    BY DEF Good, StateSet
  <2>2. /\ \A i \in 1..n : entries[i].window \in DOMAIN S.windows
        /\ \A i, j \in 1..n : entries[i].window = entries[j].window => i = j
    BY DEF Good, Kept, SavesKept
  <2> HIDE DEF entries
  <2>3. n \in Nat /\ \A i \in 1..n : entries[i] \in SaveSetEntry
    BY <2>1, SequenceIs
  <2>4. \A i \in 1..n : entries[i].window # Root
    BY <2>3, Apart DEF SaveSetEntry
  <2> QED
    BY <2>2, <2>3, <2>4
<1>2. /\ Good(B, owners, conn) /\ B.windows = S.windows
      /\ B.saves = [S.saves EXCEPT ![c] = <<>>]
  BY ForgottenIs
<1> HIDE DEF B, entries
<1>3. B \in St[0]
  <2>1. Applied(B, B, c, entries, 0)
    BY DEF Applied, Shrinks
  <2> QED
    BY <1>1, <1>2, <2>1 DEF Good
<1>4. ASSUME NEW i \in 1..n, NEW v \in St[i - 1] PROVE Saved(v, c, entries[i], fits) \in St[i]
  <2> DEFINE e == entries[i]
             T == Saved(v, c, e, fits)
  <2>1. i - 1 \in 0..n /\ i \in 0..n
    BY <1>1
  <2>2. Good(v, owners, conn) /\ Applied(B, v, c, entries, i - 1)
    BY <2>1
  <2>3. e \in SaveSetEntry /\ e.window \in DOMAIN B.windows /\ e.window \in DOMAIN v.windows \ {Root}
    BY <1>1, <1>2, <2>2 DEF Applied, Shrinks
  <2> HIDE DEF T, e
  <2>4. Good(T, owners, conn) /\ Rescues(v, T, c, e)
    BY <2>2, <2>3, SavedIs DEF T
  <2>5. Rooted(B) /\ Rooted(v) /\ Shrinks(B, v)
    BY <1>2, <2>2 DEF Good, Tree, Applied
  <2>6. /\ Shrinks(B, T) /\ Survives(B, T, c, e)
        /\ \A d : d.window \in DOMAIN B.windows \ {e.window} /\ Survives(B, v, c, d)
                    => Survives(B, T, c, d)
    BY <2>3, <2>4, <2>5, SavedStep
  <2>7. \A j \in 1..(i - 1) : /\ entries[j].window \in DOMAIN B.windows \ {e.window}
                              /\ Survives(B, v, c, entries[j])
    BY <1>1, <1>2, <2>2 DEF Applied, e
  <2>8. \A j \in 1..i : j = i \/ j \in 1..(i - 1)
    BY <1>1
  <2>9. Applied(B, T, c, entries, i)
    BY <2>2, <2>4, <2>6, <2>7, <2>8 DEF Applied, Rescues, e
  <2> QED
    BY <2>1, <2>4, <2>9 DEF Good, T, e
<1>a. \A i \in 1..n : \A v \in StateSet : G[i][v] = Saved(v, c, entries[i], fits)
  OBVIOUS
<1>s. \A i \in 0..n : St[i] \subseteq R
                      /\ \A v \in St[i] : Good(v, owners, conn) /\ Applied(B, v, c, entries, i)
  OBVIOUS
<1> HIDE DEF n, St, G
<1>5. ASSUME NEW i \in 1..n, NEW v \in St[i - 1] PROVE G[i][v] \in St[i]
  <2>1. i - 1 \in 0..n
    BY <1>1
  <2>2. G[i][v] = Saved(v, c, entries[i], fits)
    BY <1>a, <1>s, <2>1
  <2> QED
    BY <1>4, <2>2
<1>6. Leads(n, R, St, B, G)
  BY <1>1, <1>3, <1>5, <1>s DEF Leads
<1>7. PICK f : Follows(f, n, R, St, B, G)
  BY <1>6, Iteration
<1>8. /\ f \in [0..n -> R] /\ f[0] = B /\ \A i \in 1..n : f[i] = G[i][f[i - 1]]
  BY <1>7 DEF Follows
<1>9. f = Part(f)
  <2>1. \A i \in 1..n : G[i][f[i - 1]] = Saved(f[i - 1], c, entries[i], fits)
    BY <1>1, <1>8, <1>a
  <2>2. \A i \in (0..n) \ {0} : i \in 1..n
    BY <1>1
  <2> QED
    BY <1>8, <2>1, <2>2
<1> DEFINE after == CHOOSE g : g = Part(g)
<1>10. after = Part(after)
  BY <1>9
<1>11. apply_save_set(S, c, fits) = after[n]
  BY DEF apply_save_set, n, entries, B, Forgotten
<1> HIDE DEF after
<1>12. after[0] = B /\ \A i \in 1..n : after[i] = Saved(after[i - 1], c, entries[i], fits)
  <2>1. 0 \in 0..n /\ \A i \in 1..n : i \in 0..n /\ i # 0
    BY <1>1
  <2> QED
    BY <1>10, <2>1
<1>13. \A i \in 0..n : after[i] \in St[i]
  <2>1. \A i \in 1..n : after[i - 1] \in St[i - 1] => after[i] \in St[i]
    BY <1>4, <1>12
  <2> QED
    BY <1>1, <1>3, <1>12, <2>1, IterationStays
<1> DEFINE T == apply_save_set(S, c, fits)
<1>14. Good(T, owners, conn) /\ Applied(B, T, c, entries, n)
  BY <1>1, <1>11, <1>13, <1>s
<1> HIDE DEF T
<1>15. Shrinks(S, T) /\ \A e : Survives(B, T, c, e) => Survives(S, T, c, e)
  BY <1>2, <1>14 DEF Applied, Shrinks, Survives, Onward, Path, Closed, Subtree
<1> QED
  BY <1>2, <1>14, <1>15 DEF Applied, T, n, entries
-----------------------------------------------------------------------------
(* A client leaves.                                                        *)

(* Whatever redirects to c no longer does. *)
Unredirected(S, c) ==
  [w \in DOMAIN S.windows |-> [S.windows[w] EXCEPT !.redirect = IF @ = c THEN None ELSE @]]

LEMMA UnredirectedIs ==
  ASSUME NEW S \in StateSet, NEW c
  PROVE  LET t == Unredirected(S, c)
         IN /\ t \in WindowTable /\ DOMAIN t = DOMAIN S.windows
            /\ \A w \in DOMAIN S.windows :
                 /\ t[w].parent = S.windows[w].parent /\ t[w].children = S.windows[w].children
                 /\ t[w].owner = S.windows[w].owner /\ t[w].class = S.windows[w].class
                 /\ t[w].mapped = S.windows[w].mapped
                 /\ t[w].redirect = IF S.windows[w].redirect = c THEN None ELSE S.windows[w].redirect
<1> DEFINE D == DOMAIN S.windows
           t == [w \in D |-> [S.windows[w] EXCEPT !.redirect = IF @ = c THEN None ELSE @]]
<1>1. D \subseteq Id /\ \A w \in D : S.windows[w] \in WindowRecord
  BY TableIs
<1>2. ASSUME NEW w \in D
      PROVE  /\ t[w] \in WindowRecord
             /\ t[w].parent = S.windows[w].parent /\ t[w].children = S.windows[w].children
             /\ t[w].owner = S.windows[w].owner /\ t[w].class = S.windows[w].class
             /\ t[w].mapped = S.windows[w].mapped
             /\ t[w].redirect = IF S.windows[w].redirect = c THEN None ELSE S.windows[w].redirect
  <2>1. PICK r \in WindowRecord : r = S.windows[w]
    BY <1>1
  <2> DEFINE redirect == IF r.redirect = c THEN None ELSE r.redirect
             q == [r EXCEPT !.redirect = redirect]
  <2>2. t[w] = q
    BY <2>1
  <2>3. redirect \in Client \cup {None}
    BY DEF WindowRecord
  <2> HIDE DEF redirect
  <2>4. /\ q \in WindowRecord /\ q.parent = r.parent /\ q.children = r.children
        /\ q.owner = r.owner /\ q.class = r.class /\ q.mapped = r.mapped /\ q.redirect = redirect
    BY <2>3 DEF WindowRecord
  <2> QED
    BY <2>1, <2>2, <2>4 DEF redirect
<1>3. DOMAIN t = D /\ t = [w \in D |-> t[w]]
  OBVIOUS
<1>5. Unredirected(S, c) = t
  BY DEF Unredirected
<1> HIDE DEF t
<1>4. t \in WindowTable
  <2>1. t \in [D -> WindowRecord]
    BY <1>2, <1>3
  <2> QED
    BY <1>1, <2>1, TableIn
<1> QED
  BY <1>2, <1>3, <1>4, <1>5

ReleasedGrab(g, c) == IF g # None /\ g.owner = c THEN None ELSE g
ReleasedSelections(S, c) ==
  [s \in Selection |-> IF S.selections[s].client = c THEN [window |-> None, client |-> None]
                       ELSE S.selections[s]]

LEMMA ReleasedIs ==
  ASSUME NEW S, NEW owners, NEW conn, Good(S, owners, conn), NEW c \in Client,
         S.saves[c] = <<>>
  PROVE  LET T == ReleasedBy(S, c)
         IN /\ Good(T, owners, conn \ {c}) /\ Flags(S, T)
            /\ \A x \in DOMAIN S.windows : T.windows[x].mapped = S.windows[x].mapped
<1> DEFINE T == ReleasedBy(S, c)
           t == Unredirected(S, c)
           p == ReleasedGrab(S.pointer, c)
           k == ReleasedGrab(S.keyboard, c)
           passives == {g \in S.passive : g.owner # c}
           selected == ReleasedSelections(S, c)
<1>1. /\ S \in StateSet /\ Tree(S) /\ Owned(S, owners) /\ Redirects(S, conn)
      /\ Seen(S, None) /\ GrabsKept(S, conn) /\ SelectionsKept(S, conn) /\ SavesKept(S, conn)
  BY DEF Good, Kept
<1>2. T = [S EXCEPT !.windows = t, !.pointer = p, !.keyboard = k, !.passive = passives,
                    !.selections = selected]
  <2>1. T = [S EXCEPT !.windows = T.windows, !.pointer = T.pointer, !.keyboard = T.keyboard,
                      !.passive = T.passive, !.selections = T.selections]
    BY <1>1 DEF ReleasedBy, StateSet
  <2>2. T.windows = t
    BY <1>1 DEF ReleasedBy, StateSet, Unredirected
  <2>3. T.pointer = p /\ T.keyboard = k
    BY <1>1 DEF ReleasedBy, StateSet, ReleasedGrab
  <2>4. T.passive = passives
    BY <1>1 DEF ReleasedBy, StateSet
  <2>5. T.selections = selected
    BY <1>1 DEF ReleasedBy, StateSet, ReleasedSelections
  <2> HIDE DEF T, t, p, k, passives, selected
  <2> QED
    BY <2>1, <2>2, <2>3, <2>4, <2>5
<1>3. /\ t \in WindowTable /\ DOMAIN t = DOMAIN S.windows
      /\ \A w \in DOMAIN S.windows :
           /\ t[w].parent = S.windows[w].parent /\ t[w].children = S.windows[w].children
           /\ t[w].owner = S.windows[w].owner /\ t[w].class = S.windows[w].class
           /\ t[w].mapped = S.windows[w].mapped
           /\ t[w].redirect = IF S.windows[w].redirect = c THEN None ELSE S.windows[w].redirect
  BY <1>1, UnredirectedIs
<1>4. p \in ActiveGrab \cup {None} /\ k \in ActiveGrab \cup {None} /\ passives \in SUBSET PassiveGrab
  BY <1>1 DEF StateSet, ReleasedGrab
<1>5. /\ selected \in [Selection -> [window : Id \cup {None}, client : Client \cup {None}]]
      /\ \A s \in Selection : \/ selected[s] = [window |-> None, client |-> None]
                              \/ selected[s] = S.selections[s] /\ S.selections[s].client # c
  BY <1>1 DEF StateSet, ReleasedSelections
<1>6. /\ (p # None => p = S.pointer /\ p.owner # c) /\ (k # None => k = S.keyboard /\ k.owner # c)
      /\ \A g \in passives : g \in S.passive /\ g.owner # c
  BY DEF ReleasedGrab
<1> HIDE DEF t, p, k, passives, selected
<1>7. /\ T \in StateSet /\ T.windows = t /\ T.focus = S.focus /\ T.pointer = p
      /\ T.keyboard = k /\ T.passive = passives /\ T.selections = selected /\ T.saves = S.saves
  BY <1>1, <1>2, <1>3, <1>4, <1>5 DEF StateSet
<1> HIDE DEF T
<1>8. /\ Flags(S, T) /\ Fewer(S, T)
      /\ \A x \in DOMAIN S.windows : T.windows[x].mapped = S.windows[x].mapped
  BY <1>3, <1>6, <1>7 DEF Flags, Fewer
<1>9. /\ Tree(T) /\ Owned(T, owners)
      /\ \A w \in DOMAIN S.windows : Path(T, w) = Path(S, w)
  BY <1>1, <1>8, FlagsTree
<1>10. Redirects(T, conn \ {c})
  BY <1>1, <1>3, <1>7 DEF Redirects
<1>11. ASSUME NEW x \in DOMAIN S.windows, Shown(S, x, None) PROVE Shown(T, x, None)
  <2>1. Path(T, x) = Path(S, x) /\ Path(S, x) \subseteq DOMAIN S.windows /\ None \notin Path(S, x)
    BY <1>1, <1>9, NotNone, PathIs DEF Tree
  <2>2. \A y \in Path(T, x) : T.windows[y].mapped
    BY <1>8, <1>11, <2>1 DEF Shown, Viewable
  <2> QED
    BY <1>8, <2>1, <2>2 DEF Shown, Viewable, Flags
<1>12. Seen(T, None)
  BY <1>1, <1>7, <1>8, <1>11, SeenStays
<1>13. GrabsKept(T, conn \ {c})
  BY <1>1, <1>3, <1>6, <1>7 DEF GrabsKept, GrabKept
<1>14. SelectionsKept(T, conn \ {c})
  BY <1>1, <1>3, <1>5, <1>7 DEF SelectionsKept
<1>15. SavesKept(T, conn \ {c})
  <2> SUFFICES ASSUME NEW d \in Client
               PROVE  /\ \A i \in 1..Len(S.saves[d]) :
                           /\ d \in conn \ {c} /\ S.saves[d][i].window \in DOMAIN t
                           /\ t[S.saves[d][i].window].owner # d
                      /\ \A i, j \in 1..Len(S.saves[d]) :
                           S.saves[d][i].window = S.saves[d][j].window => i = j
    BY <1>7 DEF SavesKept
  <2>1. CASE d = c
    <3>1. Len(S.saves[d]) = 0
      BY <2>1
    <3> QED
      BY <3>1
  <2>2. CASE d # c
    BY <1>1, <1>3, <2>2 DEF SavesKept
  <2> QED
    BY <2>1, <2>2
<1> QED
  BY <1>7, <1>8, <1>9, <1>10, <1>12, <1>13, <1>14, <1>15 DEF Good, Kept, T
(* Of the windows of c those from place i on may be left, and what is not  *)
(* inside a window of c is as it was.                                      *)
Razed(S, v, c, order, i) ==
  /\ \A x \in DOMAIN v.windows : x \in DOMAIN S.windows /\ v.windows[x].owner = S.windows[x].owner
  /\ \A x \in DOMAIN v.windows : v.windows[x].owner = c => \E j \in (i + 1)..Len(order) : order[j] = x
  /\ \A x : Clear(S, c, x) => Clear(v, c, x) /\ v.windows[x].mapped = S.windows[x].mapped

LEMMA RazedStep ==
  ASSUME NEW S, NEW v, NEW c, NEW order, NEW i \in 1..Len(order), Len(order) \in Nat,
         Razed(S, v, c, order, i - 1), Rooted(v), S.windows[order[i]].owner = c,
         NEW T, Destroyed(v, T, order[i])
  PROVE  Razed(S, T, c, order, i)
<1> DEFINE w == order[i]
<1>1. /\ Rooted(T) /\ \A x \in DOMAIN T.windows : Path(T, x) = Path(v, x)
      /\ w \in Subtree(v, w)
  BY ErasedPaths DEF Destroyed
<1>2. /\ w \in DOMAIN v.windows /\ DOMAIN T.windows = DOMAIN v.windows \ Subtree(v, w)
      /\ \A x \in DOMAIN T.windows : SameBody(T.windows[x], v.windows[x])
  BY DEF Destroyed, Erased, SameBodies
<1> HIDE DEF w
<1>3. \A x \in DOMAIN T.windows : x \in DOMAIN S.windows /\ T.windows[x].owner = S.windows[x].owner
  BY <1>2 DEF Razed, SameBody
<1>4. ASSUME NEW x \in DOMAIN T.windows, T.windows[x].owner = c
      PROVE  \E j \in (i + 1)..Len(order) : order[j] = x
  <2>1. x \in DOMAIN v.windows /\ v.windows[x].owner = c /\ x # w
    BY <1>1, <1>2, <1>4 DEF SameBody
  <2>2. PICK j \in ((i - 1) + 1)..Len(order) : order[j] = x
    BY <2>1 DEF Razed
  <2>3. j # i
    BY <2>1, <2>2 DEF w
  <2>4. j \in (i + 1)..Len(order)
    BY <2>3
  <2> QED
    BY <2>2, <2>4
<1>5. ASSUME NEW x, Clear(S, c, x) PROVE Clear(T, c, x) /\ T.windows[x].mapped = S.windows[x].mapped
  <2>1. Clear(v, c, x) /\ v.windows[x].mapped = S.windows[x].mapped
    BY <1>5 DEF Razed
  <2>2. v.windows[w].owner = c
    BY <1>2 DEF Razed, w
  <2>3. x \in DOMAIN T.windows
    BY <1>2, <2>1, <2>2 DEF Clear, Subtree
  <2>4. Path(T, x) = Path(v, x) /\ Path(T, x) \subseteq DOMAIN T.windows
    BY <1>1, <2>3, PathIs
  <2> QED
    BY <1>2, <2>1, <2>3, <2>4 DEF Clear, SameBody
<1> QED
  BY <1>3, <1>4, <1>5 DEF Razed

LEMMA TearDownIs ==
  ASSUME NEW S, NEW owners, NEW conn, Good(S, owners, conn), NEW c \in Client,
         NEW order, Lists(order, OwnedBy(S, c)), NEW fits
  PROVE  LET T == TearDown(S, order, fits)
         IN /\ Good(T, owners \ {c}, conn)
            /\ \A x : Clear(S, c, x) => x \in DOMAIN T.windows
                                        /\ T.windows[x].mapped = S.windows[x].mapped
<1> DEFINE n == Len(order)
           R == StateSet
           St == [i \in 0..n |-> {v \in StateSet : Good(v, owners, conn) /\ Razed(S, v, c, order, i)}]
           G == [i \in 1..n |-> [v \in StateSet |-> Torn(v, order[i], fits)]]
           Part(f) == [i \in 0..n |-> IF i = 0 THEN S ELSE Torn(f[i - 1], order[i], fits)]
<1>1. /\ n \in Nat
      /\ \A i \in 1..n : S.windows[order[i]].owner = c /\ order[i] # Root
      /\ \A x \in DOMAIN S.windows : S.windows[x].owner = c => \E j \in 1..n : order[j] = x
  <2>1. S.windows[Root].owner # c
    BY Apart DEF Good, Tree
  <2> QED
    BY <2>1 DEF Lists, OwnedBy
<1>2. S \in St[0]
  <2>1. Razed(S, S, c, order, 0)
    BY <1>1 DEF Razed
  <2> QED
    BY <1>1, <2>1 DEF Good
<1>3. ASSUME NEW i \in 1..n, NEW v \in St[i - 1] PROVE Torn(v, order[i], fits) \in St[i]
  <2> DEFINE w == order[i]
             T == Torn(v, w, fits)
  <2>1. i - 1 \in 0..n /\ i \in 0..n
    BY <1>1
  <2>2. Good(v, owners, conn) /\ Razed(S, v, c, order, i - 1)
    BY <2>1
  <2>3. CASE w \notin DOMAIN v.windows
    <3>1. T = v
      BY <2>3 DEF Torn
    <3>2. \A j \in ((i - 1) + 1)..n : j = i \/ j \in (i + 1)..n
      BY <1>1
    <3>3. Razed(S, v, c, order, i)
      BY <2>2, <2>3, <3>2 DEF Razed
    <3> QED
      BY <2>1, <2>2, <3>1, <3>3 DEF Good
  <2>4. CASE w \in DOMAIN v.windows
    <3>1. w \in DOMAIN v.windows \ {Root} /\ Rooted(v)
      BY <1>1, <2>2, <2>4 DEF Good, Tree
    <3> HIDE DEF w, T
    <3>2. Good(T, owners, conn) /\ Destroyed(v, T, w)
      BY <2>2, <3>1, TornIs DEF T
    <3>3. Razed(S, T, c, order, i)
      BY <1>1, <2>2, <3>1, <3>2, RazedStep DEF w
    <3> QED
      BY <2>1, <3>2, <3>3 DEF Good, T, w
  <2> QED
    BY <2>3, <2>4
<1>a. \A i \in 1..n : \A v \in StateSet : G[i][v] = Torn(v, order[i], fits)
  OBVIOUS
<1>s. \A i \in 0..n : St[i] \subseteq R
                      /\ \A v \in St[i] : Good(v, owners, conn) /\ Razed(S, v, c, order, i)
  OBVIOUS
<1>n. n = Len(order)
  OBVIOUS
<1> HIDE DEF n, St, G
<1>4. ASSUME NEW i \in 1..n, NEW v \in St[i - 1] PROVE G[i][v] \in St[i]
  <2>1. i - 1 \in 0..n
    BY <1>1
  <2>2. G[i][v] = Torn(v, order[i], fits)
    BY <1>a, <1>s, <2>1
  <2> QED
    BY <1>3, <2>2
<1>5. Leads(n, R, St, S, G)
  BY <1>1, <1>2, <1>4, <1>s DEF Leads
<1>6. PICK f : Follows(f, n, R, St, S, G)
  BY <1>5, Iteration
<1>7. /\ f \in [0..n -> R] /\ f[0] = S /\ \A i \in 1..n : f[i] = G[i][f[i - 1]]
  BY <1>6 DEF Follows
<1>8. f = Part(f)
  <2>1. \A i \in 1..n : G[i][f[i - 1]] = Torn(f[i - 1], order[i], fits)
    BY <1>1, <1>7, <1>a
  <2>2. \A i \in (0..n) \ {0} : i \in 1..n
    BY <1>1
  <2> QED
    BY <1>7, <2>1, <2>2
<1> DEFINE after == CHOOSE g : g = Part(g)
<1>9. after = Part(after)
  BY <1>8
<1>10. TearDown(S, order, fits) = after[n]
  BY DEF TearDown, n
<1> HIDE DEF after
<1>11. after[0] = S /\ \A i \in 1..n : after[i] = Torn(after[i - 1], order[i], fits)
  <2>1. 0 \in 0..n /\ \A i \in 1..n : i \in 0..n /\ i # 0
    BY <1>1
  <2> QED
    BY <1>9, <2>1
<1>12. \A i \in 0..n : after[i] \in St[i]
  <2>1. \A i \in 1..n : after[i - 1] \in St[i - 1] => after[i] \in St[i]
    BY <1>3, <1>11
  <2> QED
    BY <1>1, <1>2, <1>11, <2>1, IterationStays
<1> DEFINE T == TearDown(S, order, fits)
<1>13. Good(T, owners, conn) /\ Razed(S, T, c, order, n)
  BY <1>1, <1>10, <1>12, <1>s
<1> HIDE DEF T
<1>14. \A x \in DOMAIN T.windows : T.windows[x].owner # c
  <2>1. \A j : j \notin (n + 1)..n
    BY <1>1
  <2> QED
    BY <1>13, <1>n, <2>1 DEF Razed
<1>15. Good(T, owners \ {c}, conn)
  BY <1>13, <1>14 DEF Good, Owned
<1>16. \A x : Clear(S, c, x) => x \in DOMAIN T.windows /\ T.windows[x].mapped = S.windows[x].mapped
  BY <1>13 DEF Razed, Clear
<1> QED
  BY <1>15, <1>16 DEF T

LEMMA DepartureIs ==
  ASSUME NEW S, NEW conn \in SUBSET Client, Good(S, conn, conn), NEW c \in conn,
         NEW fits, NEW fit, NEW order \in SetToSeqs(OwnedBy(S, c))
  PROVE  LET T == TearDown(ReleasedBy(apply_save_set(S, c, fits), c), order, fit)
         IN /\ Good(T, conn \ {c}, conn \ {c})
            /\ \A i \in 1..Len(S.saves[c]) :
                 LET entry == S.saves[c][i]
                 IN entry.root \/ Onward(S, c, entry.window) =>
                      /\ entry.window \in DOMAIN T.windows
                      /\ entry.map => T.windows[entry.window].mapped
<1> DEFINE A == apply_save_set(S, c, fits)
           B == ReleasedBy(A, c)
           T == TearDown(B, order, fit)
<1>0. c \in Client /\ S \in StateSet
  BY DEF Good
<1>1. /\ Good(A, conn, conn) /\ Shrinks(S, A) /\ A.saves = [S.saves EXCEPT ![c] = <<>>]
      /\ \A j \in 1..Len(S.saves[c]) : Survives(S, A, c, S.saves[c][j])
  BY <1>0, ApplySaveSetIs
<1> HIDE DEF A
<1>2. A.saves[c] = <<>>
  BY <1>0, <1>1 DEF StateSet
<1>3. /\ Good(B, conn, conn \ {c}) /\ Flags(A, B)
      /\ \A x \in DOMAIN A.windows : B.windows[x].mapped = A.windows[x].mapped
  BY <1>0, <1>1, <1>2, ReleasedIs
<1> HIDE DEF B
<1>4. OwnedBy(B, c) = OwnedBy(S, c)
  BY <1>1, <1>3 DEF OwnedBy, Shrinks, Flags
<1>5. Lists(order, OwnedBy(B, c))
  <2>1. IsFiniteSet(Id) /\ DOMAIN S.windows \subseteq Id
    <3>1. IsFiniteSet(Window)
      BY TreeAssumption
    <3>2. IsFiniteSet(Window \cup {Root})
      BY <3>1, FS_AddElement
    <3> QED
      BY <1>0, <3>2, TableIs DEF Id
  <2>2. OwnedBy(S, c) \subseteq Id
    BY <2>1 DEF OwnedBy
  <2>3. IsFiniteSet(OwnedBy(S, c))
    BY <2>1, <2>2, FS_Subset
  <2> QED
    BY <1>4, <2>3, ListsOnce
<1>a. Good(B, conn, conn \ {c})
  BY <1>3
<1>6. /\ Good(T, conn \ {c}, conn \ {c})
      /\ \A x : Clear(B, c, x) => x \in DOMAIN T.windows
                                  /\ T.windows[x].mapped = B.windows[x].mapped
  BY <1>0, <1>a, <1>5, TearDownIs
<1> HIDE DEF T
<1>7. \A x : Clear(A, c, x) => Clear(B, c, x) /\ B.windows[x].mapped = A.windows[x].mapped
  <2>1. Tree(A) /\ Rooted(A)
    BY <1>1 DEF Good, Tree
  <2>2. Shrinks(A, B)
    BY <1>3, <2>1, FlagsShrink
  <2> QED
    BY <1>3, <2>1, <2>2, ShrinksKeeps DEF Clear
<1>8. ASSUME NEW i \in 1..Len(S.saves[c])
      PROVE  LET entry == S.saves[c][i]
             IN entry.root \/ Onward(S, c, entry.window) =>
                  /\ entry.window \in DOMAIN T.windows
                  /\ entry.map => T.windows[entry.window].mapped
  <2> DEFINE e == S.saves[c][i]
  <2>1. S.windows[e.window].owner # c
    BY <1>0 DEF Good, Kept, SavesKept
  <2>2. Survives(S, A, c, e)
    BY <1>1
  <2> HIDE DEF e
  <2>3. ASSUME e.root \/ Onward(S, c, e.window)
        PROVE  e.window \in DOMAIN T.windows /\ (e.map => T.windows[e.window].mapped)
    <3>1. Clear(A, c, e.window) /\ (e.map => A.windows[e.window].mapped)
      BY <2>1, <2>2, <2>3 DEF Survives
    <3>2. Clear(B, c, e.window) /\ (e.map => B.windows[e.window].mapped)
      BY <1>7, <3>1
    <3> QED
      BY <1>6, <3>2
  <2> QED
    BY <2>3 DEF e
<1> QED
  BY <1>6, <1>8 DEF T, B, A
-----------------------------------------------------------------------------
(* Requests that change one part of the state.                             *)

LEMMA SameTable ==
  ASSUME NEW S, NEW T, NEW owners, NEW conn, Good(S, owners, conn), T.windows = S.windows
  PROVE  /\ Tree(T) /\ Owned(T, owners) /\ Redirects(T, conn)
         /\ \A x : Viewable(S, x) => Shown(T, x, None)
<1>1. Tree(S) /\ Owned(S, owners) /\ Redirects(S, conn) /\ Flags(S, T)
  BY DEF Good, Flags
<1>2. Tree(T) /\ Owned(T, owners)
  BY <1>1, FlagsTree
<1>3. Redirects(T, conn)
  BY <1>1 DEF Redirects
<1>4. \A x : Path(T, x) = Path(S, x)
  BY DEF Path, Closed
<1>5. \A x : Viewable(S, x) => Shown(T, x, None)
  BY <1>4 DEF Viewable, Shown
<1> QED
  BY <1>2, <1>3, <1>5

LEMMA SeenViewable ==
  ASSUME NEW S, NEW owners, NEW conn, Good(S, owners, conn)
  PROVE  /\ S.focus.kind = "window" => Viewable(S, S.focus.window)
         /\ S.pointer # None =>
              /\ Viewable(S, S.pointer.window)
              /\ S.pointer.kind = "explicit" /\ S.pointer.confine # None => Viewable(S, S.pointer.confine)
         /\ S.keyboard # None => S.keyboard.confine = None /\ Viewable(S, S.keyboard.window)
<1>1. \A x : Shown(S, x, None) => Viewable(S, x)
  BY NotNone DEF Shown, Good
<1> QED
  BY <1>1 DEF Good, Seen, FocusShown, PointerShown, KeyboardShown

LEMMA FocusSet ==
  ASSUME NEW S, NEW owners, NEW conn, Good(S, owners, conn), NEW f \in FocusState,
         f.kind = "window" => Viewable(S, f.window)
  PROVE  Good([S EXCEPT !.focus = f], owners, conn)
<1> DEFINE T == [S EXCEPT !.focus = f]
<1>1. /\ T \in StateSet /\ T.windows = S.windows /\ T.focus = f /\ T.pointer = S.pointer
      /\ T.keyboard = S.keyboard /\ T.passive = S.passive /\ T.selections = S.selections
      /\ T.saves = S.saves
  BY DEF Good, StateSet
<1> HIDE DEF T
<1>2. /\ Tree(T) /\ Owned(T, owners) /\ Redirects(T, conn)
      /\ \A x : Viewable(S, x) => Shown(T, x, None)
  BY <1>1, SameTable
<1>3. Seen(T, None)
  BY <1>1, <1>2, SeenViewable DEF Seen, FocusShown, PointerShown, KeyboardShown
<1>4. Kept(T, conn)
  BY <1>1, KeptStays DEF Good, Fixed, Fewer
<1> QED
  BY <1>1, <1>2, <1>3, <1>4 DEF Good, T

LEMMA PointerSet ==
  ASSUME NEW S, NEW owners, NEW conn, Good(S, owners, conn), NEW g \in ActiveGrab \cup {None},
         g # None => /\ GrabKept(g, DOMAIN S.windows, conn) /\ Viewable(S, g.window)
                     /\ g.kind = "explicit" /\ g.confine # None => Viewable(S, g.confine)
  PROVE  Good([S EXCEPT !.pointer = g], owners, conn)
<1> DEFINE T == [S EXCEPT !.pointer = g]
<1>1. /\ T \in StateSet /\ T.windows = S.windows /\ T.focus = S.focus /\ T.pointer = g
      /\ T.keyboard = S.keyboard /\ T.passive = S.passive /\ T.selections = S.selections
      /\ T.saves = S.saves
  BY DEF Good, StateSet
<1> HIDE DEF T
<1>2. /\ Tree(T) /\ Owned(T, owners) /\ Redirects(T, conn)
      /\ \A x : Viewable(S, x) => Shown(T, x, None)
  BY <1>1, SameTable
<1>3. Seen(T, None)
  BY <1>1, <1>2, SeenViewable DEF Seen, FocusShown, PointerShown, KeyboardShown
<1>4. Kept(T, conn)
  BY <1>1 DEF Good, Kept, GrabsKept, SelectionsKept, SavesKept
<1> QED
  BY <1>1, <1>2, <1>3, <1>4 DEF Good, T

LEMMA KeyboardSet ==
  ASSUME NEW S, NEW owners, NEW conn, Good(S, owners, conn), NEW g \in ActiveGrab \cup {None},
         g # None => /\ GrabKept(g, DOMAIN S.windows, conn) /\ Viewable(S, g.window)
                     /\ g.confine = None
  PROVE  Good([S EXCEPT !.keyboard = g], owners, conn)
<1> DEFINE T == [S EXCEPT !.keyboard = g]
<1>1. /\ T \in StateSet /\ T.windows = S.windows /\ T.focus = S.focus /\ T.pointer = S.pointer
      /\ T.keyboard = g /\ T.passive = S.passive /\ T.selections = S.selections
      /\ T.saves = S.saves
  BY DEF Good, StateSet
<1> HIDE DEF T
<1>2. /\ Tree(T) /\ Owned(T, owners) /\ Redirects(T, conn)
      /\ \A x : Viewable(S, x) => Shown(T, x, None)
  BY <1>1, SameTable
<1>3. Seen(T, None)
  BY <1>1, <1>2, SeenViewable DEF Seen, FocusShown, PointerShown, KeyboardShown
<1>4. Kept(T, conn)
  BY <1>1 DEF Good, Kept, GrabsKept, SelectionsKept, SavesKept
<1> QED
  BY <1>1, <1>2, <1>3, <1>4 DEF Good, T

LEMMA PassiveSet ==
  ASSUME NEW S, NEW owners, NEW conn, Good(S, owners, conn), NEW ps \in SUBSET PassiveGrab,
         \A g \in ps : GrabKept(g, DOMAIN S.windows, conn)
  PROVE  Good([S EXCEPT !.passive = ps], owners, conn)
<1> DEFINE T == [S EXCEPT !.passive = ps]
<1>1. /\ T \in StateSet /\ T.windows = S.windows /\ T.focus = S.focus /\ T.pointer = S.pointer
      /\ T.keyboard = S.keyboard /\ T.passive = ps /\ T.selections = S.selections
      /\ T.saves = S.saves
  BY DEF Good, StateSet
<1> HIDE DEF T
<1>2. /\ Tree(T) /\ Owned(T, owners) /\ Redirects(T, conn)
      /\ \A x : Viewable(S, x) => Shown(T, x, None)
  BY <1>1, SameTable
<1>3. Seen(T, None)
  BY <1>1, <1>2, SeenViewable DEF Seen, FocusShown, PointerShown, KeyboardShown
<1>4. Kept(T, conn)
  BY <1>1 DEF Good, Kept, GrabsKept, SelectionsKept, SavesKept
<1> QED
  BY <1>1, <1>2, <1>3, <1>4 DEF Good, T

LEMMA SelectionSet ==
  ASSUME NEW S, NEW owners, NEW conn \in SUBSET Client, Good(S, owners, conn), NEW s \in Selection,
         NEW w \in DOMAIN S.windows \cup {None}, NEW c \in conn
  PROVE  Good([S EXCEPT !.selections[s] = [window |-> w, client |-> IF w = None THEN None ELSE c]],
              owners, conn)
<1> DEFINE e == [window |-> w, client |-> IF w = None THEN None ELSE c]
           q == [S.selections EXCEPT ![s] = e]
           T == [S EXCEPT !.selections[s] = e]
           Entry == [window : Id \cup {None}, client : Client \cup {None}]
<1>1. S \in StateSet /\ S.selections \in [Selection -> Entry] /\ DOMAIN S.windows \subseteq Id
  BY TableIs DEF Good, StateSet
<1>2. /\ e \in Entry
      /\ \/ e = [window |-> None, client |-> None]
         \/ e.window \in DOMAIN S.windows /\ e.client \in conn
  <2>1. CASE w = None
    BY <2>1
  <2>2. CASE w # None
    BY <1>1, <2>2
  <2> QED
    BY <2>1, <2>2
<1> HIDE DEF e
<1>3. q \in [Selection -> Entry] /\ q[s] = e /\ \A r \in Selection : r # s => q[r] = S.selections[r]
  BY <1>1, <1>2
<1>4. T = [S EXCEPT !.selections = q]
  BY <1>1
<1> HIDE DEF q, T
<1>5. /\ T \in StateSet /\ T.windows = S.windows /\ T.focus = S.focus /\ T.pointer = S.pointer
      /\ T.keyboard = S.keyboard /\ T.passive = S.passive /\ T.selections = q
      /\ T.saves = S.saves
  BY <1>1, <1>3, <1>4 DEF StateSet
<1>6. /\ Tree(T) /\ Owned(T, owners) /\ Redirects(T, conn)
      /\ \A x : Viewable(S, x) => Shown(T, x, None)
  BY <1>5, SameTable
<1>7. Seen(T, None)
  BY <1>5, <1>6, SeenViewable DEF Seen, FocusShown, PointerShown, KeyboardShown
<1>8. GrabsKept(T, conn) /\ SavesKept(T, conn)
  BY <1>5 DEF Good, Kept, GrabsKept, SavesKept
<1>9. SelectionsKept(T, conn)
  BY <1>2, <1>3, <1>5 DEF Good, Kept, SelectionsKept
<1> QED
  BY <1>5, <1>6, <1>7, <1>8, <1>9 DEF Good, Kept, T, e
LEMMA SavesSet ==
  ASSUME NEW S, NEW owners, NEW conn, Good(S, owners, conn), NEW c \in conn, c \in Client,
         NEW list \in Seq(SaveSetEntry),
         \A i \in 1..Len(list) : /\ list[i].window \in DOMAIN S.windows
                                 /\ S.windows[list[i].window].owner # c,
         \A i, j \in 1..Len(list) : list[i].window = list[j].window => i = j
  PROVE  Good([S EXCEPT !.saves[c] = list], owners, conn)
<1> DEFINE q == [S.saves EXCEPT ![c] = list]
           T == [S EXCEPT !.saves[c] = list]
<1>1. S \in StateSet /\ S.saves \in [Client -> Seq(SaveSetEntry)]
  BY DEF Good, StateSet
<1>2. q[c] = list /\ \A d \in Client : d # c => q[d] = S.saves[d]
  BY <1>1
<1>a. q = [d \in Client |-> q[d]]
  BY <1>1
<1>3. T = [S EXCEPT !.saves = q]
  BY <1>1
<1> HIDE DEF q, T
<1>4. q \in [Client -> Seq(SaveSetEntry)]
  <2>1. \A d \in Client : q[d] \in Seq(SaveSetEntry)
    BY <1>1, <1>2
  <2> QED
    BY <2>1, <1>a
<1>5. /\ T \in StateSet /\ T.windows = S.windows /\ T.focus = S.focus /\ T.pointer = S.pointer
      /\ T.keyboard = S.keyboard /\ T.passive = S.passive /\ T.selections = S.selections
      /\ T.saves = q
  BY <1>1, <1>3, <1>4 DEF StateSet
<1>6. /\ Tree(T) /\ Owned(T, owners) /\ Redirects(T, conn)
      /\ \A x : Viewable(S, x) => Shown(T, x, None)
  BY <1>5, SameTable
<1>7. Seen(T, None)
  BY <1>5, <1>6, SeenViewable DEF Seen, FocusShown, PointerShown, KeyboardShown
<1>8. GrabsKept(T, conn) /\ SelectionsKept(T, conn)
  BY <1>5 DEF Good, Kept, GrabsKept, SelectionsKept
<1>9. SavesKept(T, conn)
  <2> SUFFICES ASSUME NEW d \in Client
               PROVE  /\ \A i \in 1..Len(q[d]) :
                           /\ d \in conn /\ q[d][i].window \in DOMAIN S.windows
                           /\ S.windows[q[d][i].window].owner # d
                      /\ \A i, j \in 1..Len(q[d]) : q[d][i].window = q[d][j].window => i = j
    BY <1>5 DEF SavesKept
  <2>1. CASE d = c
    BY <1>2, <2>1
  <2>2. CASE d # c
    BY <1>2, <2>2 DEF Good, Kept, SavesKept
  <2> QED
    BY <2>1, <2>2
<1> QED
  BY <1>5, <1>6, <1>7, <1>8, <1>9 DEF Good, Kept, T

(* The children of p in another order. *)
LEMMA ChildrenSet ==
  ASSUME NEW S, NEW owners, NEW conn, Good(S, owners, conn), NEW p \in DOMAIN S.windows,
         NEW list \in Seq(Window), Once(list), ToSet(list) = ToSet(S.windows[p].children)
  PROVE  Good([S EXCEPT !.windows[p].children = list], owners, conn)
<1> DEFINE D == DOMAIN S.windows
           t == [S.windows EXCEPT ![p].children = list]
           T == [S EXCEPT !.windows[p].children = list]
<1>1. /\ S \in StateSet /\ Tree(S) /\ Owned(S, owners) /\ Redirects(S, conn)
      /\ Seen(S, None) /\ Kept(S, conn) /\ Rooted(S)
  BY DEF Good, Tree
<1>2. S.windows \in [D -> WindowRecord] /\ D \subseteq Id /\ \A w \in D : S.windows[w] \in WindowRecord
  BY <1>1, TableIs
<1>3. DOMAIN t = D /\ t = [x \in D |-> t[x]]
      /\ \A x \in D : t[x] = IF x = p THEN WithChildren(S.windows[x], list) ELSE S.windows[x]
  BY <1>2 DEF WithChildren
<1>4. T = [S EXCEPT !.windows = t]
  BY <1>1 DEF StateSet
<1> HIDE DEF t, T
<1>5. ASSUME NEW x \in D
      PROVE  /\ t[x] \in WindowRecord /\ SameBody(S.windows[x], t[x])
             /\ t[x].parent = S.windows[x].parent
             /\ t[x].children = IF x = p THEN list ELSE S.windows[x].children
  <2>1. CASE x = p
    <3>1. PICK r \in WindowRecord : r = S.windows[x]
      BY <1>2
    <3>2. /\ WithChildren(r, list) \in WindowRecord /\ SameBody(r, WithChildren(r, list))
          /\ WithChildren(r, list).parent = r.parent /\ WithChildren(r, list).children = list
      BY RecordWith, Apart
    <3>3. t[x] = WithChildren(r, list)
      BY <1>3, <2>1, <3>1
    <3> QED
      BY <2>1, <3>1, <3>2, <3>3
  <2>2. CASE x # p
    BY <1>2, <1>3, <2>2 DEF SameBody
  <2> QED
    BY <2>1, <2>2
<1>6. t \in WindowTable
  <2>1. t \in [D -> WindowRecord]
    BY <1>3, <1>5
  <2> QED
    BY <1>2, <2>1, TableIn
<1>7. /\ T \in StateSet /\ T.windows = t /\ T.focus = S.focus /\ T.pointer = S.pointer
      /\ T.keyboard = S.keyboard /\ T.passive = S.passive /\ T.selections = S.selections
      /\ T.saves = S.saves
  BY <1>1, <1>4, <1>6 DEF StateSet
<1>8. Alike(S, T) /\ Fixed(S, T) /\ Fewer(S, T) /\ SameBodies(S, T)
  BY <1>3, <1>5, <1>7 DEF Alike, Fixed, Fewer, SameBodies
<1>9. Rooted(T) /\ \A w \in D : Path(T, w) = Path(S, w)
  BY <1>1, <1>8, SamePaths
<1>10. Listed(T)
  <2> SUFFICES ASSUME NEW q \in D
               PROVE  Once(t[q].children) /\ ToSet(t[q].children) = {w \in D : t[w].parent = q}
    <3>1. DOMAIN T.windows = D /\ T.windows = t
      BY <1>3, <1>7
    <3> QED
      BY <3>1 DEF Listed
  <2>1. {w \in D : t[w].parent = q} = {w \in D : S.windows[w].parent = q}
    BY <1>5
  <2>2. Once(S.windows[q].children) /\ ToSet(S.windows[q].children) = {w \in D : S.windows[w].parent = q}
    BY <1>1 DEF Tree, Listed
  <2> QED
    BY <1>5, <2>1, <2>2
<1>11. Tree(T)
  <2>1. Classed(T)
    BY <1>1, <1>8, <1>9 DEF Tree, Classed, Rooted, Alike, SameBodies, SameBody
  <2>2. T.windows[Root].parent = None /\ T.windows[Root].owner = None
    BY <1>1, <1>8 DEF Tree, Rooted, Alike, SameBodies, SameBody
  <2> QED
    BY <1>9, <1>10, <2>1, <2>2 DEF Tree
<1>12. Owned(T, owners) /\ Redirects(T, conn)
  BY <1>1, <1>8 DEF Owned, Redirects, Alike, SameBodies, SameBody
<1>13. ASSUME NEW x \in D, Shown(S, x, None) PROVE Shown(T, x, None)
  <2>1. Path(T, x) = Path(S, x) /\ Path(S, x) \subseteq D /\ None \notin Path(S, x)
    BY <1>1, <1>9, NotNone, PathIs
  <2>2. \A y \in Path(T, x) : T.windows[y].mapped
    BY <1>8, <1>13, <2>1 DEF Shown, Viewable, SameBodies, SameBody
  <2> QED
    BY <1>8, <2>2 DEF Shown, Viewable, Alike
<1>14. Seen(T, None)
  BY <1>1, <1>7, <1>8, <1>13, SeenStays
<1>15. Kept(T, conn)
  BY <1>1, <1>8, KeptStays DEF Alike, SameBodies, SameBody
<1> QED
  BY <1>7, <1>11, <1>12, <1>14, <1>15 DEF Good, T

LEMMA RedirectSet ==
  ASSUME NEW S, NEW owners, NEW conn \in SUBSET Client, Good(S, owners, conn),
         NEW w \in DOMAIN S.windows, NEW c \in conn
  PROVE  Good([S EXCEPT !.windows[w].redirect = c], owners, conn)
<1> DEFINE D == DOMAIN S.windows
           t == [S.windows EXCEPT ![w].redirect = c]
           T == [S EXCEPT !.windows[w].redirect = c]
<1>1. /\ S \in StateSet /\ Tree(S) /\ Owned(S, owners) /\ Redirects(S, conn)
      /\ Seen(S, None) /\ Kept(S, conn) /\ Rooted(S)
  BY DEF Good, Tree
<1>2. S.windows \in [D -> WindowRecord] /\ D \subseteq Id /\ \A x \in D : S.windows[x] \in WindowRecord
  BY <1>1, TableIs
<1>3. DOMAIN t = D /\ t = [x \in D |-> t[x]]
      /\ \A x \in D : t[x] = IF x = w THEN [S.windows[x] EXCEPT !.redirect = c] ELSE S.windows[x]
  BY <1>2
<1>4. T = [S EXCEPT !.windows = t]
  BY <1>1 DEF StateSet
<1> HIDE DEF t, T
<1>5. ASSUME NEW x \in D
      PROVE  /\ t[x] \in WindowRecord /\ t[x].parent = S.windows[x].parent
             /\ t[x].children = S.windows[x].children /\ t[x].owner = S.windows[x].owner
             /\ t[x].class = S.windows[x].class /\ t[x].mapped = S.windows[x].mapped
             /\ t[x].redirect \in {c, S.windows[x].redirect}
  <2>1. PICK r \in WindowRecord : r = S.windows[x]
    BY <1>2
  <2>2. t[x] = IF x = w THEN [r EXCEPT !.redirect = c] ELSE r
    BY <1>3, <2>1
  <2>3. LET q == [r EXCEPT !.redirect = c]
        IN /\ q \in WindowRecord /\ q.parent = r.parent /\ q.children = r.children
           /\ q.owner = r.owner /\ q.class = r.class /\ q.mapped = r.mapped /\ q.redirect = c
    BY DEF WindowRecord
  <2> QED
    BY <2>1, <2>2, <2>3
<1>6. t \in WindowTable
  <2>1. t \in [D -> WindowRecord]
    BY <1>3, <1>5
  <2> QED
    BY <1>2, <2>1, TableIn
<1>7. /\ T \in StateSet /\ T.windows = t /\ T.focus = S.focus /\ T.pointer = S.pointer
      /\ T.keyboard = S.keyboard /\ T.passive = S.passive /\ T.selections = S.selections
      /\ T.saves = S.saves
  BY <1>1, <1>4, <1>6 DEF StateSet
<1>8. Flags(S, T) /\ Fixed(S, T) /\ Fewer(S, T)
  BY <1>3, <1>5, <1>7 DEF Flags, Fixed, Fewer
<1>9. Tree(T) /\ Owned(T, owners) /\ \A x \in D : Path(T, x) = Path(S, x)
  BY <1>1, <1>8, FlagsTree
<1>10. Redirects(T, conn)
  BY <1>1, <1>3, <1>5, <1>7 DEF Redirects
<1>11. ASSUME NEW x \in D, Shown(S, x, None) PROVE Shown(T, x, None)
  <2>1. Path(T, x) = Path(S, x) /\ Path(S, x) \subseteq D /\ None \notin Path(S, x)
    BY <1>1, <1>9, NotNone, PathIs
  <2>2. \A y \in Path(T, x) : T.windows[y].mapped
    BY <1>5, <1>7, <1>11, <2>1 DEF Shown, Viewable
  <2> QED
    BY <1>8, <2>2 DEF Shown, Viewable, Flags
<1>12. Seen(T, None)
  BY <1>1, <1>7, <1>8, <1>11, SeenStays
<1>13. Kept(T, conn)
  BY <1>1, <1>8, KeptStays DEF Flags
<1> QED
  BY <1>7, <1>9, <1>10, <1>12, <1>13 DEF Good, T
Fresh(S, added, grown, w, p, c, class, override) ==
  /\ added = [parent |-> p, children |-> <<>>, owner |-> c, class |-> class,
              mapped |-> FALSE, override |-> override, redirect |-> None]
  /\ grown = [x \in DOMAIN S.windows \cup {w} |-> IF x = w THEN added ELSE S.windows[x]]

LEMMA NewIs ==
  ASSUME NEW S, NEW conn \in SUBSET Client, Good(S, conn, conn), NEW c \in conn,
         NEW w \in Window, w \notin DOMAIN S.windows, NEW p \in DOMAIN S.windows,
         NEW class \in {"io", "input"}, NEW override \in BOOLEAN,
         class = "io" => S.windows[p].class = "io",
         NEW added, NEW grown, Fresh(S, added, grown, w, p, c, class, override)
  PROVE  Good([S EXCEPT !.windows = [grown EXCEPT ![p].children = Append(@, w)]], conn, conn)
<1> SUFFICES ASSUME
      added = [parent |-> p, children |-> <<>>, owner |-> c, class |-> class,
               mapped |-> FALSE, override |-> override, redirect |-> None],
      grown = [x \in DOMAIN S.windows \cup {w} |-> IF x = w THEN added ELSE S.windows[x]]
      PROVE  Good([S EXCEPT !.windows = [grown EXCEPT ![p].children = Append(@, w)]], conn, conn)
  BY DEF Fresh
<1> DEFINE D == DOMAIN S.windows
           E == D \cup {w}
           list == Append(S.windows[p].children, w)
           t == [grown EXCEPT ![p].children = Append(@, w)]
           T == [S EXCEPT !.windows = t]
           empty == <<>>
<1>1. /\ S \in StateSet /\ Tree(S) /\ Owned(S, conn) /\ Redirects(S, conn)
      /\ Seen(S, None) /\ Kept(S, conn) /\ Rooted(S)
  BY DEF Good, Tree
<1>2. /\ S.windows \in [D -> WindowRecord] /\ D \subseteq Id /\ \A x \in D : S.windows[x] \in WindowRecord
      /\ E \subseteq Id /\ w # p
  BY <1>1, TableIs, Apart
<1>3. /\ DOMAIN t = E /\ t = [x \in E |-> t[x]] /\ t[w] = added
      /\ \A x \in D : t[x] = IF x = p THEN WithChildren(S.windows[x], list) ELSE S.windows[x]
  BY <1>2 DEF WithChildren
<1>e. empty \in Seq(Window) /\ Once(empty) /\ ToSet(empty) = {}
  BY DEF Once, ToSet
<1>4. /\ added \in WindowRecord /\ added.parent = p /\ added.children = empty /\ added.owner = c
      /\ added.class = class /\ added.mapped = FALSE /\ added.redirect = None
  BY <1>2, <1>e DEF WindowRecord
<1>5. /\ S.windows[p].children \in Seq(Window)
      /\ Once(S.windows[p].children)
      /\ ToSet(S.windows[p].children) = {x \in D : S.windows[x].parent = p}
  BY <1>1, ChildrenAre DEF Tree, Listed
<1>6. /\ list \in Seq(Window) /\ Once(list)
      /\ ToSet(list) = {x \in D : S.windows[x].parent = p} \cup {w}
  BY <1>5, AppendedIs
<1> HIDE DEF t, T, list, empty
<1>7. ASSUME NEW x \in D
      PROVE  /\ t[x] \in WindowRecord /\ SameBody(S.windows[x], t[x])
             /\ t[x].parent = S.windows[x].parent
             /\ t[x].children = IF x = p THEN list ELSE S.windows[x].children
  <2>1. CASE x = p
    <3>1. PICK r \in WindowRecord : r = S.windows[x]
      BY <1>2
    <3>2. /\ WithChildren(r, list) \in WindowRecord /\ SameBody(r, WithChildren(r, list))
          /\ WithChildren(r, list).parent = r.parent /\ WithChildren(r, list).children = list
      BY <1>6, RecordWith, Apart
    <3>3. t[x] = WithChildren(r, list)
      BY <1>3, <2>1, <3>1
    <3> QED
      BY <2>1, <3>1, <3>2, <3>3
  <2>2. CASE x # p
    BY <1>2, <1>3, <2>2 DEF SameBody
  <2> QED
    BY <2>1, <2>2
<1>8. t \in WindowTable
  <2>1. \A x \in E : t[x] \in WindowRecord
    BY <1>3, <1>4, <1>7
  <2>2. t \in [E -> WindowRecord]
    BY <1>3, <2>1
  <2> QED
    BY <1>2, <2>2, TableIn
<1>9. /\ T \in StateSet /\ T.windows = t /\ T.focus = S.focus /\ T.pointer = S.pointer
      /\ T.keyboard = S.keyboard /\ T.passive = S.passive /\ T.selections = S.selections
      /\ T.saves = S.saves
  BY <1>1, <1>8 DEF StateSet, T
<1>a. DOMAIN T.windows = E
  BY <1>3, <1>9
<1>10. Grown(S, T, w, p)
  BY <1>3, <1>4, <1>7, <1>9, <1>a DEF Grown
<1>11. Rooted(T) /\ \A x \in D : Path(T, x) = Path(S, x)
  BY <1>1, <1>10, GrownPaths
<1>b. \A x \in D : S.windows[x].parent # w
  BY <1>1, <1>2, Apart DEF Tree, Rooted
<1>c. t[w].parent = p /\ t[w].children = empty /\ t[w].owner = c /\ t[w].redirect = None
  BY <1>3, <1>4
<1>d. \A x \in D : /\ t[x].parent = S.windows[x].parent
                   /\ t[x].children = IF x = p THEN list ELSE S.windows[x].children
                   /\ t[x].owner = S.windows[x].owner /\ t[x].redirect = S.windows[x].redirect
  BY <1>7 DEF SameBody
<1>12. Listed(T)
  <2> SUFFICES ASSUME NEW q \in E
               PROVE  Once(t[q].children) /\ ToSet(t[q].children) = {x \in E : t[x].parent = q}
    BY <1>9, <1>a DEF Listed
  <2>1. CASE q = w
    <3>1. {x \in E : t[x].parent = q} = {}
      BY <1>2, <1>b, <1>c, <1>d, <2>1
    <3> QED
      BY <1>c, <1>e, <2>1, <3>1
  <2>2. CASE q = p
    <3>1. {x \in E : t[x].parent = q} = {x \in D : S.windows[x].parent = p} \cup {w}
      BY <1>c, <1>d, <2>2
    <3> QED
      BY <1>6, <1>d, <2>2, <3>1
  <2>3. CASE q \in D /\ q # p
    <3>1. {x \in E : t[x].parent = q} = {x \in D : S.windows[x].parent = q}
      BY <1>c, <1>d, <2>3
    <3>2. /\ Once(S.windows[q].children)
          /\ ToSet(S.windows[q].children) = {x \in D : S.windows[x].parent = q}
      BY <1>1, <2>3 DEF Tree, Listed
    <3> QED
      BY <1>d, <2>3, <3>1, <3>2
  <2> QED
    BY <2>1, <2>2, <2>3
<1>13. Tree(T)
  <2>1. Classed(T)
    <3> SUFFICES ASSUME NEW x \in E \ {Root}, t[x].class = "io" PROVE t[t[x].parent].class = "io"
      BY <1>9, <1>a DEF Classed
    <3>1. CASE x = w
      BY <1>3, <1>4, <1>7, <3>1 DEF SameBody
    <3>2. CASE x \in D \ {Root}
      <4>1. S.windows[x].class = "io" /\ S.windows[x].parent \in D
        BY <1>1, <1>7, <3>2 DEF SameBody, Rooted
      <4> QED
        BY <1>1, <1>7, <3>2, <4>1 DEF Tree, Classed, SameBody
    <3> QED
      BY <3>1, <3>2
  <2>2. T.windows[Root].parent = None /\ T.windows[Root].owner = None
    BY <1>1, <1>7, <1>9 DEF Tree, Rooted, SameBody
  <2> QED
    BY <1>11, <1>12, <2>1, <2>2 DEF Tree
<1>14. Owned(T, conn) /\ Redirects(T, conn)
  <2>1. ASSUME NEW x \in E
        PROVE  /\ x # Root => t[x].owner \in conn
               /\ t[x].redirect \in conn \cup {None}
    <3>1. CASE x = w
      BY <1>c, <3>1
    <3>2. CASE x \in D
      BY <1>1, <1>d, <3>2 DEF Owned, Redirects
    <3> QED
      BY <3>1, <3>2
  <2> QED
    BY <1>9, <1>a, <2>1 DEF Owned, Redirects
<1>15. ASSUME NEW x \in D, Shown(S, x, None) PROVE Shown(T, x, None)
  <2>1. Path(T, x) = Path(S, x) /\ Path(S, x) \subseteq D /\ None \notin Path(S, x)
    BY <1>1, <1>11, NotNone, PathIs
  <2>2. \A y \in Path(T, x) : T.windows[y].mapped
    BY <1>7, <1>9, <1>15, <2>1 DEF Shown, Viewable, SameBody
  <2> QED
    BY <1>a, <2>2 DEF Shown, Viewable
<1>16. Fixed(S, T) /\ Fewer(S, T)
  BY <1>9 DEF Fixed, Fewer
<1>17. Seen(T, None)
  BY <1>1, <1>9, <1>15, <1>16, SeenStays
<1>18. Kept(T, conn)
  <2>1. DOMAIN S.windows \subseteq DOMAIN T.windows
        /\ \A x \in DOMAIN S.windows : T.windows[x].owner = S.windows[x].owner
    BY <1>7, <1>9, <1>a DEF SameBody
  <2> QED
    BY <1>1, <1>16, <2>1, KeptStays
<1> QED
  BY <1>9, <1>13, <1>14, <1>17, <1>18 DEF Good, T, t

LEMMA LeastAndMost ==
  ASSUME NEW n \in Nat, NEW A \in SUBSET (1..n), A # {}
  PROVE  (\E i \in A : \A j \in A : i <= j) /\ (\E i \in A : \A j \in A : i >= j)
<1>1. ASSUME NEW B \in SUBSET Nat, B # {} PROVE \E i \in B : \A j \in B : i <= j
  <2>1. \E x \in B : \A y \in B : ~ (<<y, x>> \in OpToRel(<, Nat))
    BY <1>1, WFMin, NatLessThanWellFounded, Zenon
  <2>2. PICK x \in B : \A y \in B : ~ (y < x)
    BY <1>1, <2>1, Zenon DEF OpToRel
  <2> QED
    BY <2>2
<1>2. \E i \in A : \A j \in A : i <= j
  <2>1. A \in SUBSET Nat
    OBVIOUS
  <2> QED
    BY <1>1, <2>1
<1>3. \E i \in A : \A j \in A : i >= j
  <2> DEFINE B == {n - i : i \in A}
  <2>1. B \in SUBSET Nat /\ B # {}
    OBVIOUS
  <2>2. \E i \in B : \A j \in B : i <= j
    <3> HIDE DEF B
    <3> QED
      BY <1>1, <2>1
  <2> QED
    BY <2>2
<1> QED
  BY <1>2, <1>3

LEMMA RestackedIs ==
  ASSUME NEW children \in Seq(Window), Once(children), NEW w \in ToSet(children),
         NEW sibling, NEW above \in BOOLEAN, sibling # None => sibling \in ToSet(children) \ {w}
  PROVE  LET r == Restacked(children, w, sibling, above)
         IN r \in Seq(Window) /\ Once(r) /\ ToSet(r) = ToSet(children)
<1> DEFINE rest == Without(children, w)
           i == CHOOSE i \in DOMAIN rest : rest[i] = sibling
           at == IF sibling = None THEN (IF above THEN Len(rest) ELSE 0)
                 ELSE IF above THEN i ELSE i - 1
           r == Restacked(children, w, sibling, above)
<1>1. rest \in Seq(Window) /\ Once(rest) /\ ToSet(rest) = ToSet(children) \ {w}
  BY WithoutIs
<1>2. w \in Window
  BY SequenceIs
<1>3. r = InsertAt(rest, at + 1, w)
  BY DEF Restacked
<1> HIDE DEF rest
<1>4. Len(rest) \in Nat /\ DOMAIN rest = 1..Len(rest)
  BY <1>1, SequenceIs
<1>5. sibling # None => i \in 1..Len(rest)
  BY <1>1, <1>4 DEF ToSet
<1> HIDE DEF i
<1>6. at + 1 \in 1..(Len(rest) + 1)
  BY <1>4, <1>5
<1> DEFINE k == at + 1
<1> HIDE DEF at, r, k
<1>7. k \in 1..(Len(rest) + 1) /\ r = InsertAt(rest, k, w)
  BY <1>3, <1>6 DEF k
<1>8. r \in Seq(Window) /\ ToSet(r) = ToSet(rest) \cup {w} /\ Once(r)
  BY <1>1, <1>2, <1>7, InsertedIs
<1> QED
  BY <1>1, <1>8 DEF r
-----------------------------------------------------------------------------
(* The invariant in the states of the specification.                       *)

LEMMA Reached ==
  ASSUME NEW T, NEW K \in SUBSET Client, Good(T, K, K), Become(T), clients' = K
  PROVE  IInv'
<1>1. T \in StateSet
  BY DEF Good
<1>2. State' = T
  BY <1>1, TableIs DEF State, Become
<1> QED
  BY <1>2 DEF IInv

(* The state is S and the clients are K. *)
At(S, K) ==
  /\ K \in SUBSET Client /\ Good(S, K, K) /\ State = S /\ clients = K
  /\ windows = S.windows /\ focus = S.focus /\ pointerGrab = S.pointer
  /\ keyboardGrab = S.keyboard /\ passive = S.passive
  /\ selections = S.selections /\ saveSets = S.saves

LEMMA Held ==
  ASSUME IInv
  PROVE  \E S, K : At(S, K)
<1>1. PICK S : S = State
  OBVIOUS
<1>2. PICK K : K = clients
  OBVIOUS
<1>3. /\ windows = S.windows /\ focus = S.focus /\ pointerGrab = S.pointer
      /\ keyboardGrab = S.keyboard /\ passive = S.passive
      /\ selections = S.selections /\ saveSets = S.saves
  BY <1>1 DEF State
<1>4. K \in SUBSET Client /\ Good(S, K, K)
  BY <1>1, <1>2 DEF IInv
<1>5. At(S, K)
  BY <1>1, <1>2, <1>3, <1>4 DEF At
<1> QED
  BY <1>5

LEMMA AtFirst ==
  ASSUME Init
  PROVE  IInv
<1>1. PICK S : S = State
  OBVIOUS
<1> DEFINE empty == <<>>
           root == [parent |-> None, children |-> empty, owner |-> None, class |-> "io",
                    mapped |-> TRUE, override |-> FALSE, redirect |-> None]
           D == {Root}
<1>2. /\ S.windows = [w \in D |-> root]
      /\ S.focus = [kind |-> "pointer_root", window |-> None, revert |-> "none"]
      /\ S.pointer = None /\ S.keyboard = None /\ S.passive = {}
      /\ S.selections = [s \in Selection |-> [window |-> None, client |-> None]]
      /\ S.saves = [c \in Client |-> empty] /\ clients = Client
      /\ S = [windows |-> S.windows, focus |-> S.focus, pointer |-> S.pointer,
              keyboard |-> S.keyboard, passive |-> S.passive,
              selections |-> S.selections, saves |-> S.saves]
  BY <1>1 DEF Init, State
<1>3. empty \in Seq(Window) /\ Once(empty) /\ ToSet(empty) = {} /\ empty \in Seq(SaveSetEntry)
      /\ Len(empty) = 0
  BY DEF Once, ToSet
<1> HIDE DEF empty
<1>4. root \in WindowRecord
  BY <1>3 DEF WindowRecord
<1>5. /\ root.parent = None /\ root.children = empty /\ root.owner = None /\ root.redirect = None
      /\ root.mapped = TRUE
  OBVIOUS
<1> HIDE DEF root
<1>6. DOMAIN S.windows = D /\ \A w \in D : S.windows[w] = root
  BY <1>2
<1>7. S \in StateSet
  <2>1. S.windows \in [D -> WindowRecord] /\ D \in SUBSET Id
    BY <1>2, <1>4, Apart
  <2>2. S.windows \in WindowTable
    BY <2>1, TableIn
  <2>3. S.focus \in FocusState
    BY <1>2 DEF FocusState
  <2>4. S.selections \in [Selection -> [window : Id \cup {None}, client : Client \cup {None}]]
    BY <1>2
  <2>5. S.saves \in [Client -> Seq(SaveSetEntry)]
    BY <1>2, <1>3
  <2>6. S.pointer \in ActiveGrab \cup {None} /\ S.keyboard \in ActiveGrab \cup {None}
        /\ S.passive \in SUBSET PassiveGrab
    BY <1>2
  <2>7. /\ S.windows \in WindowTable /\ S.focus \in FocusState
        /\ S.selections \in [Selection -> [window : Id \cup {None}, client : Client \cup {None}]]
        /\ S.saves \in [Client -> Seq(SaveSetEntry)]
        /\ S = [windows |-> S.windows, focus |-> S.focus, pointer |-> S.pointer,
                keyboard |-> S.keyboard, passive |-> S.passive,
                selections |-> S.selections, saves |-> S.saves]
    BY <1>2, <2>2, <2>3, <2>4, <2>5
  <2> QED
    BY <2>6, <2>7 DEF StateSet
<1>8. Rooted(S)
  BY <1>6 DEF Rooted, Path
<1>9. Tree(S)
  <2>1. {w \in D : S.windows[w].parent = Root} = {}
    BY <1>5, <1>6, Apart
  <2> QED
    BY <1>3, <1>5, <1>6, <1>8, <2>1 DEF Tree, Listed, Classed
<1>10. Owned(S, Client) /\ Redirects(S, Client)
  BY <1>5, <1>6 DEF Owned, Redirects
<1>11. Seen(S, None)
  BY <1>2 DEF Seen, FocusShown, PointerShown, KeyboardShown
<1>12. Kept(S, Client)
  <2>1. GrabsKept(S, Client) /\ SelectionsKept(S, Client)
    BY <1>2 DEF GrabsKept, SelectionsKept
  <2>2. SavesKept(S, Client)
    BY <1>2, <1>3 DEF SavesKept
  <2> QED
    BY <2>1, <2>2 DEF Kept
<1>13. Good(S, Client, Client)
  BY <1>7, <1>9, <1>10, <1>11, <1>12 DEF Good
<1> QED
  BY <1>1, <1>2, <1>13 DEF IInv

LEMMA Registered ==
  ASSUME NEW S, NEW K \in SUBSET Client, Good(S, K, K), NEW c
  PROVE  Good(S, K \cup {c}, K \cup {c})
<1>1. Owned(S, K \cup {c}) /\ Redirects(S, K \cup {c})
  BY DEF Good, Owned, Redirects
<1>2. GrabsKept(S, K \cup {c})
  BY DEF Good, Kept, GrabsKept, GrabKept
<1>3. SelectionsKept(S, K \cup {c})
  BY DEF Good, Kept, SelectionsKept
<1>4. SavesKept(S, K \cup {c})
  BY DEF Good, Kept, SavesKept
<1> QED
  BY <1>1, <1>2, <1>3, <1>4 DEF Good, Kept
-----------------------------------------------------------------------------
(* Each request keeps the invariant.                                       *)

LEMMA CreateKeeps ==
  ASSUME IInv, NEW c, NEW w \in Window, NEW p, NEW class \in {"io", "input"},
         NEW o \in BOOLEAN, handle_create_window(c, w, p, class, o)
  PROVE  IInv'
<1>1. PICK S, K : At(S, K)
  BY Held
<1>2. /\ K \in SUBSET Client /\ Good(S, K, K) /\ c \in K
      /\ w \notin DOMAIN S.windows /\ p \in DOMAIN S.windows
      /\ class = "io" => S.windows[p].class = "io"
  BY <1>1 DEF At, handle_create_window
<1>3. PICK T : T = Created(S, c, w, p, class, o)
  OBVIOUS
<1>4. Good(T, K, K)
  <2> DEFINE added == [parent |-> p, children |-> <<>>, owner |-> c, class |-> class,
                       mapped |-> FALSE, override |-> o, redirect |-> None]
             grown == [x \in DOMAIN S.windows \cup {w} |-> IF x = w THEN added ELSE S.windows[x]]
  <2>1. T = [S EXCEPT !.windows = [grown EXCEPT ![p].children = Append(@, w)]]
    BY <1>3 DEF Created
  <2>2. Fresh(S, added, grown, w, p, c, class, o)
    BY DEF Fresh
  <2> HIDE DEF added, grown
  <2>3. Good([S EXCEPT !.windows = [grown EXCEPT ![p].children = Append(@, w)]], K, K)
    BY <1>2, <2>2, NewIs
  <2> QED
    BY <2>1, <2>3
<1>5. Become(T) /\ clients' = K
  BY <1>1, <1>3 DEF At, handle_create_window
<1> QED
  BY <1>2, <1>4, <1>5, Reached

LEMMA SelectRedirectKeeps ==
  ASSUME IInv, NEW c, NEW w, handle_select_redirect(c, w)
  PROVE  IInv'
<1>1. PICK S, K : At(S, K)
  BY Held
<1>2. K \in SUBSET Client /\ Good(S, K, K) /\ c \in K /\ w \in DOMAIN S.windows
  BY <1>1 DEF At, handle_select_redirect
<1>3. PICK T : T = [S EXCEPT !.windows[w].redirect = c]
  OBVIOUS
<1>4. Good(T, K, K)
  BY <1>2, <1>3, RedirectSet
<1>5. Become(T) /\ clients' = K
  BY <1>1, <1>3 DEF At, handle_select_redirect, Become
<1> QED
  BY <1>2, <1>4, <1>5, Reached

LEMMA DestroyKeeps ==
  ASSUME IInv, NEW c, NEW w, handle_destroy_window(c, w) \/ handle_destroy_subwindows(c, w)
  PROVE  IInv'
<1>1. PICK S, K : At(S, K)
  BY Held
<1>2. K \in SUBSET Client /\ Good(S, K, K)
  BY <1>1 DEF At
<1>3. CASE handle_destroy_window(c, w)
  <2>1. w \in DOMAIN S.windows \ {Root}
    BY <1>1, <1>3 DEF At, handle_destroy_window
  <2>2. PICK T : T = destroy_window(S, w)
    OBVIOUS
  <2>3. Good(T, K, K)
    BY <1>2, <2>1, <2>2, DestroyIs
  <2>4. Become(T) /\ clients' = K
    BY <1>1, <1>3, <2>2 DEF At, handle_destroy_window
  <2> QED
    BY <1>2, <2>3, <2>4, Reached
<1>4. CASE handle_destroy_subwindows(c, w)
  <2>1. w \in DOMAIN S.windows
    BY <1>1, <1>4 DEF At, handle_destroy_subwindows
  <2>2. PICK T : T = destroy_subwindows(S, w)
    OBVIOUS
  <2>3. Good(T, K, K)
    BY <1>2, <2>1, <2>2, DestroySubwindowsIs
  <2>4. Become(T) /\ clients' = K
    BY <1>1, <1>4, <2>2 DEF At, handle_destroy_subwindows
  <2> QED
    BY <1>2, <2>3, <2>4, Reached
<1> QED
  BY <1>3, <1>4

LEMMA ReparentKeeps ==
  ASSUME IInv, NEW c, NEW w, NEW parent, handle_reparent_window(c, w, parent)
  PROVE  IInv'
<1>1. PICK S, K : At(S, K)
  BY Held
<1>2. /\ K \in SUBSET Client /\ Good(S, K, K)
      /\ w \in DOMAIN S.windows \ {Root} /\ parent \in DOMAIN S.windows
      /\ ~(S.windows[parent].class = "input" /\ S.windows[w].class = "io")
      /\ w \notin Path(S, parent)
  BY <1>1 DEF At, handle_reparent_window
<1>3. S.windows[w].class = "io" => S.windows[parent].class = "io"
  BY <1>2, TableIs DEF Good, WindowRecord
<1>4. PICK T : T = reparent_window(S, w, parent)
  OBVIOUS
<1>5. Good(T, K, K)
  BY <1>2, <1>3, <1>4, ReparentIs
<1>6. Become(T) /\ clients' = K
  BY <1>1, <1>4 DEF At, handle_reparent_window
<1> QED
  BY <1>2, <1>5, <1>6, Reached

LEMMA MapKeeps ==
  ASSUME IInv, NEW c, NEW w, handle_map_window(c, w) \/ handle_unmap_window(c, w)
  PROVE  IInv'
<1>1. PICK S, K : At(S, K)
  BY Held
<1>2. PICK mapped \in BOOLEAN : /\ w \in DOMAIN windows
                                /\ Become(set_window_mapped(State, w, mapped))
                                /\ UNCHANGED clients
  BY DEF handle_map_window, handle_unmap_window
<1>3. K \in SUBSET Client /\ Good(S, K, K) /\ w \in DOMAIN S.windows
  BY <1>1, <1>2 DEF At
<1>4. PICK T : T = set_window_mapped(S, w, mapped)
  OBVIOUS
<1>5. Good(T, K, K)
  BY <1>3, <1>4, SetMappedIs
<1>6. Become(T) /\ clients' = K
  BY <1>1, <1>2, <1>4 DEF At
<1> QED
  BY <1>3, <1>5, <1>6, Reached

LEMMA MapSubwindowsKeeps ==
  ASSUME IInv, NEW c, NEW w, NEW mapped \in BOOLEAN, handle_map_subwindows(c, w, mapped)
  PROVE  IInv'
<1>1. PICK S, K : At(S, K)
  BY Held
<1>2. K \in SUBSET Client /\ Good(S, K, K) /\ w \in DOMAIN S.windows
  BY <1>1 DEF At, handle_map_subwindows
<1>3. PICK T : T = set_subwindows_mapped(S, w, mapped)
  OBVIOUS
<1>4. Good(T, K, K)
  BY <1>2, <1>3, SetSubwindowsMappedIs
<1>5. Become(T) /\ clients' = K
  BY <1>1, <1>3 DEF At, handle_map_subwindows
<1> QED
  BY <1>2, <1>4, <1>5, Reached
LEMMA ConfigureKeeps ==
  ASSUME IInv, NEW c, NEW w, NEW sibling, NEW above \in BOOLEAN,
         handle_configure_window(c, w, sibling, above)
  PROVE  IInv'
<1>1. PICK S, K : At(S, K)
  BY Held
<1>2. /\ K \in SUBSET Client /\ Good(S, K, K) /\ w \in DOMAIN S.windows \ {Root}
      /\ sibling # None =>
           sibling \in DOMAIN S.windows \ {w} /\ S.windows[sibling].parent = S.windows[w].parent
  BY <1>1 DEF At, handle_configure_window
<1>3. PICK p : p = S.windows[w].parent
  OBVIOUS
<1>4. S \in StateSet /\ p \in DOMAIN S.windows
  BY <1>2, <1>3 DEF Good, Tree, Rooted
<1>5. PICK children : children = S.windows[p].children
  OBVIOUS
<1>6. children \in Seq(Window) /\ Once(children)
      /\ ToSet(children) = {x \in DOMAIN S.windows : S.windows[x].parent = p}
  BY <1>2, <1>4, <1>5, ChildrenAre DEF Good, Tree, Listed
<1>7. w \in ToSet(children) /\ (sibling # None => sibling \in ToSet(children) \ {w})
  BY <1>2, <1>3, <1>6
<1>8. PICK list : list = Restacked(children, w, sibling, above)
  OBVIOUS
<1>9. list \in Seq(Window) /\ Once(list) /\ ToSet(list) = ToSet(children)
  BY <1>6, <1>7, <1>8, RestackedIs
<1>10. PICK T : T = [S EXCEPT !.windows[p].children = list]
  OBVIOUS
<1>11. Good(T, K, K)
  BY <1>2, <1>4, <1>5, <1>9, <1>10, ChildrenSet
<1>12. Become(T) /\ clients' = K
  BY <1>1, <1>3, <1>5, <1>8, <1>10 DEF At, handle_configure_window, Become
<1> QED
  BY <1>2, <1>11, <1>12, Reached

LEMMA CirculateKeeps ==
  ASSUME IInv, NEW c, NEW w, NEW raise \in BOOLEAN, handle_circulate_window(c, w, raise)
  PROVE  IInv'
<1>1. PICK S, K : At(S, K)
  BY Held
<1>2. K \in SUBSET Client /\ Good(S, K, K) /\ w \in DOMAIN S.windows /\ S \in StateSet
  BY <1>1 DEF At, Good, handle_circulate_window
<1>3. PICK children : children = S.windows[w].children
  OBVIOUS
<1>4. children \in Seq(Window) /\ Once(children)
  BY <1>2, <1>3, ChildrenAre DEF Good, Tree, Listed
<1>5. PICK mapped : mapped = {i \in DOMAIN children : S.windows[children[i]].mapped}
  OBVIOUS
<1>6. PICK at : at = CHOOSE i \in mapped : \A j \in mapped : IF raise THEN i <= j ELSE i >= j
  OBVIOUS
<1>7. mapped # {}
  BY <1>1, <1>3, <1>5 DEF At, handle_circulate_window
<1>8. at \in mapped
  <2>1. Len(children) \in Nat /\ mapped \in SUBSET (1..Len(children))
    BY <1>4, <1>5, SequenceIs
  <2>2. /\ \E i \in mapped : \A j \in mapped : i <= j
        /\ \E i \in mapped : \A j \in mapped : i >= j
    BY <1>7, <2>1, LeastAndMost
  <2>3. \E i \in mapped : \A j \in mapped : IF raise THEN i <= j ELSE i >= j
    BY <2>2
  <2> QED
    BY <1>6, <2>3
<1>9. PICK x : x = children[at]
  OBVIOUS
<1>10. x \in ToSet(children)
  BY <1>5, <1>8, <1>9 DEF ToSet
<1>11. PICK list : list = Restacked(children, x, None, raise)
  OBVIOUS
<1>12. list \in Seq(Window) /\ Once(list) /\ ToSet(list) = ToSet(children)
  BY <1>4, <1>10, <1>11, RestackedIs
<1>13. PICK T : T = [S EXCEPT !.windows[w].children = list]
  OBVIOUS
<1>14. Good(T, K, K)
  BY <1>2, <1>3, <1>12, <1>13, ChildrenSet
<1>15. Become(T) /\ clients' = K
  BY <1>1, <1>3, <1>5, <1>6, <1>9, <1>11, <1>13 DEF At, handle_circulate_window, Become
<1> QED
  BY <1>2, <1>14, <1>15, Reached, SMTT(40)

LEMMA FocusKeeps ==
  ASSUME IInv, NEW c, NEW kind \in {"none", "pointer_root", "window"},
         NEW w \in Id \cup {None}, NEW revert \in {"none", "pointer_root", "parent"},
         handle_set_input_focus(c, kind, w, revert)
  PROVE  IInv'
<1>1. PICK S, K : At(S, K)
  BY Held
<1>2. /\ K \in SUBSET Client /\ Good(S, K, K)
      /\ kind = "window" => Viewable(S, w)
  BY <1>1 DEF At, handle_set_input_focus
<1>3. PICK f : f = [kind |-> kind, window |-> w, revert |-> revert]
  OBVIOUS
<1>4. f \in FocusState /\ f.kind = kind /\ f.window = w
  BY <1>3 DEF FocusState
<1>a. f.kind = "window" => Viewable(S, f.window)
  BY <1>2, <1>4
<1>b. Become([State EXCEPT !.focus = f]) /\ UNCHANGED clients
  BY <1>3 DEF handle_set_input_focus
<1>5. PICK T : T = [S EXCEPT !.focus = f]
  OBVIOUS
<1>6. Good(T, K, K)
  BY <1>2, <1>4, <1>a, <1>5, FocusSet
<1>7. Become(T) /\ clients' = K
  BY <1>1, <1>5, <1>b DEF At
<1> QED
  BY <1>2, <1>6, <1>7, Reached
LEMMA GrabPointerKeeps ==
  ASSUME IInv, NEW c, NEW w \in Id, NEW confine \in Id \cup {None},
         handle_grab_pointer(c, w, confine)
  PROVE  IInv'
<1>1. PICK S, K : At(S, K)
  BY Held
<1>2. /\ K \in SUBSET Client /\ Good(S, K, K) /\ c \in K /\ Viewable(S, w)
      /\ confine # None => Viewable(S, confine)
  BY <1>1 DEF At, handle_grab_pointer
<1>3. PICK g : g = [owner |-> c, window |-> w, confine |-> confine, kind |-> "explicit"]
  OBVIOUS
<1>4. g \in ActiveGrab /\ g.owner = c /\ g.window = w /\ g.confine = confine
  BY <1>2, <1>3 DEF ActiveGrab
<1>5. GrabKept(g, DOMAIN S.windows, K) /\ Viewable(S, g.window)
  BY <1>2, <1>4 DEF GrabKept, Viewable
<1>6. g.kind = "explicit" /\ g.confine # None => Viewable(S, g.confine)
  BY <1>2, <1>4
<1>7. PICK T : T = [S EXCEPT !.pointer = g]
  OBVIOUS
<1>8. Good(T, K, K)
  BY <1>2, <1>4, <1>5, <1>6, <1>7, PointerSet
<1>9. Become([State EXCEPT !.pointer = g]) /\ UNCHANGED clients
  BY <1>3 DEF handle_grab_pointer
<1>10. Become(T) /\ clients' = K
  BY <1>1, <1>7, <1>9 DEF At
<1> QED
  BY <1>2, <1>8, <1>10, Reached

LEMMA GrabKeyboardKeeps ==
  ASSUME IInv, NEW c, NEW w \in Id, handle_grab_keyboard(c, w)
  PROVE  IInv'
<1>1. PICK S, K : At(S, K)
  BY Held
<1>2. K \in SUBSET Client /\ Good(S, K, K) /\ c \in K /\ Viewable(S, w)
  BY <1>1 DEF At, handle_grab_keyboard
<1>3. PICK g : g = [owner |-> c, window |-> w, confine |-> None, kind |-> "explicit"]
  OBVIOUS
<1>4. g \in ActiveGrab /\ g.owner = c /\ g.window = w /\ g.confine = None
  BY <1>2, <1>3 DEF ActiveGrab
<1>5. GrabKept(g, DOMAIN S.windows, K) /\ Viewable(S, g.window)
  BY <1>2, <1>4 DEF GrabKept, Viewable
<1>6. PICK T : T = [S EXCEPT !.keyboard = g]
  OBVIOUS
<1>7. Good(T, K, K)
  BY <1>2, <1>4, <1>5, <1>6, KeyboardSet
<1>8. Become([State EXCEPT !.keyboard = g]) /\ UNCHANGED clients
  BY <1>3 DEF handle_grab_keyboard
<1>9. Become(T) /\ clients' = K
  BY <1>1, <1>6, <1>8 DEF At
<1> QED
  BY <1>2, <1>7, <1>9, Reached

LEMMA UngrabKeeps ==
  ASSUME IInv, NEW c, handle_ungrab(c) \/ Release
  PROVE  IInv'
<1>1. PICK S, K : At(S, K)
  BY Held
<1>2. K \in SUBSET Client /\ Good(S, K, K)
  BY <1>1 DEF At
<1>3. /\ \/ Become([State EXCEPT !.pointer = None])
         \/ Become([State EXCEPT !.keyboard = None])
      /\ UNCHANGED clients
  BY DEF handle_ungrab, Release
<1>4. CASE Become([State EXCEPT !.pointer = None])
  <2>1. PICK T : T = [S EXCEPT !.pointer = None]
    OBVIOUS
  <2>2. Good(T, K, K)
    BY <1>2, <2>1, PointerSet
  <2>3. Become(T) /\ clients' = K
    BY <1>1, <1>3, <1>4, <2>1 DEF At
  <2> QED
    BY <1>2, <2>2, <2>3, Reached
<1>5. CASE Become([State EXCEPT !.keyboard = None])
  <2>1. PICK T : T = [S EXCEPT !.keyboard = None]
    OBVIOUS
  <2>2. Good(T, K, K)
    BY <1>2, <2>1, KeyboardSet
  <2>3. Become(T) /\ clients' = K
    BY <1>1, <1>3, <1>5, <2>1 DEF At
  <2> QED
    BY <1>2, <2>2, <2>3, Reached
<1> QED
  BY <1>3, <1>4, <1>5

LEMMA PassiveKeeps ==
  ASSUME IInv, NEW c, NEW g \in PassiveGrab,
         handle_grab_button_or_key(c, g) \/ handle_ungrab_button_or_key(c, g)
  PROVE  IInv'
<1>1. PICK S, K : At(S, K)
  BY Held
<1>2. K \in SUBSET Client /\ Good(S, K, K) /\ S \in StateSet
  BY <1>1 DEF At, Good
<1>3. S.passive \in SUBSET PassiveGrab /\ \A h \in S.passive : GrabKept(h, DOMAIN S.windows, K)
  BY <1>2 DEF StateSet, Good, Kept, GrabsKept
<1>4. ASSUME NEW grabs, grabs \subseteq S.passive \cup {g},
             g \in grabs => GrabKept(g, DOMAIN S.windows, K),
             Become([State EXCEPT !.passive = grabs]), UNCHANGED clients
      PROVE  IInv'
  <2>1. PICK T : T = [S EXCEPT !.passive = grabs]
    OBVIOUS
  <2>2. grabs \in SUBSET PassiveGrab /\ \A h \in grabs : GrabKept(h, DOMAIN S.windows, K)
    BY <1>3, <1>4
  <2>3. Good(T, K, K)
    BY <1>2, <2>1, <2>2, PassiveSet
  <2>4. Become(T) /\ clients' = K
    BY <1>1, <1>4, <2>1 DEF At
  <2> QED
    BY <1>2, <2>3, <2>4, Reached
<1>5. CASE handle_grab_button_or_key(c, g)
  <2>1. PICK grabs : grabs = {h \in S.passive : ~(h.kind = g.kind /\ h.window = g.window)} \cup {g}
    OBVIOUS
  <2>2. GrabKept(g, DOMAIN S.windows, K)
    BY <1>1, <1>5 DEF At, GrabKept, handle_grab_button_or_key
  <2>3. Become([State EXCEPT !.passive = grabs]) /\ UNCHANGED clients
    BY <1>1, <1>5, <2>1 DEF At, handle_grab_button_or_key
  <2> QED
    BY <1>4, <2>1, <2>2, <2>3
<1>6. CASE handle_ungrab_button_or_key(c, g)
  <2>1. PICK grabs : grabs = S.passive \ {g}
    OBVIOUS
  <2>2. Become([State EXCEPT !.passive = grabs]) /\ UNCHANGED clients
    BY <1>1, <1>6, <2>1 DEF At, handle_ungrab_button_or_key
  <2> QED
    BY <1>4, <2>1, <2>2
<1> QED
  BY <1>5, <1>6
LEMMA SelectionKeeps ==
  ASSUME IInv, NEW c, NEW s \in Selection, NEW w, handle_set_selection_owner(c, s, w)
  PROVE  IInv'
<1>1. PICK S, K : At(S, K)
  BY Held
<1>2. K \in SUBSET Client /\ Good(S, K, K) /\ c \in K /\ w \in DOMAIN S.windows \cup {None}
  BY <1>1 DEF At, handle_set_selection_owner
<1>3. PICK T : T = [S EXCEPT !.selections[s] =
                      [window |-> w, client |-> IF w = None THEN None ELSE c]]
  OBVIOUS
<1>4. Good(T, K, K)
  BY <1>2, <1>3, SelectionSet
<1>5. Become(T) /\ clients' = K
  BY <1>1, <1>3 DEF At, handle_set_selection_owner
<1> QED
  BY <1>2, <1>4, <1>5, Reached

LEMMA SaveSetKeeps ==
  ASSUME IInv, NEW c \in Client, NEW w, NEW kind \in SaveKinds,
         handle_change_save_set(c, w, kind)
  PROVE  IInv'
<1>1. PICK S, K : At(S, K)
  BY Held
<1>2. /\ K \in SUBSET Client /\ Good(S, K, K) /\ S \in StateSet /\ c \in K
      /\ w \in DOMAIN S.windows \ {Root} /\ S.windows[w].owner # c
      /\ ~\E i \in DOMAIN S.saves[c] : S.saves[c][i].window = w
  BY <1>1 DEF At, Good, handle_change_save_set
<1>3. PICK entries : entries = S.saves[c]
  OBVIOUS
<1>4. /\ entries \in Seq(SaveSetEntry)
      /\ \A i \in 1..Len(entries) : /\ entries[i].window \in DOMAIN S.windows
                                    /\ S.windows[entries[i].window].owner # c
      /\ \A i, j \in 1..Len(entries) : entries[i].window = entries[j].window => i = j
  BY <1>2, <1>3 DEF StateSet, Good, Kept, SavesKept
<1>5. \A i \in 1..Len(entries) : entries[i].window # w
  BY <1>2, <1>3, <1>4, SequenceIs
<1>6. PICK e : e = [window |-> w, root |-> kind[1], map |-> kind[2]]
  OBVIOUS
<1>7. e \in SaveSetEntry /\ e.window = w
  <2>1. w \in Window
    BY <1>2, WindowIs
  <2>2. kind[1] \in BOOLEAN /\ kind[2] \in BOOLEAN
    BY TreeAssumption
  <2> QED
    BY <1>6, <2>1, <2>2 DEF SaveSetEntry
<1>8. PICK list : list = Append(entries, e)
  OBVIOUS
<1>9. /\ list \in Seq(SaveSetEntry) /\ Len(list) = Len(entries) + 1 /\ Len(entries) \in Nat
      /\ \A i \in 1..Len(entries) : list[i] = entries[i]
      /\ list[Len(entries) + 1] = e
  BY <1>4, <1>7, <1>8
<1>10. ASSUME NEW i \in 1..Len(list)
       PROVE  list[i].window \in DOMAIN S.windows /\ S.windows[list[i].window].owner # c
  <2>1. i \in 1..Len(entries) \/ i = Len(entries) + 1
    BY <1>9
  <2> QED
    BY <1>2, <1>4, <1>7, <1>9, <2>1
<1>11. ASSUME NEW i \in 1..Len(list), NEW j \in 1..Len(list), list[i].window = list[j].window
       PROVE  i = j
  <2>1. /\ i \in 1..Len(entries) \/ i = Len(entries) + 1
        /\ j \in 1..Len(entries) \/ j = Len(entries) + 1
    BY <1>9
  <2> QED
    BY <1>4, <1>5, <1>7, <1>9, <1>11, <2>1
<1>12. PICK T : T = [S EXCEPT !.saves[c] = list]
  OBVIOUS
<1>13. Good(T, K, K)
  BY <1>2, <1>9, <1>10, <1>11, <1>12, SavesSet
<1>14. Become(T) /\ clients' = K
  <2>1. Become([State EXCEPT !.saves[c] =
                  Append(@, [window |-> w, root |-> kind[1], map |-> kind[2]])])
        /\ UNCHANGED clients
    BY DEF handle_change_save_set
  <2>2. Become([S EXCEPT !.saves[c] = Append(@, e)])
    BY <1>1, <1>6, <2>1 DEF At
  <2> QED
    BY <1>1, <1>3, <1>8, <1>12, <2>1, <2>2 DEF At
<1> QED
  BY <1>2, <1>13, <1>14, Reached

LEMMA DeleteFromSaveSetKeeps ==
  ASSUME IInv, NEW c \in Client, NEW w, handle_delete_from_save_set(c, w)
  PROVE  IInv'
<1>1. PICK S, K : At(S, K)
  BY Held
<1>2. K \in SUBSET Client /\ Good(S, K, K) /\ S \in StateSet /\ c \in K
  BY <1>1 DEF At, Good, handle_delete_from_save_set
<1>3. PICK entries : entries = S.saves[c]
  OBVIOUS
<1>4. /\ entries \in Seq(SaveSetEntry)
      /\ \A i \in 1..Len(entries) : /\ entries[i].window \in DOMAIN S.windows
                                    /\ S.windows[entries[i].window].owner # c
      /\ \A i, j \in 1..Len(entries) : entries[i].window = entries[j].window => i = j
  BY <1>2, <1>3 DEF StateSet, Good, Kept, SavesKept
<1>5. PICK gone, list : gone = {w} /\ list = EntriesWithout(entries, gone)
  OBVIOUS
<1>6. /\ list \in Seq(SaveSetEntry)
      /\ \A j \in 1..Len(list) : \E i \in 1..Len(entries) : list[j] = entries[i]
      /\ \A i, j \in 1..Len(list) : list[i].window = list[j].window => i = j
  <2>1. entries \in Seq(SaveSetEntry)
    BY <1>4
  <2> DEFINE r == EntriesWithout(entries, gone)
  <2> HIDE DEF r
  <2>2. /\ r \in Seq(SaveSetEntry)
        /\ \A j \in 1..Len(r) : /\ r[j].window \notin gone
                                /\ \E i \in 1..Len(entries) : r[j] = entries[i]
        /\ (\A i, j \in 1..Len(entries) : entries[i].window = entries[j].window => i = j)
             => \A i, j \in 1..Len(r) : r[i].window = r[j].window => i = j
    BY <2>1, EntriesAre DEF r
  <2>3. list = r
    BY <1>5 DEF r
  <2> QED
    BY <1>4, <2>2, <2>3
<1>7. \A i \in 1..Len(list) : /\ list[i].window \in DOMAIN S.windows
                              /\ S.windows[list[i].window].owner # c
  BY <1>4, <1>6
<1>8. PICK T : T = [S EXCEPT !.saves[c] = list]
  OBVIOUS
<1>9. Good(T, K, K)
  BY <1>2, <1>6, <1>7, <1>8, SavesSet
<1>10. Become(T) /\ clients' = K
  <2>1. list = EntriesWithout(entries, {w})
    BY <1>5
  <2> QED
    BY <1>1, <1>3, <1>8, <2>1 DEF At, handle_delete_from_save_set
<1> QED
  BY <1>2, <1>9, <1>10, Reached

(* What is viewable is in windows that are. *)
LEMMA ViewableUp ==
  ASSUME NEW S, Rooted(S), NEW w, Viewable(S, w), NEW x \in Path(S, w)
  PROVE  Viewable(S, x)
<1>1. w \in DOMAIN S.windows
  BY DEF Viewable
<1>2. x \in DOMAIN S.windows /\ Path(S, x) \subseteq Path(S, w)
  BY <1>1, PathOfPart
<1> QED
  BY <1>2 DEF Viewable

LEMMA PressKeyKeeps ==
  ASSUME IInv, NEW w, PressKey(w)
  PROVE  IInv'
<1>1. PICK S, K : At(S, K)
  BY Held
<1>2. /\ K \in SUBSET Client /\ Good(S, K, K) /\ S \in StateSet /\ Rooted(S) /\ Viewable(S, w)
      /\ \A h \in S.passive : h \in PassiveGrab /\ GrabKept(h, DOMAIN S.windows, K)
  BY <1>1 DEF At, PressKey, Good, Tree, StateSet, Kept, GrabsKept
<1>3. PICK h \in S.passive :
        /\ KeySource(S, w) # None
        /\ h.window \in Path(S, KeySource(S, w))
        /\ Become([State EXCEPT !.keyboard = [owner |-> h.owner, window |-> h.window,
                                              confine |-> None, kind |-> "passive"]])
        /\ UNCHANGED clients
  BY <1>1 DEF At, PressKey
<1>4. Viewable(S, KeySource(S, w))
  <2>1. S.focus.kind \in {"none", "pointer_root", "window"}
    BY <1>2, TableIs DEF FocusState
  <2>2. S.focus.kind = "window" => Viewable(S, S.focus.window)
    BY <1>2, SeenViewable
  <2> QED
    BY <1>2, <1>3, <2>1, <2>2 DEF KeySource
<1>5. Viewable(S, h.window)
  BY <1>2, <1>3, <1>4, ViewableUp
<1>6. PICK g : g = [owner |-> h.owner, window |-> h.window, confine |-> None, kind |-> "passive"]
  OBVIOUS
<1>7. /\ g \in ActiveGrab /\ g.owner = h.owner /\ g.window = h.window /\ g.confine = None
  BY <1>2, <1>6 DEF ActiveGrab, PassiveGrab
<1>8. GrabKept(g, DOMAIN S.windows, K) /\ Viewable(S, g.window)
  BY <1>2, <1>5, <1>7 DEF GrabKept
<1>9. PICK T : T = [S EXCEPT !.keyboard = g]
  OBVIOUS
<1>10. Good(T, K, K)
  BY <1>2, <1>7, <1>8, <1>9, KeyboardSet
<1>11. Become([State EXCEPT !.keyboard = g]) /\ UNCHANGED clients
  BY <1>3, <1>6
<1>12. Become(T) /\ clients' = K
  BY <1>1, <1>9, <1>11 DEF At
<1> QED
  BY <1>2, <1>10, <1>12, Reached
LEMMA PressButtonKeeps ==
  ASSUME IInv, NEW w, PressButton(w)
  PROVE  IInv'
<1>1. PICK S, K : At(S, K)
  BY Held
<1>2. /\ K \in SUBSET Client /\ Good(S, K, K) /\ S \in StateSet /\ Rooted(S) /\ Viewable(S, w)
      /\ \A h \in S.passive : h \in PassiveGrab /\ GrabKept(h, DOMAIN S.windows, K)
  BY <1>1 DEF At, PressButton, Good, Tree, StateSet, Kept, GrabsKept
<1>3. \A x \in Path(S, w) : Viewable(S, x) /\ x \in DOMAIN S.windows /\ x \in Id
  BY <1>2, ViewableUp, TableIs DEF Viewable
<1>4. PICK matching : matching = {h \in S.passive : h.kind = "button" /\ h.window \in Path(S, w)}
  OBVIOUS
<1>5. PICK grabs : grabs = ButtonGrabs(S, K, w)
  OBVIOUS
<1>6. PICK g \in grabs : Become([State EXCEPT !.pointer = g]) /\ UNCHANGED clients
  BY <1>1, <1>5 DEF At, PressButton
<1>7. /\ g \in ActiveGrab /\ g.kind # "explicit"
      /\ GrabKept(g, DOMAIN S.windows, K) /\ Viewable(S, g.window)
  <2>1. CASE matching # {}
    <3>1. PICK h \in matching : g = [h EXCEPT !.kind = "passive"]
      BY <1>4, <1>5, <1>6, <2>1 DEF ButtonGrabs
    <3>2. /\ h \in PassiveGrab /\ GrabKept(h, DOMAIN S.windows, K) /\ h.window \in Path(S, w)
          /\ Viewable(S, h.window)
      BY <1>2, <1>3, <1>4
    <3>3. g.owner = h.owner /\ g.window = h.window /\ g.confine = h.confine /\ g.kind = "passive"
      BY <3>1, <3>2 DEF PassiveGrab
    <3>4. g \in ActiveGrab
      BY <3>1, <3>2 DEF ActiveGrab, PassiveGrab
    <3> QED
      BY <3>2, <3>3, <3>4 DEF GrabKept
  <2>2. CASE matching = {}
    <3>1. g \in [owner : K, window : Path(S, w), confine : {None}, kind : {"automatic"}]
      BY <1>4, <1>5, <1>6, <2>2 DEF ButtonGrabs
    <3>2. g.owner \in K /\ g.window \in Path(S, w) /\ g.confine = None /\ g.kind = "automatic"
      BY <3>1
    <3>3. g \in ActiveGrab
      BY <1>2, <1>3, <3>1 DEF ActiveGrab
    <3> QED
      BY <1>3, <3>2, <3>3 DEF GrabKept
  <2> QED
    BY <2>1, <2>2
<1>8. PICK T : T = [S EXCEPT !.pointer = g]
  OBVIOUS
<1>9. Good(T, K, K)
  BY <1>2, <1>7, <1>8, PointerSet
<1>10. Become(T) /\ clients' = K
  BY <1>1, <1>6, <1>8 DEF At
<1> QED
  BY <1>2, <1>9, <1>10, Reached

LEMMA DepartureKeeps ==
  ASSUME IInv, NEW c \in Client, disconnect_client(c)
  PROVE  /\ IInv'
         /\ clients' = clients \ {c}
         /\ \A i \in DOMAIN saveSets[c] :
              saveSets[c][i].root \/ OnlyWithin(c, saveSets[c][i].window) =>
                /\ saveSets[c][i].window \in DOMAIN windows'
                /\ saveSets[c][i].map => windows'[saveSets[c][i].window].mapped
<1>1. PICK S, K : At(S, K)
  BY Held
<1>2. K \in SUBSET Client /\ Good(S, K, K) /\ S \in StateSet /\ c \in K
  BY <1>1 DEF At, Good, disconnect_client
<1>3. PICK owned : owned = OwnedBy(S, c)
  OBVIOUS
<1>4. PICK fits, fit, order :
        /\ order \in SetToSeqs(owned)
        /\ Become(TearDown(ReleasedBy(apply_save_set(State, c, fits), c), order, fit))
  BY <1>1, <1>3 DEF At, disconnect_client
<1>5. PICK T : T = TearDown(ReleasedBy(apply_save_set(S, c, fits), c), order, fit)
  OBVIOUS
<1>6. /\ Good(T, K \ {c}, K \ {c})
      /\ \A i \in 1..Len(S.saves[c]) :
           LET entry == S.saves[c][i]
           IN entry.root \/ Onward(S, c, entry.window) =>
                /\ entry.window \in DOMAIN T.windows
                /\ entry.map => T.windows[entry.window].mapped
  BY <1>2, <1>3, <1>4, <1>5, DepartureIs
<1>7. Become(T) /\ clients' = K \ {c} /\ K \ {c} \in SUBSET Client
  BY <1>1, <1>2, <1>4, <1>5 DEF At, disconnect_client
<1>8. IInv'
  BY <1>6, <1>7, Reached
<1>9. DOMAIN S.saves[c] = 1..Len(S.saves[c])
  <2>1. S.saves[c] \in Seq(SaveSetEntry)
    BY <1>2 DEF StateSet
  <2> QED
    BY <2>1, SequenceIs
<1>10. windows' = T.windows
  BY <1>7 DEF Become
<1>11. saveSets[c] = S.saves[c] /\ \A w : OnlyWithin(c, w) <=> Onward(S, c, w)
  BY <1>1 DEF At, OnlyWithin, Onward
<1>12. ASSUME NEW i \in DOMAIN saveSets[c],
              saveSets[c][i].root \/ OnlyWithin(c, saveSets[c][i].window)
       PROVE  /\ saveSets[c][i].window \in DOMAIN windows'
              /\ saveSets[c][i].map => windows'[saveSets[c][i].window].mapped
  BY <1>6, <1>9, <1>10, <1>11, <1>12
<1> QED
  BY <1>1, <1>7, <1>8, <1>12 DEF At

LEMMA RegisterKeeps ==
  ASSUME IInv, NEW c \in Client, register_client(c)
  PROVE  IInv'
<1>1. PICK S, K : At(S, K)
  BY Held
<1>2. K \in SUBSET Client /\ Good(S, K, K) /\ K \cup {c} \in SUBSET Client
  BY <1>1 DEF At
<1>3. Good(S, K \cup {c}, K \cup {c})
  BY <1>2, Registered
<1>4. Become(S) /\ clients' = K \cup {c}
  BY <1>1 DEF At, register_client
<1> QED
  BY <1>2, <1>3, <1>4, Reached
-----------------------------------------------------------------------------
(* Every step keeps the invariant.                                         *)

LEMMA TreeRequestKeeps ==
  ASSUME IInv, NEW c \in Client, TreeRequest(c)
  PROVE  IInv'
<1>1. ASSUME NEW w \in Window, NEW p \in Id, NEW class \in {"io", "input"}, NEW o \in BOOLEAN,
             handle_create_window(c, w, p, class, o)
      PROVE  IInv'
  BY <1>1, CreateKeeps
<1>2. ASSUME NEW w \in Window, handle_destroy_window(c, w) \/ handle_map_window(c, w)
                               \/ handle_unmap_window(c, w)
      PROVE  IInv'
  BY <1>2, DestroyKeeps, MapKeeps
<1>3. ASSUME NEW w \in Id, handle_destroy_subwindows(c, w) \/ handle_select_redirect(c, w)
      PROVE  IInv'
  BY <1>3, DestroyKeeps, SelectRedirectKeeps
<1>4. ASSUME NEW w \in Window, NEW p \in Id, handle_reparent_window(c, w, p)
      PROVE  IInv'
  BY <1>4, ReparentKeeps
<1>5. ASSUME NEW w \in Id, NEW b \in BOOLEAN,
             handle_map_subwindows(c, w, b) \/ handle_circulate_window(c, w, b)
      PROVE  IInv'
  BY <1>5, MapSubwindowsKeeps, CirculateKeeps
<1>6. ASSUME NEW w \in Window, NEW s \in Window \cup {None}, NEW b \in BOOLEAN,
             handle_configure_window(c, w, s, b)
      PROVE  IInv'
  BY <1>6, ConfigureKeeps
<1> QED
  BY <1>1, <1>2, <1>3, <1>4, <1>5, <1>6 DEF TreeRequest

LEMMA InputRequestKeeps ==
  ASSUME IInv, NEW c \in Client, InputRequest(c)
  PROVE  IInv'
<1>1. ASSUME NEW kind \in {"none", "pointer_root", "window"}, NEW w \in Id \cup {None},
             NEW revert \in {"none", "pointer_root", "parent"},
             handle_set_input_focus(c, kind, w, revert)
      PROVE  IInv'
  BY <1>1, FocusKeeps
<1>2. ASSUME NEW w \in Id, NEW x \in Id \cup {None}, handle_grab_pointer(c, w, x)
      PROVE  IInv'
  BY <1>2, GrabPointerKeeps
<1>3. ASSUME NEW w \in Id, handle_grab_keyboard(c, w)
      PROVE  IInv'
  BY <1>3, GrabKeyboardKeeps
<1>4. CASE handle_ungrab(c)
  BY <1>4, UngrabKeeps
<1>5. ASSUME NEW g \in PassiveGrab,
             handle_grab_button_or_key(c, g) \/ handle_ungrab_button_or_key(c, g)
      PROVE  IInv'
  BY <1>5, PassiveKeeps
<1> QED
  BY <1>1, <1>2, <1>3, <1>4, <1>5 DEF InputRequest

LEMMA OtherRequestKeeps ==
  ASSUME IInv, NEW c \in Client, OtherRequest(c)
  PROVE  IInv'
<1>1. ASSUME NEW s \in Selection, NEW w \in Id \cup {None}, handle_set_selection_owner(c, s, w)
      PROVE  IInv'
  BY <1>1, SelectionKeeps
<1>2. ASSUME NEW w \in Window, NEW kind \in SaveKinds, handle_change_save_set(c, w, kind)
      PROVE  IInv'
  BY <1>2, SaveSetKeeps
<1>3. ASSUME NEW w \in Window, handle_delete_from_save_set(c, w)
      PROVE  IInv'
  BY <1>3, DeleteFromSaveSetKeeps
<1> QED
  BY <1>1, <1>2, <1>3 DEF OtherRequest

LEMMA NothingKeeps ==
  ASSUME IInv, UNCHANGED vars
  PROVE  IInv'
<1>1. PICK S, K : At(S, K)
  BY Held
<1>2. K \in SUBSET Client /\ Good(S, K, K) /\ Become(S) /\ clients' = K
  BY <1>1 DEF At, vars, Become
<1> QED
  BY <1>2, Reached

LEMMA NextKeeps ==
  ASSUME IInv, [Next]_vars
  PROVE  IInv'
<1>1. ASSUME NEW c \in Client, TreeRequest(c) \/ InputRequest(c) \/ OtherRequest(c)
                               \/ disconnect_client(c) \/ register_client(c)
      PROVE  IInv'
  BY <1>1, TreeRequestKeeps, InputRequestKeeps, OtherRequestKeeps, DepartureKeeps, RegisterKeeps
<1>2. ASSUME NEW w \in Id, PressKey(w) \/ PressButton(w)
      PROVE  IInv'
  BY <1>2, PressKeyKeeps, PressButtonKeeps
<1>3. CASE Release
  BY <1>3, UngrabKeeps
<1>4. CASE UNCHANGED vars
  BY <1>4, NothingKeeps
<1> QED
  BY <1>1, <1>2, <1>3, <1>4 DEF Next

(* The windows form a tree whose parts list each other, focus and grabs are   *)
(* where they can be seen, and whatever names a window or a client names one  *)
(* there is, after any requests, input and departures.                        *)
THEOREM Inductive == Spec => []IInv
BY AtFirst, NextKeeps, PTL DEF Spec

(* Each window is once in the list of its parent and below the root, none    *)
(* that draws is in one that only takes input, and none is without its owner, *)
(* however windows are created, moved, restacked and destroyed, and clients   *)
(* torn down.                                                                 *)
THEOREM WindowsFormATree == Spec => []IsTree
<1>1. ASSUME IInv PROVE IsTree
  <2>1. PICK S, K : At(S, K)
    BY <1>1, Held
  <2>2. K \in SUBSET Client /\ Good(S, K, K) /\ S \in StateSet /\ Tree(S) /\ Rooted(S)
    BY <2>1 DEF At, Good, Tree
  <2>3. TypeOK
    <3>1. /\ DOMAIN windows \subseteq Id /\ Root \in DOMAIN windows
          /\ \A w \in DOMAIN windows : windows[w] \in WindowRecord
      BY <2>1, <2>2, TableIs DEF At, Rooted
    <3>2. /\ focus \in FocusState /\ pointerGrab \in ActiveGrab \cup {None}
          /\ keyboardGrab \in ActiveGrab \cup {None} /\ passive \subseteq PassiveGrab
          /\ selections \in [Selection -> [window : Id \cup {None}, client : Client \cup {None}]]
          /\ saveSets \in [Client -> Seq(SaveSetEntry)] /\ clients \subseteq Client
      BY <2>1, <2>2 DEF At, StateSet
    <3> QED
      BY <3>1, <3>2 DEF TypeOK, FocusState
  <2>4. ASSUME NEW p \in DOMAIN windows
        PROVE  /\ IsInjective(windows[p].children)
               /\ ToSet(windows[p].children) = {w \in DOMAIN windows : windows[w].parent = p}
    <3>1. /\ Once(S.windows[p].children) /\ S.windows[p].children \in Seq(Window)
          /\ ToSet(S.windows[p].children) = {w \in DOMAIN S.windows : S.windows[w].parent = p}
      BY <2>1, <2>2, ChildrenAre DEF At, Tree, Listed
    <3>2. IsInjective(S.windows[p].children)
      BY <3>1, SequenceIs
    <3> QED
      BY <2>1, <3>1, <3>2 DEF At
  <2>5. \A w \in DOMAIN windows : Root \in Path(State, w)
    BY <2>1, <2>2 DEF At, Rooted
  <2>6. \A w \in DOMAIN windows \ {Root} :
          /\ windows[w].parent \in DOMAIN windows
          /\ windows[w].class = "io" => windows[windows[w].parent].class = "io"
          /\ windows[w].owner \in clients
    BY <2>1, <2>2 DEF At, Good, Tree, Rooted, Classed, Owned
  <2> QED
    BY <2>3, <2>4, <2>5, <2>6 DEF IsTree
<1> QED BY <1>1, Inductive, PTL

(* The focus is on a window that can be seen, or on none, whatever is         *)
(* unmapped, reparented, destroyed or torn down under it.                     *)
THEOREM FocusStaysViewable == Spec => []FocusViewable
<1>1. ASSUME IInv PROVE FocusViewable
  <2>1. PICK S, K : At(S, K)
    BY <1>1, Held
  <2> QED
    BY <2>1, SeenViewable DEF At, FocusViewable
<1> QED BY <1>1, Inductive, PTL

(* A grab of the pointer or the keyboard ends when its window can no longer   *)
(* be seen, and an explicit one with the sight of its confining window.       *)
THEOREM GrabsStayViewable == Spec => []GrabsViewable
<1>1. ASSUME IInv PROVE GrabsViewable
  <2>1. PICK S, K : At(S, K)
    BY <1>1, Held
  <2> QED
    BY <2>1, SeenViewable DEF At, GrabsViewable
<1> QED BY <1>1, Inductive, PTL

(* Grabs, selections, save sets and redirections refer to windows there are   *)
(* and clients that have not left: no later window or client inherits them.   *)
THEOREM ReferencesAreKept == Spec => []NothingDangles
<1>1. ASSUME IInv PROVE NothingDangles
  <2>1. PICK S, K : At(S, K)
    BY <1>1, Held
  <2>2. Good(S, K, K) /\ S \in StateSet
    BY <2>1 DEF At, Good
  <2>3. \A g \in passive : {g.window, g.confine} \subseteq DOMAIN windows \cup {None}
                           /\ g.owner \in clients
    BY <2>1, <2>2 DEF At, Good, Kept, GrabsKept, GrabKept
  <2>4. \A g \in {pointerGrab, keyboardGrab} \ {None} :
          {g.window, g.confine} \subseteq DOMAIN windows \cup {None} /\ g.owner \in clients
    BY <2>1, <2>2 DEF At, Good, Kept, GrabsKept, GrabKept
  <2>5. \A s \in Selection : \/ selections[s] = [window |-> None, client |-> None]
                             \/ /\ selections[s].window \in DOMAIN windows
                                /\ selections[s].client \in clients
    BY <2>1, <2>2 DEF At, Good, Kept, SelectionsKept
  <2>6. ASSUME NEW c \in Client, NEW i \in DOMAIN saveSets[c]
        PROVE  c \in clients /\ saveSets[c][i].window \in DOMAIN windows
    <3>1. S.saves[c] \in Seq(SaveSetEntry)
      BY <2>2 DEF StateSet
    <3>2. DOMAIN S.saves[c] = 1..Len(S.saves[c])
      BY <3>1, SequenceIs
    <3> QED
      BY <2>1, <2>2, <3>2 DEF At, Good, Kept, SavesKept
  <2>7. \A w \in DOMAIN windows : windows[w].redirect \in clients \cup {None}
    BY <2>1, <2>2 DEF At, Good, Redirects
  <2> QED
    BY <2>3, <2>4, <2>5, <2>6, <2>7 DEF NothingDangles
<1> QED BY <1>1, Inductive, PTL
-----------------------------------------------------------------------------
(* Departures.                                                             *)

(* What the step of a departure does for the save set of those who leave. *)
Rescue ==
  \A c \in clients \ clients' :
    \A i \in DOMAIN saveSets[c] :
      LET entry == saveSets[c][i]
      IN (entry.root \/ OnlyWithin(c, entry.window)) =>
           /\ entry.window \in DOMAIN windows'
           /\ entry.map => windows'[entry.window].mapped

LEMMA NextRescues ==
  ASSUME IInv, Next
  PROVE  Rescue
<1>1. ASSUME NEW c \in Client, TreeRequest(c) \/ InputRequest(c) \/ OtherRequest(c)
      PROVE  clients' = clients
  <2>1. TreeRequest(c) => clients' = clients
    BY DEF TreeRequest, handle_create_window, handle_destroy_window, handle_map_window,
           handle_unmap_window, handle_destroy_subwindows, handle_select_redirect,
           handle_reparent_window, handle_map_subwindows, handle_circulate_window,
           handle_configure_window
  <2>2. InputRequest(c) => clients' = clients
    BY DEF InputRequest, handle_set_input_focus, handle_grab_pointer, handle_grab_keyboard,
           handle_ungrab, handle_grab_button_or_key, handle_ungrab_button_or_key
  <2>3. OtherRequest(c) => clients' = clients
    BY DEF OtherRequest, handle_set_selection_owner, handle_change_save_set,
           handle_delete_from_save_set
  <2> QED
    BY <1>1, <2>1, <2>2, <2>3, SMTT(40)
<1>2. ASSUME (\E w \in Id : PressKey(w) \/ PressButton(w)) \/ Release PROVE clients' = clients
  BY <1>2 DEF PressKey, PressButton, Release
<1>3. ASSUME clients \subseteq clients' PROVE Rescue
  BY <1>3 DEF Rescue
<1>4. ASSUME NEW c \in Client, register_client(c) PROVE Rescue
  BY <1>3, <1>4 DEF register_client
<1>5. ASSUME NEW c \in Client, disconnect_client(c) PROVE Rescue
  <2>1. clients \ clients' \subseteq {c}
    BY <1>5, DepartureKeeps
  <2>2. \A i \in DOMAIN saveSets[c] :
          saveSets[c][i].root \/ OnlyWithin(c, saveSets[c][i].window) =>
            /\ saveSets[c][i].window \in DOMAIN windows'
            /\ saveSets[c][i].map => windows'[saveSets[c][i].window].mapped
    BY <1>5, DepartureKeeps
  <2> QED
    BY <2>1, <2>2 DEF Rescue
<1> QED
  BY <1>1, <1>2, <1>3, <1>4, <1>5 DEF Next

(* A window in the save set of a client that leaves survives it, mapped if    *)
(* the entry asks for it, whether or not its events fit, unless a window of a *)
(* third client is around it within those of the client.                      *)
THEOREM SaveSetsRescue == Spec => SaveSetSurvives
<1>1. IInv /\ [Next]_vars => [Rescue]_vars
  BY NextRescues
<1> QED BY <1>1, Inductive, PTL DEF Spec, SaveSetSurvives, Rescue
=============================================================================
