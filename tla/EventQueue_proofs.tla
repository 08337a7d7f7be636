-------------------------- MODULE EventQueue_proofs --------------------------
(***************************************************************************)
(* Proof that the counter kept beside the queues is exact and within the   *)
(* limits at every push, that no push is refused after the check up front, *)
(* and that the pushes, with their failures, implement the queues that     *)
(* take a plan whole or not at all.                                        *)
(***************************************************************************)
EXTENDS EventQueue, FiniteSetTheorems, SequenceTheorems, WellFoundedInduction, TLAPS

(***************************************************************************)
(* How the number of queued events changes: with one queue, with a plan    *)
(* that is delivered, and within the limits when the plan fits.            *)
(***************************************************************************)

(* Lists of events of some kind for each client, and the lengths of some   *)
(* beside those of others.                                                 *)
Lists(E) == [Client -> Seq(E)]
LengthsAdd(first, second, both) ==
  \A c \in Client : Len(both[c]) = Len(first[c]) + Len(second[c])
NoLonger(smaller, larger) == \A c \in Client : Len(smaller[c]) <= Len(larger[c])

(***************************************************************************)
(* Lists: a function on 1..n is one, and a list that begins with another   *)
(* one is that one and the rest.                                           *)
(***************************************************************************)
LEMMA FunctionIsList ==
  ASSUME NEW S, NEW n \in Nat, NEW f \in [1..n -> S]
  PROVE  f \in Seq(S) /\ Len(f) = n
<1>1. f \in Seq(S)
  BY SeqDef
<1>2. DOMAIN f = 1..Len(f) /\ DOMAIN f = 1..n /\ Len(f) \in Nat
  BY <1>1, LenProperties
<1> QED BY <1>1, <1>2

LEMMA SplitList ==
  ASSUME NEW S, NEW x \in Seq(S), NEW y \in Seq(S), NEW n \in Nat,
         Len(y) = Len(x) + n, \A i \in 1..Len(x) : y[i] = x[i]
  PROVE  y = x \o [i \in 1..n |-> y[Len(x) + i]]
<1> PICK tail : tail = [i \in 1..n |-> y[Len(x) + i]]
  OBVIOUS
<1>1. Len(x) \in Nat
  BY LenProperties
<1>2. tail \in [1..n -> S]
  <2>1. \A i \in 1..n : Len(x) + i \in 1..Len(y)
    BY <1>1
  <2> QED BY <2>1, ElementOfSeq
<1>3. tail \in Seq(S) /\ Len(tail) = n
  BY <1>2, FunctionIsList
<1>4. /\ x \o tail \in Seq(S)
      /\ Len(x \o tail) = Len(x) + Len(tail)
      /\ \A i \in 1 .. Len(x) + Len(tail) :
           (x \o tail)[i] = IF i <= Len(x) THEN x[i] ELSE tail[i - Len(x)]
  BY <1>3, ConcatProperties
<1>5. ASSUME NEW i \in 1..Len(y) PROVE y[i] = (x \o tail)[i]
  <2>1. i \in 1..Len(x) + Len(tail)
    BY <1>3
  <2>2. CASE i <= Len(x)
    BY <1>1, <1>4, <2>1, <2>2
  <2>3. CASE i > Len(x)
    <3>1. i - Len(x) \in 1..n /\ Len(x) + (i - Len(x)) = i
      BY <1>1, <2>3
    <3>2. tail[i - Len(x)] = y[i]
      BY <3>1
    <3> QED BY <1>1, <1>4, <2>1, <2>3, <3>2
  <2> QED BY <1>1, <2>2, <2>3
<1>6. Len(x \o tail) = Len(y)
  BY <1>3, <1>4
<1> QED BY <1>4, <1>5, <1>6, SeqEqual

(***************************************************************************)
(* The sizes of disjoint sets add up, and a list has as many places as it  *)
(* is long.                                                                *)
(***************************************************************************)
LEMMA DisjointUnion ==
  ASSUME NEW S, NEW T, IsFiniteSet(S), IsFiniteSet(T), S \cap T = {}
  PROVE  /\ IsFiniteSet(S \cup T)
         /\ Cardinality(S \cup T) = Cardinality(S) + Cardinality(T)
         /\ Cardinality(S) \in Nat /\ Cardinality(T) \in Nat
<1>1. Cardinality(S \cap T) = 0
  BY FS_EmptySet
<1>2. Cardinality(S) \in Nat /\ Cardinality(T) \in Nat
  BY FS_CardinalityType
<1>3. /\ IsFiniteSet(S \cup T)
      /\ Cardinality(S \cup T) = Cardinality(S) + Cardinality(T) - Cardinality(S \cap T)
  BY FS_Union
<1> QED BY <1>1, <1>2, <1>3

LEMMA ColumnSize ==
  ASSUME NEW c, NEW n \in Nat
  PROVE  IsFiniteSet({c} \X (1..n)) /\ Cardinality({c} \X (1..n)) = n
<1>1. IsFiniteSet({c}) /\ Cardinality({c}) = 1
  BY FS_Singleton
<1>2. IsFiniteSet(1..n) /\ Cardinality(1..n) = n
  BY FS_Interval
<1>3. /\ IsFiniteSet({c} \X (1..n))
      /\ Cardinality({c} \X (1..n)) = Cardinality({c}) * Cardinality(1..n)
  BY <1>1, <1>2, FS_Product
<1> QED BY <1>1, <1>2, <1>3

(***************************************************************************)
(* There are finitely many places: TotalEvents is a number.                *)
(***************************************************************************)
LEMMA PlacesFinite ==
  ASSUME NEW E, NEW lists \in Lists(E)
  PROVE  /\ IsFiniteSet(Places(lists))
         /\ TotalEvents(lists) \in Nat
<1> DEFINE Column(c) == {c} \X DOMAIN lists[c]
           Columns == {Column(c) : c \in Client}
           f == [c \in Client |-> Column(c)]
<1>1. f \in Surjection(Client, Columns)
  BY DEF Surjection
<1>2. IsFiniteSet(Columns)
  BY <1>1, FS_Surjection, LimitsAssumption
<1>3. ASSUME NEW S \in Columns PROVE IsFiniteSet(S)
  <2>1. PICK c \in Client : S = Column(c)
    OBVIOUS
  <2>2. DOMAIN lists[c] = 1..Len(lists[c]) /\ Len(lists[c]) \in Nat
    BY DEF Lists
  <2> QED BY <2>1, <2>2, ColumnSize
<1>4. Places(lists) = UNION Columns
  BY DEF Places
<1>5. IsFiniteSet(Places(lists))
  BY <1>2, <1>3, <1>4, FS_UNION
<1> QED BY <1>5, FS_CardinalityType DEF TotalEvents

(***************************************************************************)
(* A place is a client and a number up to the length of its list.          *)
(***************************************************************************)
LEMMA PlaceOf ==
  ASSUME NEW E, NEW lists \in Lists(E)
  PROVE  /\ \A c \in Client : Len(lists[c]) \in Nat
         /\ \A x : x \in Places(lists) <=>
              \E c \in Client : \E i \in 1..Len(lists[c]) : x = <<c, i>>
<1>1. \A c \in Client : Len(lists[c]) \in Nat /\ DOMAIN lists[c] = 1..Len(lists[c])
  BY DEF Lists
<1>2. ASSUME NEW x
      PROVE  x \in Places(lists) <=>
               \E c \in Client : \E i \in 1..Len(lists[c]) : x = <<c, i>>
  <2>1. x \in Places(lists) <=> \E c \in Client : x \in {c} \X DOMAIN lists[c]
    BY DEF Places
  <2>2. \A c \in Client : x \in {c} \X DOMAIN lists[c]
          <=> \E i \in 1..Len(lists[c]) : x = <<c, i>>
    BY <1>1
  <2> QED BY <2>1, <2>2
<1> QED BY <1>1, <1>2

(***************************************************************************)
(* When the list of one client changes, the total changes by as much.      *)
(***************************************************************************)
LEMMA TotalOfChange ==
  ASSUME NEW E, NEW F, NEW before \in Lists(E), NEW after \in Lists(F), NEW c \in Client,
         \A d \in Client \ {c} : Len(after[d]) = Len(before[d])
  PROVE  TotalEvents(after) = TotalEvents(before) - Len(before[c]) + Len(after[c])
<1> DEFINE Old == {c} \X (1..Len(before[c]))
           New == {c} \X (1..Len(after[c]))
           Rest == Places(before) \ Old
<1>1. /\ IsFiniteSet(Places(before)) /\ IsFiniteSet(Places(after))
      /\ Len(before[c]) \in Nat /\ Len(after[c]) \in Nat
  BY PlacesFinite, PlaceOf
<1>2. /\ IsFiniteSet(Old) /\ Cardinality(Old) = Len(before[c])
      /\ IsFiniteSet(New) /\ Cardinality(New) = Len(after[c])
  BY <1>1, ColumnSize
<1>3. IsFiniteSet(Rest)
  BY <1>1, FS_Difference
<1>4. /\ Places(before) = Rest \cup Old /\ Rest \cap Old = {}
      /\ Places(after) = Rest \cup New /\ Rest \cap New = {}
  <2>1. Old \subseteq Places(before)
    BY PlaceOf
  <2>2. \A x : x \in Rest <=>
          \E d \in Client \ {c} : \E i \in 1..Len(before[d]) : x = <<d, i>>
    BY PlaceOf
  <2>3. \A x : x \in Places(after) <=> x \in Rest \/ x \in New
    BY <2>2, PlaceOf
  <2>4. Rest \cap New = {}
    BY <2>2
  <2> QED BY <2>1, <2>3, <2>4
<1>5. /\ Cardinality(Places(before)) = Cardinality(Rest) + Cardinality(Old)
      /\ Cardinality(Places(after)) = Cardinality(Rest) + Cardinality(New)
      /\ Cardinality(Rest) \in Nat
  BY <1>2, <1>3, <1>4, DisjointUnion
<1> QED BY <1>1, <1>2, <1>5 DEF TotalEvents

(***************************************************************************)
(* When every list grows by the length of another, the totals add up; a    *)
(* list that is longer nowhere has no larger total.                        *)
(***************************************************************************)
LEMMA TotalOfSum ==
  ASSUME NEW E, NEW F, NEW G,
         NEW first \in Lists(E), NEW second \in Lists(F), NEW both \in Lists(G),
         LengthsAdd(first, second, both)
  PROVE  TotalEvents(both) = TotalEvents(first) + TotalEvents(second)
<1> DEFINE Added == Places(both) \ Places(first)
           f == [x \in Places(second) |-> <<x[1], Len(first[x[1]]) + x[2]>>]
<1>1. \A c \in Client : /\ Len(first[c]) \in Nat /\ Len(second[c]) \in Nat
                        /\ Len(both[c]) \in Nat
  BY PlaceOf
<1>2. /\ IsFiniteSet(Places(first)) /\ IsFiniteSet(Places(second))
      /\ IsFiniteSet(Places(both))
  BY PlacesFinite
<1>3. \A k, i, j \in Nat : k + i = k + j => i = j
  OBVIOUS
<1>4. ASSUME NEW c \in Client, NEW i \in Nat
      PROVE  /\ i \in 1..Len(first[c]) => i \in 1..Len(both[c])
             /\ i \in 1..Len(second[c]) => /\ Len(first[c]) + i \in 1..Len(both[c])
                                          /\ Len(first[c]) + i \notin 1..Len(first[c])
             /\ i \in 1..Len(both[c]) /\ i \notin 1..Len(first[c]) =>
                  /\ i - Len(first[c]) \in 1..Len(second[c])
                  /\ i = Len(first[c]) + (i - Len(first[c]))
  <2>1. \A k, m, n \in Nat : n = k + m =>
          /\ i \in 1..k => i \in 1..n
          /\ i \in 1..m => k + i \in 1..n /\ k + i \notin 1..k
          /\ i \in 1..n /\ i \notin 1..k => i - k \in 1..m /\ i = k + (i - k)
    OBVIOUS
  <2>2. Len(both[c]) = Len(first[c]) + Len(second[c])
    BY DEF LengthsAdd
  <2> QED BY <1>1, <2>1, <2>2
<1>5. \A x : x \in Added <=>
        \E c \in Client : \E i \in 1..Len(second[c]) : x = <<c, Len(first[c]) + i>>
  <2>1. ASSUME NEW c \in Client, NEW i \in 1..Len(second[c])
        PROVE  <<c, Len(first[c]) + i>> \in Added
    <3>1. Len(first[c]) + i \in 1..Len(both[c]) /\ Len(first[c]) + i \notin 1..Len(first[c])
      BY <1>4
    <3> QED BY <3>1, PlaceOf
  <2>2. ASSUME NEW x \in Added
        PROVE  \E c \in Client : \E i \in 1..Len(second[c]) : x = <<c, Len(first[c]) + i>>
    <3>1. PICK c \in Client, j \in Nat : j \in 1..Len(both[c]) /\ x = <<c, j>>
      BY PlaceOf
    <3>2. j \notin 1..Len(first[c])
      BY <3>1, PlaceOf
    <3>3. j - Len(first[c]) \in 1..Len(second[c]) /\ j = Len(first[c]) + (j - Len(first[c]))
      BY <1>4, <3>1, <3>2
    <3> QED BY <3>1, <3>3
  <2> QED BY <2>1, <2>2
<1>6. f \in Bijection(Places(second), Added)
  <2>1. ASSUME NEW x \in Places(second)
        PROVE  /\ x[1] \in Client /\ x[2] \in 1..Len(second[x[1]]) /\ x = <<x[1], x[2]>>
               /\ f[x] \in Added
    <3>1. PICK c \in Client, i \in Nat : i \in 1..Len(second[c]) /\ x = <<c, i>>
      BY PlaceOf
    <3> QED BY <1>5, <3>1
  <2>2. ASSUME NEW x \in Places(second), NEW y \in Places(second), f[x] = f[y]
        PROVE  x = y
    <3>1. x[1] = y[1] /\ Len(first[x[1]]) + x[2] = Len(first[y[1]]) + y[2]
      BY <2>2
    <3>2. x[2] = y[2]
      <4>1. Len(first[x[1]]) + x[2] = Len(first[x[1]]) + y[2]
        BY <3>1
      <4>2. x[1] \in Client /\ x[2] \in 1..Len(second[x[1]]) /\ y[2] \in 1..Len(second[x[1]])
        BY <2>1, <3>1
      <4>3. x[2] \in Nat /\ y[2] \in Nat /\ Len(first[x[1]]) \in Nat
        BY <1>1, <4>2
      <4> QED BY <1>3, <4>1, <4>3
    <3> QED BY <2>1, <3>1, <3>2
  <2>3. ASSUME NEW y \in Added
        PROVE  \E x \in Places(second) : f[x] = y
    <3>1. PICK c \in Client, i \in Nat : i \in 1..Len(second[c]) /\ y = <<c, Len(first[c]) + i>>
      BY <1>5
    <3>2. <<c, i>> \in Places(second)
      BY <3>1, PlaceOf
    <3> QED BY <3>1, <3>2
  <2> QED BY <2>1, <2>2, <2>3 DEF Bijection, Injection, Surjection, IsInjective
<1>7. Cardinality(Added) = Cardinality(Places(second))
  BY <1>2, <1>6, FS_Bijection DEF ExistsBijection
<1>8. /\ IsFiniteSet(Added)
      /\ Places(both) = Places(first) \cup Added /\ Places(first) \cap Added = {}
  <2>1. Places(first) \subseteq Places(both)
    <3> SUFFICES ASSUME NEW x \in Places(first) PROVE x \in Places(both)
      OBVIOUS
    <3>1. PICK c \in Client, i \in Nat : i \in 1..Len(first[c]) /\ x = <<c, i>>
      BY PlaceOf
    <3>2. i \in 1..Len(both[c])
      BY <1>4, <3>1
    <3> QED BY <3>1, <3>2, PlaceOf
  <2> QED BY <1>2, <2>1, FS_Difference
<1> QED BY <1>2, <1>7, <1>8, DisjointUnion DEF TotalEvents

LEMMA TotalIsMonotone ==
  ASSUME NEW E, NEW F, NEW smaller \in Lists(E), NEW larger \in Lists(F),
         NoLonger(smaller, larger)
  PROVE  TotalEvents(smaller) <= TotalEvents(larger)
<1>1. Places(smaller) \subseteq Places(larger)
  <2> SUFFICES ASSUME NEW x \in Places(smaller) PROVE x \in Places(larger)
    OBVIOUS
  <2>1. PICK c \in Client, i \in Nat : i \in 1..Len(smaller[c]) /\ x = <<c, i>>
    BY PlaceOf
  <2>2. i \in 1..Len(larger[c])
    BY <2>1, PlaceOf DEF NoLonger
  <2> QED BY <2>1, <2>2, PlaceOf
<1> QED BY <1>1, PlacesFinite, FS_Subset DEF TotalEvents

(* Empty lists have no places. *)
LEMMA TotalOfNothing ==
  ASSUME NEW E, NEW lists \in Lists(E), \A c \in Client : Len(lists[c]) = 0
  PROVE  TotalEvents(lists) = 0
<1>1. Places(lists) = {}
  BY PlaceOf
<1> QED BY <1>1, FS_EmptySet DEF TotalEvents
-----------------------------------------------------------------------------

(***************************************************************************)
(* The inductive invariant: what is still to be pushed has room, and what  *)
(* was pushed is at the end of the queues, with the number of the last     *)
(* request of its recipient.  The first makes the pushes succeed, the      *)
(* second makes the end of the call one step of AtomicQueues.              *)
(***************************************************************************)
RestHasRoom ==
  pc = "push" =>
    /\ index < Len(events)
    /\ Len(events) - index <= MaxPending - pending
    /\ \A i \in index + 1 .. Len(events) :
         Additions(events, i) - Pushed(events[i].to) <= MaxPerClient - Len(Queued(events[i].to))

PushedAtTheEnd ==
  \A c \in Client :
    /\ Pushed(c) <= Len(Queued(c))
    /\ \A i \in Len(Queued(c)) - Pushed(c) + 1 .. Len(Queued(c)) :
         Queued(c)[i].sequence = sequence[c]

CallUnderWay ==
  /\ pc = "idle" => events = << >>
  /\ pc = "undo" => index > 0

IInv ==
  /\ TypeOK
  /\ CountsAgree
  /\ RestHasRoom
  /\ PushedAtTheEnd
  /\ CallUnderWay
-----------------------------------------------------------------------------
(***************************************************************************)
(* The queues as lists, and the map with one of them changed.              *)
(***************************************************************************)
LEMMA QueueTypes ==
  ASSUME TypeOK
  PROVE  /\ \A c \in Client : Queued(c) \in Seq(Event) /\ Len(Queued(c)) \in Nat
         /\ AllQueues \in Lists(Event)
<1>1. \A c \in Client : Queued(c) \in Seq(Event)
  BY DEF TypeOK, Queued
<1> QED BY <1>1 DEF AllQueues, Lists

LEMMA QueueMap ==
  ASSUME TypeOK, NEW c \in Client, NEW q \in Seq(Event),
         \/ queues' = SetQueue(c, q)
         \/ queues' = Shortened(c, q)
         \/ queues' = EraseQueue(c) /\ q = << >>
  PROVE  /\ \E S \in SUBSET Client : queues' \in [S -> Seq(Event)]
         /\ Queued(c)' = q
         /\ \A d \in Client \ {c} : Queued(d)' = Queued(d)
<1>1. PICK S \in SUBSET Client : queues \in [S -> Seq(Event)]
  BY DEF TypeOK
<1>2. CASE queues' = SetQueue(c, q)
  <2>1. queues' \in [S \cup {c} -> Seq(Event)]
    BY <1>1, <1>2 DEF SetQueue
  <2> QED BY <1>1, <1>2, <2>1 DEF SetQueue, Queued
<1>3. CASE queues' = EraseQueue(c) /\ q = << >>
  <2>1. queues' \in [S \ {c} -> Seq(Event)]
    BY <1>1, <1>3 DEF EraseQueue
  <2> QED BY <1>1, <1>3, <2>1 DEF EraseQueue, Queued
<1> QED BY <1>2, <1>3 DEF Shortened

(***************************************************************************)
(* The counter stays exact when it changes by as much as one queue.        *)
(***************************************************************************)
LEMMA CountFollows ==
  ASSUME TypeOK, CountsAgree, NEW c \in Client, NEW q \in Seq(Event),
         Queued(c)' = q, \A d \in Client \ {c} : Queued(d)' = Queued(d),
         pending' = pending - Len(Queued(c)) + Len(q)
  PROVE  pending' = TotalEvents(AllQueues)' /\ pending' \in Nat
<1>1. /\ AllQueues \in Lists(Event)
      /\ \A d \in Client : Queued(d) \in Seq(Event)
  BY QueueTypes
<1>2. AllQueues' \in Lists(Event)
  BY <1>1 DEF AllQueues, Lists
<1>3. /\ AllQueues[c] = Queued(c) /\ AllQueues'[c] = q
      /\ \A d \in Client \ {c} : AllQueues'[d] = AllQueues[d]
  BY DEF AllQueues
<1>4. TotalEvents(AllQueues') = TotalEvents(AllQueues) - Len(Queued(c)) + Len(q)
  BY <1>1, <1>2, <1>3, TotalOfChange
<1>5. TotalEvents(AllQueues') \in Nat
  BY <1>2, PlacesFinite
<1> QED BY <1>4, <1>5 DEF CountsAgree

(***************************************************************************)
(* How many of the first n events of a plan are for a client.              *)
(***************************************************************************)
LEMMA CountOfMore ==
  ASSUME NEW plan \in Seq(PlannedEvent), NEW n \in Nat, NEW c
  PROVE  /\ IsFiniteSet(Among(plan, n, c)) /\ Cardinality(Among(plan, n, c)) \in Nat
         /\ Cardinality(Among(plan, n, c)) <= n
         /\ Cardinality(Among(plan, n + 1, c)) =
              IF plan[n + 1].to = c THEN Cardinality(Among(plan, n, c)) + 1
              ELSE Cardinality(Among(plan, n, c))
<1>1. /\ IsFiniteSet(Among(plan, n, c)) /\ Cardinality(Among(plan, n, c)) \in Nat
      /\ Cardinality(Among(plan, n, c)) <= n
  <2>1. IsFiniteSet(1..n) /\ Cardinality(1..n) = n
    BY FS_Interval
  <2>2. Among(plan, n, c) \in SUBSET (1..n)
    BY DEF Among
  <2>3. /\ IsFiniteSet(Among(plan, n, c))
        /\ Cardinality(Among(plan, n, c)) <= Cardinality(1..n)
    BY <2>1, <2>2, FS_Subset
  <2> QED BY <2>1, <2>3, FS_CardinalityType
<1>2. /\ Among(plan, n + 1, c) = IF plan[n + 1].to = c THEN Among(plan, n, c) \cup {n + 1}
                                 ELSE Among(plan, n, c)
      /\ n + 1 \notin Among(plan, n, c)
  BY DEF Among
<1>3. Cardinality(Among(plan, n, c) \cup {n + 1}) = Cardinality(Among(plan, n, c)) + 1
  BY <1>1, <1>2, FS_AddElement
<1> QED BY <1>1, <1>2, <1>3

LEMMA NoneAmongNone == \A plan, c : Cardinality(Among(plan, 0, c)) = 0
<1>1. \A plan, c : Among(plan, 0, c) = {}
  BY DEF Among
<1> QED BY <1>1, FS_EmptySet

LEMMA PushedCount ==
  ASSUME TypeOK, NEW c
  PROVE  /\ Pushed(c) \in Nat /\ Pushed(c) <= index
         /\ index = 0 => Pushed(c) = 0
<1>1. index \in Nat /\ events \in Seq(PlannedEvent)
  BY DEF TypeOK
<1>2. Pushed(c) \in Nat /\ Pushed(c) <= index
  BY <1>1, CountOfMore DEF Pushed
<1> QED BY <1>2
-----------------------------------------------------------------------------
(***************************************************************************)
(* Between two calls nothing is pushed.                                    *)
(***************************************************************************)
LEMMA NothingPushed == TypeOK /\ index = 0 => PushedAtTheEnd
<1> SUFFICES ASSUME TypeOK, index = 0, NEW c \in Client
             PROVE  /\ Pushed(c) <= Len(Queued(c))
                    /\ \A i \in Len(Queued(c)) - Pushed(c) + 1 .. Len(Queued(c)) :
                         Queued(c)[i].sequence = sequence[c]
  BY DEF PushedAtTheEnd
<1> QED BY QueueTypes, PushedCount

LEMMA NothingPushedNext == (TypeOK /\ index = 0)' => PushedAtTheEnd'
BY NothingPushed, PTL

THEOREM InitIsInductive == Init => IInv
<1> SUFFICES ASSUME Init PROVE IInv
  OBVIOUS
<1> USE DEF Init
<1>1. TypeOK
  <2>1. queues \in [{} -> Seq(Event)]
    OBVIOUS
  <2>2. sequence \in [Client -> 0..MaxSequence]
    BY QueueAssumption
  <2>3. \E S \in SUBSET Client : queues \in [S -> Seq(Event)]
    BY <2>1
  <2>4. events \in Seq(PlannedEvent) /\ index \in 0..Len(events)
    OBVIOUS
  <2> QED BY <2>2, <2>3, <2>4 DEF TypeOK
<1>2. CountsAgree
  <2>1. \A c \in Client : Queued(c) = << >>
    BY DEF Queued
  <2>2. AllQueues \in Lists(Event) /\ \A c \in Client : Len(AllQueues[c]) = 0
    <3>1. AllQueues = [c \in Client |-> << >>]
      BY <2>1 DEF AllQueues
    <3>2. << >> \in Seq(Event) /\ Len(<< >>) = 0
      OBVIOUS
    <3> HIDE DEF Init
    <3> QED BY <3>1, <3>2 DEF Lists
  <2>3. TotalEvents(AllQueues) = 0
    BY <2>2, TotalOfNothing
  <2> QED BY <2>1, <2>3, LimitsAssumption DEF CountsAgree
<1>3. PushedAtTheEnd
  BY <1>1, NothingPushed
<1> QED BY <1>1, <1>2, <1>3 DEF IInv, RestHasRoom, CallUnderWay

(***************************************************************************)
(* The call begins: the check up front is the room for all of it.          *)
(***************************************************************************)
LEMMA BeginKeeps ==
  ASSUME IInv, NEW plan \in Plans, Begin(plan)
  PROVE  IInv'
<1> USE DEF IInv
<1>1. /\ plan \in Seq(PlannedEvent) /\ Len(plan) \in Nat
      /\ index' = 0 /\ events' \in {plan, << >>}
      /\ UNCHANGED <<queues, pending, sequence>>
  BY QueueAssumption DEF Plans, Begin, Goto
<1>2. TypeOK'
  BY <1>1 DEF TypeOK, Begin, Goto
<1>3. /\ \A c : Queued(c)' = Queued(c)
      /\ AllQueues' = AllQueues
  BY <1>1 DEF Queued, AllQueues
<1>4. CountsAgree'
  BY <1>1, <1>3 DEF CountsAgree
<1>5. PushedAtTheEnd'
  BY <1>1, <1>2, NothingPushedNext
<1>6. RestHasRoom'
  <2> SUFFICES ASSUME pc' = "push" PROVE RestHasRoom'
    BY DEF RestHasRoom
  <2>1. /\ events' = plan /\ plan # << >> /\ Len(plan) > 0
    BY <1>1 DEF Begin, Goto
  <2>2. \A c : Pushed(c)' = 0
    BY <1>1, <2>1, NoneAmongNone DEF Pushed
  <2>3. /\ Len(plan) <= MaxPending - pending
        /\ \A i \in 1..Len(plan) : Additions(plan, i) <= MaxPerClient - Len(Queued(plan[i].to))
    BY <1>1 DEF Begin, HasCapacity
  <2>4. \A i \in 1..Len(plan) : Additions(plan, i) \in Nat
    BY <1>1, CountOfMore DEF Additions
  <2> QED BY <1>1, <1>3, <2>1, <2>2, <2>3, <2>4 DEF RestHasRoom, Additions
<1>7. CallUnderWay'
  BY DEF CallUnderWay, Begin, Goto
<1> QED BY <1>2, <1>4, <1>5, <1>6, <1>7

(***************************************************************************)
(* An event is pushed: what queue_event does to its queue.                 *)
(***************************************************************************)
LEMMA PushFacts ==
  ASSUME IInv, NEW e \in PlannedEvent, queue_event(e),
         UNCHANGED sequence
  PROVE  /\ Queued(e.to)' = Append(Queued(e.to), [type |-> e.type, sequence |-> sequence[e.to]])
         /\ \A d \in Client \ {e.to} : Queued(d)' = Queued(d)
         /\ \E S \in SUBSET Client : queues' \in [S -> Seq(Event)]
         /\ Len(Queued(e.to)') = Len(Queued(e.to)) + 1
         /\ pending' = pending + 1
         /\ CountsAgree' /\ pending' \in Nat
<1> DEFINE c == e.to
           new == [type |-> e.type, sequence |-> sequence[c]]
           q == Append(Queued(c), new)
<1>1. /\ c \in Client /\ new \in Event /\ Queued(c) \in Seq(Event)
      /\ Len(Queued(c)) \in Nat /\ pending \in Nat
  <2>1. c \in Client /\ e.type \in Kinds
    BY DEF PlannedEvent
  <2>2. sequence[c] \in 0..MaxSequence /\ pending \in Nat
    BY <2>1 DEF IInv, TypeOK
  <2>3. new \in Event
    BY <2>1, <2>2 DEF Event
  <2> QED BY <2>1, <2>2, <2>3, QueueTypes DEF IInv
<1>2. q \in Seq(Event) /\ Len(q) = Len(Queued(c)) + 1
  BY <1>1
<1>3. queues' = SetQueue(c, q) /\ pending' = pending + 1
  BY DEF queue_event
<1> HIDE DEF q, c
<1>4. /\ \E S \in SUBSET Client : queues' \in [S -> Seq(Event)]
      /\ Queued(c)' = q
      /\ \A d \in Client \ {c} : Queued(d)' = Queued(d)
  BY <1>1, <1>2, <1>3, QueueMap DEF IInv
<1>5. pending' = pending - Len(Queued(c)) + Len(q)
  BY <1>1, <1>2, <1>3
<1>6. pending' = TotalEvents(AllQueues)' /\ pending' \in Nat
  BY <1>1, <1>2, <1>4, <1>5, CountFollows DEF IInv
<1>7. CountsAgree'
  <2>1. pending < MaxPending /\ Len(Queued(c)) < MaxPerClient
    BY DEF queue_event, can_queue_event, c
  <2>2. pending' <= MaxPending
    BY <1>1, <1>3, <2>1, LimitsAssumption
  <2>3. ASSUME NEW d \in Client PROVE Len(Queued(d)') <= MaxPerClient
    <3>1. CASE d = c
      BY <1>1, <1>2, <1>4, <2>1, <3>1, LimitsAssumption
    <3>2. CASE d # c
      BY <1>4, <3>2 DEF IInv, CountsAgree
    <3> QED BY <3>1, <3>2
  <2> QED BY <1>6, <2>2, <2>3 DEF CountsAgree
<1> QED BY <1>2, <1>3, <1>4, <1>6, <1>7 DEF c, q

(***************************************************************************)
(* One push of a call.  The room of the rest stays: the recipient has one  *)
(* place less, and one event less to come.                                 *)
(***************************************************************************)
LEMMA PushKeeps ==
  ASSUME IInv, Push
  PROVE  IInv'
<1> PICK e : e = events[index + 1]
  OBVIOUS
<1> PICK c : c = e.to
  OBVIOUS
<1>1. /\ index \in Nat /\ index < Len(events) /\ Len(events) \in Nat
      /\ e \in PlannedEvent /\ c \in Client
      /\ events \in Seq(PlannedEvent)
  <2>1. index \in 0..Len(events) /\ events \in Seq(PlannedEvent)
    BY DEF IInv, TypeOK
  <2>2. index < Len(events)
    BY DEF IInv, RestHasRoom, Push
  <2>3. e \in PlannedEvent
    BY <2>1, <2>2
  <2> QED BY <2>1, <2>2, <2>3 DEF PlannedEvent
<1>2. /\ queue_event(e) /\ UNCHANGED sequence
      /\ Goto(IF index + 1 = Len(events) THEN "idle" ELSE "push", events, index + 1)
  BY DEF Push
<1> PICK new : new = [type |-> e.type, sequence |-> sequence[c]]
  OBVIOUS
<1>3. /\ Queued(c)' = Append(Queued(c), new)
      /\ \A d \in Client \ {c} : Queued(d)' = Queued(d)
      /\ \E S \in SUBSET Client : queues' \in [S -> Seq(Event)]
      /\ Len(Queued(c)') = Len(Queued(c)) + 1
      /\ pending' = pending + 1
      /\ CountsAgree' /\ pending' \in Nat
  BY <1>1, <1>2, PushFacts
<1>4. \/ pc' = "idle" /\ events' = << >> /\ index' = 0
      \/ /\ pc' = "push" /\ events' = events /\ index' = index + 1
         /\ index + 1 < Len(events)
  BY <1>1, <1>2 DEF Goto
<1>5. TypeOK'
  <2>1. sequence' \in [Client -> 0..MaxSequence]
    BY <1>2 DEF IInv, TypeOK
  <2>2. events' \in Seq(PlannedEvent) /\ index' \in 0..Len(events')
        /\ pc' \in {"idle", "push", "undo"}
    <3>1. << >> \in Seq(PlannedEvent) /\ 0 \in 0..Len(<< >>)
      OBVIOUS
    <3>2. CASE pc' = "idle"
      BY <1>4, <3>1, <3>2
    <3>3. CASE pc' = "push"
      BY <1>1, <1>4, <3>3
    <3> QED BY <1>4, <3>2, <3>3
  <2> QED BY <1>3, <2>1, <2>2 DEF TypeOK
<1>6. ASSUME pc' = "push"
      PROVE  \A d \in Client : Pushed(d)' = IF d = c THEN Pushed(d) + 1 ELSE Pushed(d)
  <2>1. events' = events /\ index' = index + 1
    BY <1>4, <1>6
  <2>2. \A d \in Client : Cardinality(Among(events, index + 1, d)) =
          IF c = d THEN Cardinality(Among(events, index, d)) + 1
          ELSE Cardinality(Among(events, index, d))
    BY <1>1, CountOfMore, SMTT(40)
  <2> QED BY <2>1, <2>2 DEF Pushed
<1>7. \A d \in Client : /\ Pushed(d) \in Nat /\ Len(Queued(d)) \in Nat
                        /\ Queued(d) \in Seq(Event)
  BY PushedCount, QueueTypes DEF IInv
<1>8. RestHasRoom'
  <2> SUFFICES ASSUME pc' = "push" PROVE RestHasRoom'
    BY DEF RestHasRoom
  <2>1. /\ events' = events /\ index' = index + 1 /\ index + 1 < Len(events)
    BY <1>4
  <2>2. /\ Len(events) - index <= MaxPending - pending
        /\ \A i \in index + 1 .. Len(events) :
              Additions(events, i) - Pushed(events[i].to)
                <= MaxPerClient - Len(Queued(events[i].to))
    BY DEF IInv, RestHasRoom, Push
  <2>3. Len(events) - (index + 1) <= MaxPending - pending'
    <3>1. pending \in Nat
      BY DEF IInv, TypeOK
    <3> QED BY <1>1, <1>3, <2>2, <3>1, LimitsAssumption
  <2>4. ASSUME NEW i \in index + 2 .. Len(events), NEW d \in Client, d = events[i].to
        PROVE  Additions(events, i) - Pushed(d)' <= MaxPerClient - Len(Queued(d)')
    <3>1. i \in index + 1 .. Len(events) /\ i \in Nat
      BY <1>1
    <3>2. Additions(events, i) \in Nat
      BY <1>1, <3>1, CountOfMore DEF Additions
    <3>3. Additions(events, i) - Pushed(d) <= MaxPerClient - Len(Queued(d))
      BY <2>2, <2>4, <3>1
    <3>4. CASE d = c
      <4>1. /\ Pushed(c)' = Pushed(c) + 1 /\ Len(Queued(c)') = Len(Queued(c)) + 1
        BY <1>1, <1>3, <1>6
      <4> QED BY <1>1, <1>7, <3>2, <3>3, <3>4, <4>1, LimitsAssumption, SMTT(40)
    <3>5. CASE d # c
      BY <1>3, <1>6, <3>1, <3>3, <3>5
    <3> QED BY <3>4, <3>5
  <2>5. ASSUME NEW i \in index + 2 .. Len(events)
        PROVE  events[i].to \in Client
    <3>1. i \in 1..Len(events)
      BY <1>1
    <3>2. events[i] \in PlannedEvent
      BY <1>1, <3>1
    <3> QED BY <3>2 DEF PlannedEvent
  <2> QED BY <1>1, <2>1, <2>3, <2>4, <2>5, SMTT(40) DEF RestHasRoom, Additions
<1>9. PushedAtTheEnd'
  <2>1. CASE pc' = "idle"
    BY <1>4, <1>5, <2>1, NothingPushedNext
  <2>2. CASE pc' = "push"
    <3> SUFFICES ASSUME NEW d \in Client
                 PROVE  /\ Pushed(d)' <= Len(Queued(d)')
                        /\ \A i \in Len(Queued(d)') - Pushed(d)' + 1 .. Len(Queued(d)') :
                             Queued(d)'[i].sequence = sequence'[d]
      BY DEF PushedAtTheEnd
    <3>1. /\ Pushed(d) <= Len(Queued(d))
          /\ \A i \in Len(Queued(d)) - Pushed(d) + 1 .. Len(Queued(d)) :
               Queued(d)[i].sequence = sequence[d]
      BY DEF IInv, PushedAtTheEnd
    <3>2. CASE d = c
      <4>1. /\ Pushed(d)' = Pushed(d) + 1 /\ Len(Queued(d)') = Len(Queued(d)) + 1
            /\ Queued(d)' = Append(Queued(d), new)
        BY <1>3, <1>6, <2>2, <3>2
      <4>2. ASSUME NEW i \in Len(Queued(d)') - Pushed(d)' + 1 .. Len(Queued(d)')
            PROVE  Queued(d)'[i].sequence = sequence'[d]
        <5>1. i \in Len(Queued(d)) - Pushed(d) + 1 .. Len(Queued(d)) + 1
          BY <1>7, <4>1
        <5>2. CASE i = Len(Queued(d)) + 1
          BY <1>2, <1>7, <3>2, <4>1, <5>2
        <5>3. CASE i # Len(Queued(d)) + 1
          <6>1. i \in Len(Queued(d)) - Pushed(d) + 1 .. Len(Queued(d)) /\ i \in 1..Len(Queued(d))
            BY <1>7, <3>1, <5>1, <5>3
          <6>2. Append(Queued(d), new)[i] = Queued(d)[i]
            BY <1>7, <6>1
          <6> QED BY <1>2, <3>1, <4>1, <6>1, <6>2
        <5> QED BY <5>2, <5>3
      <4> QED BY <1>7, <3>1, <4>1, <4>2
    <3>3. CASE d # c
      BY <1>2, <1>3, <1>6, <2>2, <3>1, <3>3
    <3> QED BY <3>2, <3>3
  <2> QED BY <1>4, <2>1, <2>2
<1>10. CallUnderWay'
  BY <1>4 DEF CallUnderWay
<1> QED BY <1>3, <1>5, <1>8, <1>9, <1>10 DEF IInv

(***************************************************************************)
(* A push fails: every queue keeps its events.                             *)
(***************************************************************************)
LEMMA PushFailsKeeps ==
  ASSUME IInv, PushFails
  PROVE  /\ IInv'
         /\ \A d \in Client : Queued(d)' = Queued(d)
         /\ pc' = "undo" => UNCHANGED <<events, index>>
         /\ pc' = "idle" => index = 0 /\ index' = 0
         /\ pc' \in {"idle", "undo"} /\ UNCHANGED sequence
<1> PICK c : c = events[index + 1].to
  OBVIOUS
<1>1. /\ index \in 0..Len(events) /\ index < Len(events) /\ Len(events) \in Nat
      /\ events \in Seq(PlannedEvent)
  BY DEF IInv, TypeOK, RestHasRoom, PushFails
<1>2. c \in Client /\ Queued(c) \in Seq(Event)
  <2>1. events[index + 1] \in PlannedEvent
    BY <1>1
  <2> QED BY <2>1, QueueTypes DEF PlannedEvent, IInv
<1>3. /\ queues' = Shortened(c, Queued(c)) /\ UNCHANGED <<pending, sequence>>
      /\ Goto(IF index = 0 THEN "idle" ELSE "undo", events, index)
  BY DEF PushFails
<1>4. /\ \E S \in SUBSET Client : queues' \in [S -> Seq(Event)]
      /\ \A d \in Client : Queued(d)' = Queued(d)
  BY <1>2, <1>3, QueueMap DEF IInv
<1>5. \/ pc' = "idle" /\ events' = << >> /\ index' = 0 /\ index = 0
      \/ pc' = "undo" /\ events' = events /\ index' = index /\ index > 0
  BY <1>1, <1>3 DEF Goto
<1>6. TypeOK'
  <2>1. << >> \in Seq(PlannedEvent) /\ 0 \in 0..Len(<< >>)
    OBVIOUS
  <2>2. events' \in Seq(PlannedEvent) /\ index' \in 0..Len(events')
        /\ pc' \in {"idle", "push", "undo"}
    BY <1>1, <1>5, <2>1
  <2> QED BY <1>3, <1>4, <2>2 DEF IInv, TypeOK
<1>7. CountsAgree'
  <2>1. AllQueues' = AllQueues
    BY <1>4 DEF AllQueues
  <2> QED BY <1>3, <1>4, <2>1 DEF IInv, CountsAgree
<1>8. PushedAtTheEnd'
  <2>1. CASE index' = 0
    BY <1>6, <2>1, NothingPushedNext
  <2>2. CASE events' = events /\ index' = index
    <3>1. \A d : Pushed(d)' = Pushed(d)
      BY <2>2 DEF Pushed
    <3> QED BY <1>3, <1>4, <3>1 DEF IInv, PushedAtTheEnd
  <2> QED BY <1>5, <2>1, <2>2
<1>9. RestHasRoom' /\ CallUnderWay'
  BY <1>5 DEF RestHasRoom, CallUnderWay
<1> QED BY <1>3, <1>4, <1>5, <1>6, <1>7, <1>8, <1>9 DEF IInv

(***************************************************************************)
(* The last pushed event is taken back from the end of its queue.          *)
(***************************************************************************)
LEMMA UndoFacts ==
  ASSUME IInv, pc = "undo", NEW c, c = events[index].to
  PROVE  /\ index \in Nat /\ index > 0 /\ index <= Len(events)
         /\ Len(events) \in Nat /\ events \in Seq(PlannedEvent)
         /\ c \in Client /\ c \in DOMAIN queues /\ queues[c] = Queued(c)
         /\ Queued(c) \in Seq(Event) /\ Len(Queued(c)) > 0
         /\ \A d \in Client : Cardinality(Among(events, index - 1, d)) =
              IF d = c THEN Pushed(d) - 1 ELSE Pushed(d)
<1>1. /\ index \in Nat /\ index > 0 /\ index <= Len(events)
      /\ Len(events) \in Nat /\ events \in Seq(PlannedEvent)
  BY DEF IInv, TypeOK, CallUnderWay
<1>2. c \in Client
  <2>1. events[index] \in PlannedEvent
    BY <1>1
  <2> QED BY <2>1 DEF PlannedEvent
<1>3. \A d \in Client : /\ Cardinality(Among(events, index - 1, d)) \in Nat
                        /\ Pushed(d) = IF c = d
                             THEN Cardinality(Among(events, index - 1, d)) + 1
                             ELSE Cardinality(Among(events, index - 1, d))
  <2>1. index - 1 \in Nat /\ index - 1 + 1 = index
    BY <1>1
  <2> QED BY <1>1, <2>1, CountOfMore DEF Pushed
<1>4. Queued(c) \in Seq(Event) /\ Len(Queued(c)) \in Nat
  BY <1>2, QueueTypes DEF IInv
<1>5. Len(Queued(c)) > 0
  BY <1>2, <1>3, <1>4 DEF IInv, PushedAtTheEnd
<1>6. c \in DOMAIN queues /\ queues[c] = Queued(c)
  BY <1>5 DEF Queued
<1> QED BY <1>1, <1>2, <1>3, <1>4, <1>5, <1>6

LEMMA UndoKeeps ==
  ASSUME IInv, Undo
  PROVE  IInv'
<1> PICK c : c = events[index].to
  OBVIOUS
<1> PICK q : q = Front(queues[c])
  OBVIOUS
<1>1. /\ index \in Nat /\ index > 0 /\ index <= Len(events)
      /\ Len(events) \in Nat /\ events \in Seq(PlannedEvent)
      /\ c \in Client /\ c \in DOMAIN queues /\ queues[c] = Queued(c)
      /\ Queued(c) \in Seq(Event) /\ Len(Queued(c)) > 0
      /\ \A d \in Client : Cardinality(Among(events, index - 1, d)) =
           IF d = c THEN Pushed(d) - 1 ELSE Pushed(d)
  BY UndoFacts DEF Undo
<1>2. /\ queues' = Shortened(c, q) /\ pending' = pending - 1 /\ UNCHANGED sequence
      /\ Goto(IF index = 1 THEN "idle" ELSE "undo", events, index - 1)
  BY DEF Undo
<1>3. /\ q \in Seq(Event) /\ Len(q) = Len(Queued(c)) - 1
      /\ \A i \in 1..Len(q) : q[i] = Queued(c)[i]
  BY <1>1 DEF Front
<1>4. /\ \E S \in SUBSET Client : queues' \in [S -> Seq(Event)]
      /\ Queued(c)' = q
      /\ \A d \in Client \ {c} : Queued(d)' = Queued(d)
  BY <1>1, <1>2, <1>3, QueueMap DEF IInv
<1>5. \/ pc' = "idle" /\ events' = << >> /\ index' = 0
      \/ pc' = "undo" /\ events' = events /\ index' = index - 1 /\ index > 1
  BY <1>1, <1>2 DEF Goto
<1>6. pending \in Nat /\ \A d \in Client : Len(Queued(d)) \in Nat
  BY QueueTypes DEF IInv, TypeOK
<1>7. CountsAgree' /\ pending' \in Nat
  <2>1. pending' = pending - Len(Queued(c)) + Len(q)
    BY <1>1, <1>2, <1>3, <1>6, SMTT(40)
  <2>2. pending' = TotalEvents(AllQueues)' /\ pending' \in Nat
    BY <1>1, <1>3, <1>4, <2>1, CountFollows DEF IInv
  <2>3. pending' <= MaxPending
    BY <1>2, <1>6, LimitsAssumption DEF IInv, CountsAgree
  <2>4. \A d \in Client : Len(Queued(d)') <= MaxPerClient
    BY <1>1, <1>3, <1>4, <1>6, LimitsAssumption, SMTT(40) DEF IInv, CountsAgree
  <2> QED BY <2>2, <2>3, <2>4 DEF CountsAgree
<1>8. TypeOK'
  <2>1. << >> \in Seq(PlannedEvent) /\ 0 \in 0..Len(<< >>)
    OBVIOUS
  <2>2. CASE pc' = "idle"
    BY <1>2, <1>4, <1>5, <1>7, <2>1, <2>2 DEF IInv, TypeOK
  <2>3. CASE pc' = "undo"
    BY <1>1, <1>2, <1>4, <1>5, <1>7, <2>3 DEF IInv, TypeOK
  <2> QED BY <1>5, <2>2, <2>3
<1>9. PushedAtTheEnd'
  <2>1. CASE pc' = "idle"
    BY <1>5, <1>8, <2>1, NothingPushedNext
  <2>2. CASE pc' = "undo"
    <3>1. \A d \in Client : Pushed(d)' = IF d = c THEN Pushed(d) - 1 ELSE Pushed(d)
      BY <1>1, <1>5, <2>2 DEF Pushed
    <3> SUFFICES ASSUME NEW d \in Client
                 PROVE  /\ Pushed(d)' <= Len(Queued(d)')
                        /\ \A i \in Len(Queued(d)') - Pushed(d)' + 1 .. Len(Queued(d)') :
                             Queued(d)'[i].sequence = sequence'[d]
      BY DEF PushedAtTheEnd
    <3>2. /\ Pushed(d) <= Len(Queued(d)) /\ Pushed(d) \in Nat
          /\ \A i \in Len(Queued(d)) - Pushed(d) + 1 .. Len(Queued(d)) :
               Queued(d)[i].sequence = sequence[d]
      BY PushedCount DEF IInv, PushedAtTheEnd
    <3>3. CASE d = c
      <4>1. /\ Pushed(d)' = Pushed(d) - 1 /\ Len(Queued(d)') = Len(Queued(d)) - 1
            /\ Queued(d)' = q
        BY <1>3, <1>4, <3>1, <3>3
      <4>2. ASSUME NEW i \in Len(Queued(d)') - Pushed(d)' + 1 .. Len(Queued(d)')
            PROVE  Queued(d)'[i].sequence = sequence'[d]
        <5>1. /\ i \in Len(Queued(d)) - Pushed(d) + 1 .. Len(Queued(d))
              /\ i \in 1..Len(q)
          BY <1>3, <1>6, <3>2, <3>3, <4>1
        <5> QED BY <1>2, <1>3, <3>2, <3>3, <4>1, <5>1, SMTT(40)
      <4> QED BY <1>6, <3>2, <4>1, <4>2
    <3>4. CASE d # c
      BY <1>2, <1>4, <3>1, <3>2, <3>4
    <3> QED BY <3>3, <3>4
  <2> QED BY <1>5, <2>1, <2>2
<1>10. RestHasRoom' /\ CallUnderWay'
  BY <1>1, <1>5 DEF RestHasRoom, CallUnderWay
<1> QED BY <1>7, <1>8, <1>9, <1>10 DEF IInv

(***************************************************************************)
(* Between two calls: whatever leaves the counter exact and the types      *)
(* right keeps the invariant.                                              *)
(***************************************************************************)
LEMMA IdleFacts ==
  ASSUME IInv, pc = "idle"
  PROVE  index = 0 /\ events = << >> /\ \A c \in Client : Pushed(c) = 0
<1>1. events = << >> /\ index \in 0..Len(events)
  BY DEF IInv, TypeOK, CallUnderWay
<1> QED BY <1>1, PushedCount DEF IInv

LEMMA IdleKeeps ==
  ASSUME IInv, pc = "idle", UNCHANGED <<events, index, pc>>,
         \E S \in SUBSET Client : queues' \in [S -> Seq(Event)],
         sequence' \in [Client -> 0..MaxSequence],
         CountsAgree', pending' \in Nat
  PROVE  IInv'
<1>1. TypeOK'
  BY DEF IInv, TypeOK
<1>2. PushedAtTheEnd'
  BY <1>1, IdleFacts, NothingPushedNext
<1> QED BY <1>1, <1>2 DEF IInv, RestHasRoom, CallUnderWay

LEMMA QueueOneKeeps ==
  ASSUME IInv, NEW e \in PlannedEvent, QueueOne(e)
  PROVE  IInv'
<1>1. pc = "idle" /\ queue_event(e) /\ UNCHANGED <<sequence, events, index, pc>>
  BY DEF QueueOne
<1>2. sequence' \in [Client -> 0..MaxSequence]
  BY <1>1 DEF IInv, TypeOK
<1> QED BY <1>1, <1>2, PushFacts, IdleKeeps

LEMMA QueueOneFailsKeeps ==
  ASSUME IInv, NEW e \in PlannedEvent, QueueOneFails(e)
  PROVE  IInv' /\ \A d \in Client : Queued(d)' = Queued(d)
<1>1. e.to \in Client /\ Queued(e.to) \in Seq(Event)
  BY QueueTypes DEF PlannedEvent, IInv
<1>2. /\ pc = "idle" /\ queues' = SetQueue(e.to, Queued(e.to))
      /\ UNCHANGED <<pending, sequence, events, index, pc>>
  BY DEF QueueOneFails
<1>3. /\ \E S \in SUBSET Client : queues' \in [S -> Seq(Event)]
      /\ \A d \in Client : Queued(d)' = Queued(d)
  BY <1>1, <1>2, QueueMap DEF IInv
<1>4. CountsAgree' /\ pending' \in Nat
  <2>1. AllQueues' = AllQueues
    BY <1>3 DEF AllQueues
  <2> QED BY <1>2, <1>3, <2>1 DEF IInv, CountsAgree, TypeOK
<1>5. sequence' \in [Client -> 0..MaxSequence]
  BY <1>2 DEF IInv, TypeOK
<1> QED BY <1>2, <1>3, <1>4, <1>5, IdleKeeps

(***************************************************************************)
(* A queue loses its oldest event, or all of them.                         *)
(***************************************************************************)
LEMMA ShorterKeeps ==
  ASSUME IInv, pc = "idle", UNCHANGED <<events, index, pc>>,
         NEW c \in Client, NEW q \in Seq(Event), Len(q) <= Len(Queued(c)),
         \/ queues' = Shortened(c, q)
         \/ queues' = EraseQueue(c) /\ q = << >>,
         pending' = pending - Len(Queued(c)) + Len(q),
         sequence' \in [Client -> 0..MaxSequence]
  PROVE  /\ IInv' /\ Queued(c)' = q
         /\ \A d \in Client \ {c} : Queued(d)' = Queued(d)
<1>1. /\ \E S \in SUBSET Client : queues' \in [S -> Seq(Event)]
      /\ Queued(c)' = q
      /\ \A d \in Client \ {c} : Queued(d)' = Queued(d)
  BY QueueMap DEF IInv
<1>2. /\ pending \in Nat /\ Len(q) \in Nat
      /\ \A d \in Client : Len(Queued(d)) \in Nat /\ Len(Queued(d)) <= MaxPerClient
      /\ pending <= MaxPending
  BY QueueTypes, SMTT(40) DEF IInv, TypeOK, CountsAgree
<1>3. pending' = TotalEvents(AllQueues)' /\ pending' \in Nat
  BY <1>1, CountFollows DEF IInv
<1>4. CountsAgree'
  <2>1. pending' <= MaxPending
    BY <1>2, LimitsAssumption
  <2>2. \A d \in Client : Len(Queued(d)') <= MaxPerClient
    BY <1>1, <1>2, LimitsAssumption
  <2> QED BY <1>3, <2>1, <2>2 DEF CountsAgree
<1> QED BY <1>1, <1>3, <1>4, IdleKeeps

LEMMA PopKeeps ==
  ASSUME IInv, NEW c \in Client, pop_event(c)
  PROVE  /\ IInv' /\ Queued(c) # << >> /\ Queued(c)' = Tail(Queued(c))
         /\ \A d \in Client \ {c} : Queued(d)' = Queued(d)
<1>1. /\ pc = "idle" /\ queues[c] # << >> /\ queues[c] = Queued(c)
      /\ queues' = Shortened(c, Tail(Queued(c)))
      /\ pending' = pending - 1 /\ UNCHANGED <<sequence, events, index, pc>>
  BY DEF pop_event, Queued
<1>2. Queued(c) \in Seq(Event) /\ Len(Queued(c)) \in Nat /\ pending \in Nat
  BY QueueTypes DEF IInv, TypeOK
<1> PICK q : q = Tail(Queued(c))
  OBVIOUS
<1>3. q \in Seq(Event) /\ Len(q) = Len(Queued(c)) - 1
  BY <1>1, <1>2
<1>4. pending' = pending - Len(Queued(c)) + Len(q) /\ Len(q) <= Len(Queued(c))
  BY <1>1, <1>2, <1>3
<1>5. sequence' \in [Client -> 0..MaxSequence]
  BY <1>1 DEF IInv, TypeOK
<1> QED BY <1>1, <1>3, <1>4, <1>5, ShorterKeeps

LEMMA DisconnectKeeps ==
  ASSUME IInv, NEW c \in Client, disconnect_client(c)
  PROVE  /\ IInv' /\ Queued(c)' = << >>
         /\ \A d \in Client \ {c} : Queued(d)' = Queued(d)
<1>1. /\ pc = "idle" /\ queues' = EraseQueue(c) /\ pending' = pending - Len(Queued(c))
      /\ sequence' = [sequence EXCEPT ![c] = 0] /\ UNCHANGED <<events, index, pc>>
  BY DEF disconnect_client
<1>2. Len(Queued(c)) \in Nat /\ pending \in Nat
  BY QueueTypes DEF IInv, TypeOK
<1> PICK q : q = << >>
  OBVIOUS
<1>3. q \in Seq(Event) /\ Len(q) = 0
  OBVIOUS
<1>4. sequence' \in [Client -> 0..MaxSequence]
  BY <1>1, QueueAssumption DEF IInv, TypeOK
<1>5. pending' = pending - Len(Queued(c)) + Len(q) /\ Len(q) <= Len(Queued(c))
  BY <1>1, <1>2, <1>3
<1> QED BY <1>1, <1>3, <1>4, <1>5, ShorterKeeps

LEMMA NoteKeeps ==
  ASSUME IInv, NEW c \in Client, note_client_sequence(c)
  PROVE  IInv' /\ \A d \in Client : Queued(d)' = Queued(d)
<1>1. /\ pc = "idle" /\ sequence[c] < MaxSequence
      /\ sequence' = [sequence EXCEPT ![c] = @ + 1]
      /\ UNCHANGED <<queues, pending, events, index, pc>>
  BY DEF note_client_sequence
<1>2. /\ \E S \in SUBSET Client : queues' \in [S -> Seq(Event)]
      /\ \A d \in Client : Queued(d)' = Queued(d)
  BY <1>1 DEF IInv, TypeOK, Queued
<1>3. CountsAgree' /\ pending' \in Nat
  <2>1. AllQueues' = AllQueues
    BY <1>2 DEF AllQueues
  <2> QED BY <1>1, <1>2, <2>1 DEF IInv, CountsAgree, TypeOK
<1>4. sequence' \in [Client -> 0..MaxSequence]
  BY <1>1, QueueAssumption DEF IInv, TypeOK
<1> QED BY <1>1, <1>2, <1>3, <1>4, IdleKeeps

LEMMA StutterKeeps ==
  ASSUME IInv, UNCHANGED vars
  PROVE  IInv'
BY ZenonT(60)
   DEF vars, IInv, TypeOK, CountsAgree, RestHasRoom, PushedAtTheEnd, CallUnderWay, AllQueues,
       Queued, Pushed, Additions, Among

(***************************************************************************)
(* The invariant is inductive.                                             *)
(***************************************************************************)
THEOREM Inductive == Spec => []IInv
<1>1. IInv /\ [Next]_vars => IInv'
  <2> SUFFICES ASSUME IInv, [Next]_vars PROVE IInv'
    OBVIOUS
  <2>1. ASSUME NEW plan \in Plans, Refuse(plan) \/ Begin(plan) PROVE IInv'
    BY <2>1, BeginKeeps, StutterKeeps DEF Refuse
  <2>2. CASE Push \/ PushFails \/ Undo
    BY <2>2, PushKeeps, PushFailsKeeps, UndoKeeps
  <2>3. ASSUME NEW e \in PlannedEvent, QueueOne(e) \/ QueueOneFails(e) PROVE IInv'
    BY <2>3, QueueOneKeeps, QueueOneFailsKeeps
  <2>4. ASSUME NEW c \in Client,
               pop_event(c) \/ note_client_sequence(c) \/ disconnect_client(c)
        PROVE  IInv'
    BY <2>4, PopKeeps, NoteKeeps, DisconnectKeeps
  <2>5. CASE UNCHANGED vars
    BY <2>5, StutterKeeps
  <2> QED BY <2>1, <2>2, <2>3, <2>4, <2>5 DEF Next
<1> QED BY <1>1, InitIsInductive, PTL DEF Spec

(***************************************************************************)
(* The state of the queues, of the call and of the counter has its types.  *)
(***************************************************************************)
THEOREM TypesAreKept == Spec => []TypeOK
<1>1. IInv => TypeOK
  BY DEF IInv
<1> QED BY <1>1, Inductive, PTL

(***************************************************************************)
(* pending_events_ counts the queued events exactly and neither limit is   *)
(* passed, at every push, failure and roll-back.                           *)
(***************************************************************************)
THEOREM CountIsExact == Spec => []CountsAgree
<1>1. IInv => CountsAgree
  BY DEF IInv
<1> QED BY <1>1, Inductive, PTL

(***************************************************************************)
(* Once a plan has passed the check up front, queue_event finds room for   *)
(* each of its events.                                                     *)
(***************************************************************************)
THEOREM PushesFindRoom == Spec => []NoPushRefused
<1>1. IInv => NoPushRefused
  <2> SUFFICES ASSUME IInv, pc = "push" PROVE can_queue_event(events[index + 1].to)
    BY DEF NoPushRefused
  <2> PICK c : c = events[index + 1].to
    OBVIOUS
  <2>1. /\ index \in Nat /\ index < Len(events) /\ Len(events) \in Nat
        /\ events \in Seq(PlannedEvent)
    BY DEF IInv, TypeOK, RestHasRoom
  <2>2. c \in Client
    <3>1. events[index + 1] \in PlannedEvent
      BY <2>1
    <3> QED BY <3>1 DEF PlannedEvent
  <2>3. Additions(events, index + 1) = Pushed(c) + 1 /\ Pushed(c) \in Nat
    BY <2>1, CountOfMore DEF Additions, Pushed
  <2>4. /\ Len(events) - index <= MaxPending - pending
        /\ Additions(events, index + 1) - Pushed(c) <= MaxPerClient - Len(Queued(c))
    BY <2>1 DEF IInv, RestHasRoom
  <2>5. pending \in Nat /\ Len(Queued(c)) \in Nat
    BY <2>2, QueueTypes DEF IInv, TypeOK
  <2> QED BY <2>1, <2>3, <2>4, <2>5, LimitsAssumption DEF can_queue_event
<1> QED BY <1>1, Inductive, PTL
-----------------------------------------------------------------------------
(***************************************************************************)
(* The pushes implement AtomicQueues.  What can be seen of a queue is what *)
(* was there before the call; between two calls it is all of it.           *)
(***************************************************************************)
LEMMA VisibleFacts ==
  ASSUME IInv, NEW c \in Client
  PROVE  /\ Visible(c) \in Seq(Event)
         /\ Len(Visible(c)) = Len(Queued(c)) - Pushed(c)
         /\ \A i \in 1..Len(Visible(c)) : Visible(c)[i] = Queued(c)[i]
         /\ Pushed(c) = 0 => Visible(c) = Queued(c)
         /\ VisibleQueues[c] = Visible(c)
<1>1. /\ Queued(c) \in Seq(Event) /\ Len(Queued(c)) \in Nat
      /\ Pushed(c) \in Nat /\ Pushed(c) <= Len(Queued(c))
  BY QueueTypes, PushedCount DEF IInv, PushedAtTheEnd
<1> PICK n : n = Len(Queued(c)) - Pushed(c)
  OBVIOUS
<1>2. n \in 0..Len(Queued(c))
  BY <1>1
<1>3. /\ SubSeq(Queued(c), 1, n) \in Seq(Event)
      /\ Len(SubSeq(Queued(c), 1, n)) = n
      /\ \A i \in 1..n : SubSeq(Queued(c), 1, n)[i] = Queued(c)[i]
  BY <1>1, <1>2
<1>4. n = Len(Queued(c)) => SubSeq(Queued(c), 1, n) = Queued(c)
  BY <1>1, <1>3
<1> QED BY <1>1, <1>3, <1>4 DEF Visible, VisibleQueues

LEMMA ListOfKinds ==
  \A n \in Nat : \A f \in [1..n -> Kinds] : f \in Seq(Kinds) /\ Len(f) = n
BY FunctionIsList, Zenon

(***************************************************************************)
(* A queue that has grown at its end by events with the present number is  *)
(* the queue with their kinds stamped and appended.                        *)
(***************************************************************************)
GrowsBy(before, after, number) ==
  /\ Len(before) <= Len(after)
  /\ \A i \in 1..Len(before) : after[i] = before[i]
  /\ \A i \in Len(before) + 1 .. Len(after) : after[i].sequence = number

LEMMA GrowthOfOne ==
  ASSUME NEW before \in Seq(Event), NEW after \in Seq(Event), NEW number,
         GrowsBy(before, after, number)
  PROVE  /\ Abstract!Added(before, after) \in Seq(Kinds)
         /\ Len(Abstract!Added(before, after)) = Len(after) - Len(before)
         /\ after = before \o Stamped(Abstract!Added(before, after), number)
<1> USE DEF GrowsBy
<1> PICK n : n = Len(after) - Len(before)
  OBVIOUS
<1> PICK rest : rest = [i \in 1..n |-> after[Len(before) + i]]
  OBVIOUS
<1> PICK kinds : kinds = [i \in 1..n |-> after[Len(before) + i].type]
  OBVIOUS
<1>1. Len(before) \in Nat /\ n \in Nat /\ Len(after) = Len(before) + n
  BY LenProperties
<1>2. after = before \o rest
  BY <1>1, SplitList
<1>3. ASSUME NEW i \in 1..n
      PROVE  /\ after[Len(before) + i].type \in Kinds
             /\ after[Len(before) + i] = [type |-> after[Len(before) + i].type, sequence |-> number]
  <2> PICK j : j = Len(before) + i
    OBVIOUS
  <2>1. j \in 1..Len(after) /\ j \in Len(before) + 1 .. Len(after)
    BY <1>1
  <2>2. after[j] \in Event /\ after[j].sequence = number
    BY <2>1, ElementOfSeq
  <2>3. \A e \in Event : e.type \in Kinds /\ e = [type |-> e.type, sequence |-> e.sequence]
    BY DEF Event
  <2> QED BY <2>2, <2>3, Zenon
<1>4. kinds \in [1..n -> Kinds]
  BY <1>3
<1>5. kinds \in Seq(Kinds) /\ Len(kinds) = n
  BY <1>1, <1>4, ListOfKinds, Zenon
<1>6. rest = Stamped(kinds, number)
  BY <1>3, <1>5 DEF Stamped
<1>7. kinds = Abstract!Added(before, after)
  BY DEF Abstract!Added
<1> QED BY <1>2, <1>5, <1>6, <1>7

(***************************************************************************)
(* Queues within the limits that a plan was appended to: the plan fitted.  *)
(***************************************************************************)
LEMMA AppendedHasFitted ==
  ASSUME NEW before \in Lists(Event), NEW after \in Lists(Event), NEW plan \in Lists(Kinds),
         \A c \in Client : Len(plan[c]) = Len(after[c]) - Len(before[c]),
         \A c \in Client : Len(after[c]) <= MaxPerClient,
         TotalEvents(after) <= MaxPending
  PROVE  Fits(before, TotalEvents(before), plan)
<1>1. ASSUME NEW c \in Client
      PROVE  /\ Len(after[c]) = Len(before[c]) + Len(plan[c])
             /\ Len(plan[c]) <= MaxPerClient - Len(before[c])
  <2>1. before[c] \in Seq(Event) /\ after[c] \in Seq(Event) /\ plan[c] \in Seq(Kinds)
    BY DEF Lists
  <2>2. Len(before[c]) \in Nat /\ Len(after[c]) \in Nat /\ Len(plan[c]) \in Nat
    BY <2>1, LenProperties
  <2>3. \A k, m, n \in Nat : k = n - m /\ n <= MaxPerClient =>
          n = m + k /\ k <= MaxPerClient - m
    BY LimitsAssumption
  <2>4. Len(plan[c]) = Len(after[c]) - Len(before[c]) /\ Len(after[c]) <= MaxPerClient
    OBVIOUS
  <2> QED BY <2>2, <2>3, <2>4, Zenon
<1>2. TotalEvents(after) = TotalEvents(before) + TotalEvents(plan)
  <2>1. LengthsAdd(before, plan, after)
    BY <1>1 DEF LengthsAdd
  <2> QED BY <2>1, TotalOfSum
<1>3. TotalEvents(before) \in Nat /\ TotalEvents(plan) \in Nat
  BY PlacesFinite
<1>4. TotalEvents(plan) <= MaxPending - TotalEvents(before)
  BY <1>2, <1>3, LimitsAssumption, SMTT(40)
<1> QED BY <1>1, <1>4 DEF Fits

(***************************************************************************)
(* Queues that grow in this way within the limits are a plan delivered.    *)
(***************************************************************************)
GrowWithinLimits(before, after, numbers) ==
  /\ TotalEvents(after) <= MaxPending
  /\ \A c \in Client :
       /\ Len(before[c]) <= Len(after[c]) /\ Len(after[c]) <= MaxPerClient
       /\ \A i \in 1..Len(before[c]) : after[c][i] = before[c][i]
       /\ \A i \in Len(before[c]) + 1 .. Len(after[c]) : after[c][i].sequence = numbers[c]

LEMMA GrowthIsDelivery ==
  ASSUME NEW before \in Lists(Event), NEW after \in Lists(Event), NEW numbers,
         GrowWithinLimits(before, after, numbers)
  PROVE  \E plan \in Lists(Kinds) :
           /\ plan = [c \in Client |-> Abstract!Added(before[c], after[c])]
           /\ Fits(before, TotalEvents(before), plan)
           /\ after = Deliver(before, plan, numbers)
<1>1. ASSUME NEW c \in Client
      PROVE  /\ Abstract!Added(before[c], after[c]) \in Seq(Kinds)
             /\ Len(Abstract!Added(before[c], after[c])) = Len(after[c]) - Len(before[c])
             /\ after[c] = before[c] \o Stamped(Abstract!Added(before[c], after[c]), numbers[c])
  <2>1. before[c] \in Seq(Event) /\ after[c] \in Seq(Event)
    BY DEF Lists
  <2> PICK x, y, z : x = before[c] /\ y = after[c] /\ z = numbers[c]
    OBVIOUS
  <2>2. x \in Seq(Event) /\ y \in Seq(Event) /\ GrowsBy(x, y, z)
    BY <2>1, Zenon DEF GrowWithinLimits, GrowsBy
  <2>3. /\ Abstract!Added(x, y) \in Seq(Kinds)
        /\ Len(Abstract!Added(x, y)) = Len(y) - Len(x)
        /\ y = x \o Stamped(Abstract!Added(x, y), z)
    BY <2>2, GrowthOfOne, ZenonT(60)
  <2> QED BY <2>3, Zenon
<1> PICK plan : plan = [c \in Client |-> Abstract!Added(before[c], after[c])]
  OBVIOUS
<1>2. /\ \A c \in Client : plan[c] = Abstract!Added(before[c], after[c])
      /\ plan = [c \in Client |-> plan[c]]
  BY Zenon
<1>3. plan \in Lists(Kinds)
  <2>1. \A c \in Client : plan[c] \in Seq(Kinds)
    BY <1>1, <1>2, Zenon
  <2>2. plan \in [Client -> Seq(Kinds)]
    BY <1>2, <2>1, Zenon
  <2> QED BY <2>2, Zenon DEF Lists
<1>4. \A c \in Client : /\ Len(plan[c]) = Len(after[c]) - Len(before[c])
                        /\ after[c] = before[c] \o Stamped(plan[c], numbers[c])
  BY <1>1, <1>2, Zenon
<1>5. Fits(before, TotalEvents(before), plan)
  <2> HIDE <1>2
  <2>1. TotalEvents(after) <= MaxPending /\ \A c \in Client : Len(after[c]) <= MaxPerClient
    BY DEF GrowWithinLimits
  <2> QED BY <1>3, <1>4, <2>1, AppendedHasFitted, Zenon
<1>6. after = Deliver(before, plan, numbers)
  <2>1. after = [c \in Client |-> after[c]]
    BY DEF Lists
  <2>2. after = [c \in Client |-> before[c] \o Stamped(plan[c], numbers[c])]
    BY <1>4, <2>1, Zenon
  <2> QED BY <2>2, Zenon DEF Deliver
<1> QED BY <1>3, <1>5, <1>6

(***************************************************************************)
(* The same facts after a step; a queue whose changes are beyond what can  *)
(* be seen of it looks the same.                                           *)
(***************************************************************************)
LEMMA VisibleAlways ==
  IInv => \A c \in Client :
            /\ Visible(c) \in Seq(Event)
            /\ Len(Visible(c)) = Len(Queued(c)) - Pushed(c)
            /\ \A i \in 1..Len(Visible(c)) : Visible(c)[i] = Queued(c)[i]
            /\ Pushed(c) = 0 => Visible(c) = Queued(c)
            /\ VisibleQueues[c] = Visible(c)
BY VisibleFacts

LEMMA VisibleNext ==
  IInv' => \A c \in Client :
             /\ Visible(c)' \in Seq(Event)
             /\ Len(Visible(c)') = Len(Queued(c)') - Pushed(c)'
             /\ \A i \in 1..Len(Visible(c)') : Visible(c)'[i] = Queued(c)'[i]
             /\ Pushed(c)' = 0 => Visible(c)' = Queued(c)'
             /\ VisibleQueues'[c] = Visible(c)'
<1>1. (IInv => \A c \in Client :
            /\ Visible(c) \in Seq(Event)
            /\ Len(Visible(c)) = Len(Queued(c)) - Pushed(c)
            /\ \A i \in 1..Len(Visible(c)) : Visible(c)[i] = Queued(c)[i]
            /\ Pushed(c) = 0 => Visible(c) = Queued(c)
            /\ VisibleQueues[c] = Visible(c))'
  BY VisibleAlways, PTL
<1> QED BY <1>1

LEMMA SeenAlike ==
  ASSUME IInv, IInv', NEW c \in Client,
         Len(Queued(c)') - Pushed(c)' = Len(Queued(c)) - Pushed(c),
         \A i \in 1..Len(Queued(c)) - Pushed(c) : Queued(c)'[i] = Queued(c)[i]
  PROVE  Visible(c)' = Visible(c)
<1> PICK x, y : x = Visible(c) /\ y = Visible(c)'
  OBVIOUS
<1>1. /\ x \in Seq(Event) /\ Len(x) = Len(Queued(c)) - Pushed(c)
      /\ \A i \in 1..Len(x) : x[i] = Queued(c)[i]
  BY VisibleAlways
<1>2. /\ y \in Seq(Event) /\ Len(y) = Len(Queued(c)') - Pushed(c)'
      /\ \A i \in 1..Len(y) : y[i] = Queued(c)'[i]
  BY VisibleNext
<1>3. Len(x) = Len(y) /\ \A i \in 1..Len(x) : x[i] = y[i]
  BY <1>1, <1>2
<1> QED BY <1>1, <1>2, <1>3, SeqEqual

(***************************************************************************)
(* Steps that add or take back pushed events alone are stutters.           *)
(***************************************************************************)
SeemUnchanged ==
  \A c \in Client :
    /\ Len(Queued(c)') - Pushed(c)' = Len(Queued(c)) - Pushed(c)
    /\ \A i \in 1..Len(Queued(c)) - Pushed(c) : Queued(c)'[i] = Queued(c)[i]

LEMMA UnseenIsStutter ==
  ASSUME IInv, IInv', UNCHANGED sequence, SeemUnchanged
  PROVE  UNCHANGED <<VisibleQueues, sequence>>
<1>1. \A c \in Client : Visible(c)' = Visible(c)
  BY SeenAlike DEF SeemUnchanged
<1> QED BY <1>1 DEF VisibleQueues

LEMMA NoQueueChanges ==
  ASSUME IInv, \A c \in Client : Queued(c)' = Queued(c) /\ Pushed(c)' = Pushed(c)
  PROVE  SeemUnchanged
<1>1. \A c \in Client : Len(Queued(c)') = Len(Queued(c))
  BY Zenon
<1> QED BY <1>1 DEF SeemUnchanged

LEMMA PushesUnseen ==
  ASSUME IInv, Push, pc' = "push"
  PROVE  SeemUnchanged /\ UNCHANGED sequence
<1> PICK e, c : e = events[index + 1] /\ c = e.to
  OBVIOUS
<1> PICK new : new = [type |-> e.type, sequence |-> sequence[c]]
  OBVIOUS
<1>1. /\ index \in Nat /\ events \in Seq(PlannedEvent) /\ e \in PlannedEvent /\ c \in Client
      /\ Len(events) \in Nat
  <2>1. index \in 0..Len(events) /\ index < Len(events) /\ events \in Seq(PlannedEvent)
    BY DEF IInv, TypeOK, RestHasRoom, Push
  <2>2. e \in PlannedEvent
    BY <2>1
  <2> QED BY <2>1, <2>2 DEF PlannedEvent
<1>2. queue_event(e) /\ UNCHANGED sequence /\ events' = events /\ index' = index + 1
  BY DEF Push, Goto
<1>3. /\ Queued(c)' = Append(Queued(c), new)
      /\ \A d \in Client \ {c} : Queued(d)' = Queued(d)
      /\ Len(Queued(c)') = Len(Queued(c)) + 1
  BY <1>1, <1>2, PushFacts
<1>4. \A d \in Client : Pushed(d)' = IF d = c THEN Pushed(d) + 1 ELSE Pushed(d)
  <2>1. \A d \in Client : Cardinality(Among(events, index + 1, d)) =
          IF c = d THEN Cardinality(Among(events, index, d)) + 1
          ELSE Cardinality(Among(events, index, d))
    BY <1>1, CountOfMore, SMTT(40)
  <2> QED BY <1>2, <2>1 DEF Pushed
<1>5. \A d \in Client : Pushed(d) \in Nat /\ Len(Queued(d)) \in Nat /\ Queued(d) \in Seq(Event)
  BY PushedCount, QueueTypes DEF IInv
<1>6. ASSUME NEW d \in Client
      PROVE  /\ Len(Queued(d)') - Pushed(d)' = Len(Queued(d)) - Pushed(d)
             /\ \A i \in 1..Len(Queued(d)) - Pushed(d) : Queued(d)'[i] = Queued(d)[i]
  <2>1. CASE d = c
    <3>1. Len(Queued(d)') = Len(Queued(d)) + 1 /\ Pushed(d)' = Pushed(d) + 1
      BY <1>3, <1>4, <2>1
    <3>2. \A i \in 1..Len(Queued(d)) : Queued(d)'[i] = Queued(d)[i]
      BY <1>3, <1>5, <2>1
    <3> QED BY <1>5, <3>1, <3>2
  <2>2. CASE d # c
    BY <1>3, <1>4, <2>2
  <2> QED BY <2>1, <2>2
<1> QED BY <1>2, <1>6 DEF SeemUnchanged

LEMMA UndoUnseen ==
  ASSUME IInv, Undo
  PROVE  SeemUnchanged /\ UNCHANGED sequence
<1> PICK c : c = events[index].to
  OBVIOUS
<1>1. /\ index \in Nat /\ index > 0 /\ index <= Len(events)
      /\ Len(events) \in Nat /\ events \in Seq(PlannedEvent)
      /\ c \in Client /\ c \in DOMAIN queues /\ queues[c] = Queued(c)
      /\ Queued(c) \in Seq(Event) /\ Len(Queued(c)) > 0
      /\ \A d \in Client : Cardinality(Among(events, index - 1, d)) =
           IF d = c THEN Pushed(d) - 1 ELSE Pushed(d)
  BY UndoFacts DEF Undo
<1> PICK q : q = Front(Queued(c))
  OBVIOUS
<1>2. /\ q \in Seq(Event) /\ Len(q) = Len(Queued(c)) - 1
      /\ \A i \in 1..Len(q) : q[i] = Queued(c)[i]
  BY <1>1 DEF Front
<1>3. Queued(c)' = q /\ \A d \in Client \ {c} : Queued(d)' = Queued(d)
  <2>1. queues' = Shortened(c, q)
    BY <1>1 DEF Undo
  <2> QED BY <1>1, <1>2, <2>1, QueueMap DEF IInv
<1>4. \A d \in Client : Pushed(d)' = IF d = c THEN Pushed(d) - 1 ELSE Pushed(d)
  <2>1. CASE index = 1
    <3>1. events' = << >> /\ index' = 0 /\ index - 1 = 0
      BY <2>1 DEF Undo, Goto
    <3>2. \A d \in Client : Pushed(d)' = 0 /\ Cardinality(Among(events, index - 1, d)) = 0
      BY <3>1, NoneAmongNone DEF Pushed
    <3> QED BY <1>1, <3>2
  <2>2. CASE index # 1
    <3>1. events' = events /\ index' = index - 1
      BY <2>2 DEF Undo, Goto
    <3> QED BY <1>1, <3>1 DEF Pushed
  <2> QED BY <2>1, <2>2
<1>5. \A d \in Client : Pushed(d) \in Nat /\ Len(Queued(d)) \in Nat
  BY PushedCount, QueueTypes DEF IInv
<1>6. ASSUME NEW d \in Client
      PROVE  /\ Len(Queued(d)') - Pushed(d)' = Len(Queued(d)) - Pushed(d)
             /\ \A i \in 1..Len(Queued(d)) - Pushed(d) : Queued(d)'[i] = Queued(d)[i]
  <2>1. CASE d = c
    <3>1. Pushed(c)' = Pushed(c) - 1
      BY <1>1, <1>4
    <3>2. Pushed(c)' \in Nat
      <4>1. Cardinality(Among(events, index - 1, c)) \in Nat
        BY <1>1, CountOfMore
      <4>2. Pushed(c)' = Cardinality(Among(events, index - 1, c))
        BY <1>1, <3>1
      <4> QED BY <4>1, <4>2
    <3>3. Len(Queued(c)') = Len(Queued(c)) - 1
      BY <1>2, <1>3
    <3>4. \A i \in 1..Len(Queued(c)) - 1 : Queued(c)'[i] = Queued(c)[i]
      BY <1>2, <1>3
    <3> QED BY <1>1, <1>5, <2>1, <3>1, <3>2, <3>3, <3>4, SMTT(40)
  <2>2. CASE d # c
    BY <1>3, <1>4, <2>2
  <2> QED BY <2>1, <2>2
<1> QED BY <1>6 DEF SeemUnchanged, Undo

LEMMA CallUnseen ==
  ASSUME IInv, IInv',
         \/ \E plan \in Plans : Begin(plan)
         \/ Push /\ pc' = "push"
         \/ PushFails \/ Undo
         \/ \E e \in PlannedEvent : QueueOneFails(e)
  PROVE  UNCHANGED <<VisibleQueues, sequence>>
<1>1. ASSUME NEW plan \in Plans, Begin(plan) PROVE SeemUnchanged /\ UNCHANGED sequence
  <2>1. UNCHANGED <<queues, sequence>> /\ index' = 0 /\ index = 0
    BY <1>1, IdleFacts DEF Begin, Goto
  <2>2. \A c \in Client : Queued(c)' = Queued(c)
    BY <2>1 DEF Queued
  <2>3. \A c \in Client : Pushed(c)' = Pushed(c)
    BY <2>1, NoneAmongNone DEF Pushed
  <2> QED BY <2>1, <2>2, <2>3, NoQueueChanges
<1>2. ASSUME PushFails PROVE SeemUnchanged /\ UNCHANGED sequence
  <2>1. /\ \A c \in Client : Queued(c)' = Queued(c)
        /\ pc' = "undo" => UNCHANGED <<events, index>>
        /\ pc' = "idle" => index = 0 /\ index' = 0
        /\ pc' \in {"idle", "undo"} /\ UNCHANGED sequence
    BY <1>2, PushFailsKeeps
  <2>2. \A c \in Client : Pushed(c)' = Pushed(c)
    <3>1. CASE pc' = "undo"
      BY <2>1, <3>1 DEF Pushed
    <3>2. CASE pc' = "idle"
      BY <2>1, <3>2, NoneAmongNone DEF Pushed
    <3> QED BY <2>1, <3>1, <3>2
  <2> QED BY <2>1, <2>2, NoQueueChanges
<1>3. ASSUME NEW e \in PlannedEvent, QueueOneFails(e) PROVE SeemUnchanged /\ UNCHANGED sequence
  <2>1. \A c \in Client : Queued(c)' = Queued(c)
    BY <1>3, QueueOneFailsKeeps
  <2>2. UNCHANGED <<sequence, events, index>>
    BY <1>3 DEF QueueOneFails
  <2>3. \A c \in Client : Pushed(c)' = Pushed(c)
    BY <2>2 DEF Pushed
  <2> QED BY <2>1, <2>2, <2>3, NoQueueChanges
<1>4. SeemUnchanged /\ UNCHANGED sequence
  BY <1>1, <1>2, <1>3, PushesUnseen, UndoUnseen
<1> QED BY <1>4, UnseenIsStutter

(***************************************************************************)
(* When a call ends with its last push, its events are seen all at once:   *)
(* the next state of the visible queues is the delivery of its plan.       *)
(***************************************************************************)
GrowByStamped ==
  \A c \in Client :
    /\ Len(Queued(c)) - Pushed(c) <= Len(Queued(c)')
    /\ \A i \in 1..Len(Queued(c)) - Pushed(c) : Queued(c)'[i] = Queued(c)[i]
    /\ \A i \in Len(Queued(c)) - Pushed(c) + 1 .. Len(Queued(c)') :
         Queued(c)'[i].sequence = sequence[c]

(* The operators of EventPlan are those AtomicQueues knows. *)
LEMMA SameOperators ==
  /\ \A q : Abstract!TotalEvents(q) = TotalEvents(q)
  /\ \A q, n, plan : Abstract!Fits(q, n, plan) <=> Fits(q, n, plan)
  /\ \A q, plan, numbers : Abstract!Deliver(q, plan, numbers) = Deliver(q, plan, numbers)
<1>1. \A q : Abstract!TotalEvents(q) = TotalEvents(q)
  <2>1. ASSUME NEW q PROVE Abstract!Places(q) = Places(q)
    <3>1. \A x : x \in Abstract!Places(q) <=> \E c \in Client : x \in {c} \X DOMAIN q[c]
      BY DEF Abstract!Places
    <3>2. \A x : x \in Places(q) <=> \E c \in Client : x \in {c} \X DOMAIN q[c]
      BY DEF Places
    <3> QED BY <3>1, <3>2
  <2>2. \A S : Abstract!Cardinality(S) = Cardinality(S)
    BY Zenon DEF Abstract!Cardinality, Cardinality
  <2> QED BY <2>1, <2>2, Zenon DEF Abstract!TotalEvents, TotalEvents
<1>2. \A q, n, plan : Abstract!Fits(q, n, plan) <=> Fits(q, n, plan)
  BY <1>1 DEF Abstract!Fits, Fits
<1>3. \A q, plan, numbers : Abstract!Deliver(q, plan, numbers) = Deliver(q, plan, numbers)
  BY DEF Abstract!Deliver, Deliver, Abstract!Stamped, Stamped
<1> QED BY <1>1, <1>2, <1>3

LEMMA GrownIsTransact ==
  ASSUME IInv, IInv', pc' = "idle", UNCHANGED sequence, GrowByStamped
  PROVE  Abstract!Transact
<1> PICK before, after : before = VisibleQueues /\ after = VisibleQueues'
  OBVIOUS
<1>1. \A c \in Client : Pushed(c)' = 0
  <2>1. events' = << >> /\ index' \in 0..Len(events')
    BY DEF IInv, TypeOK, CallUnderWay
  <2>2. index' = 0
    BY <2>1
  <2> QED BY <2>2, NoneAmongNone DEF Pushed
<1>2. \A c \in Client : /\ before[c] \in Seq(Event)
                        /\ Len(before[c]) = Len(Queued(c)) - Pushed(c)
                        /\ \A i \in 1..Len(before[c]) : before[c][i] = Queued(c)[i]
  BY VisibleAlways
<1>3. \A c \in Client : after[c] = Queued(c)' /\ after[c] \in Seq(Event)
  BY <1>1, VisibleNext
<1>4. before \in Lists(Event) /\ after \in Lists(Event)
  <2>1. before = [c \in Client |-> before[c]] /\ after = [c \in Client |-> after[c]]
    BY DEF VisibleQueues
  <2>2. before \in [Client -> Seq(Event)]
    BY <1>2, <2>1, Zenon
  <2>3. after \in [Client -> Seq(Event)]
    BY <1>3, <2>1, Zenon
  <2> QED BY <2>2, <2>3 DEF Lists
<1>5. TotalEvents(after) <= MaxPending /\ \A c \in Client : Len(after[c]) <= MaxPerClient
  <2>1. after = AllQueues'
    BY <1>3, <1>4 DEF AllQueues, Lists
  <2>2. /\ pending' = TotalEvents(AllQueues') /\ pending' <= MaxPending
        /\ \A c \in Client : Len(Queued(c)') <= MaxPerClient
    BY DEF IInv, CountsAgree
  <2> QED BY <1>3, <2>1, <2>2
<1>6. ASSUME NEW c \in Client
      PROVE  /\ Len(before[c]) <= Len(after[c]) /\ Len(after[c]) <= MaxPerClient
             /\ \A i \in 1..Len(before[c]) : after[c][i] = before[c][i]
             /\ \A i \in Len(before[c]) + 1 .. Len(after[c]) : after[c][i].sequence = sequence[c]
  BY <1>2, <1>3, <1>5 DEF GrowByStamped
<1>7. PICK plan \in Lists(Kinds) :
        /\ plan = [c \in Client |-> Abstract!Added(before[c], after[c])]
        /\ Fits(before, TotalEvents(before), plan)
        /\ after = Deliver(before, plan, sequence)
  <2>1. GrowWithinLimits(before, after, sequence)
    BY <1>5, <1>6 DEF GrowWithinLimits
  <2> QED BY <1>4, <2>1, GrowthIsDelivery
<1>8. \A c \in Client : Len(after[c]) >= Len(before[c])
  <2>1. \A c \in Client : Len(after[c]) \in Nat /\ Len(before[c]) \in Nat
    BY <1>2, <1>3, LenProperties
  <2> QED BY <1>6, <2>1
<1>9. Abstract!IsPlan(plan)
  BY DEF Abstract!IsPlan, Lists
<1>10. /\ plan = [c \in Client |-> Abstract!Added(VisibleQueues[c], VisibleQueues'[c])]
       /\ Fits(VisibleQueues, TotalEvents(VisibleQueues), plan)
       /\ VisibleQueues' = Deliver(VisibleQueues, plan, sequence)
       /\ \A c \in Client : Len(VisibleQueues'[c]) >= Len(VisibleQueues[c])
  BY <1>7, <1>8
<1> DEFINE grown == [c \in Client |-> Abstract!Added(VisibleQueues[c], VisibleQueues'[c])]
<1>11. plan = grown
  BY <1>10
<1>12. /\ Abstract!IsPlan(grown)
       /\ Abstract!Fits(VisibleQueues, Abstract!TotalEvents(VisibleQueues), grown)
       /\ VisibleQueues' = Abstract!Deliver(VisibleQueues, grown, sequence)
       /\ UNCHANGED sequence
  BY <1>9, <1>10, <1>11, SameOperators, Zenon
<1> QED BY ONLY <1>10, <1>12, Zenon DEF Abstract!Transact

LEMMA PushSeen ==
  ASSUME IInv, NEW e \in PlannedEvent, queue_event(e), UNCHANGED sequence
  PROVE  GrowByStamped
<1> PICK c : c = e.to
  OBVIOUS
<1> PICK new : new = [type |-> e.type, sequence |-> sequence[c]]
  OBVIOUS
<1>1. /\ Queued(c)' = Append(Queued(c), new)
      /\ \A d \in Client \ {c} : Queued(d)' = Queued(d)
      /\ Len(Queued(c)') = Len(Queued(c)) + 1
  BY PushFacts
<1> SUFFICES ASSUME NEW d \in Client
             PROVE  /\ Len(Queued(d)) - Pushed(d) <= Len(Queued(d)')
                    /\ \A i \in 1..Len(Queued(d)) - Pushed(d) : Queued(d)'[i] = Queued(d)[i]
                    /\ \A i \in Len(Queued(d)) - Pushed(d) + 1 .. Len(Queued(d)') :
                         Queued(d)'[i].sequence = sequence[d]
  BY DEF GrowByStamped
<1>2. Pushed(d) \in Nat /\ Len(Queued(d)) \in Nat /\ Queued(d) \in Seq(Event)
  BY PushedCount, QueueTypes DEF IInv
<1>3. \A i \in Len(Queued(d)) - Pushed(d) + 1 .. Len(Queued(d)) :
         Queued(d)[i].sequence = sequence[d]
  BY DEF IInv, PushedAtTheEnd
<1>4. CASE d # c
  BY <1>1, <1>2, <1>3, <1>4, SMTT(40)
<1>5. CASE d = c
  <2>1. /\ \A i \in 1..Len(Queued(d)) : Queued(d)'[i] = Queued(d)[i]
        /\ Queued(d)'[Len(Queued(d)) + 1] = new
    BY <1>1, <1>2, <1>5
  <2>2. Len(Queued(d)') = Len(Queued(d)) + 1 /\ new.sequence = sequence[d]
    BY <1>1, <1>5
  <2>3. PushedAtTheEnd => Pushed(d) <= Len(Queued(d))
    BY DEF PushedAtTheEnd
  <2>4. Pushed(d) <= Len(Queued(d))
    BY <2>3 DEF IInv
  <2>5. ASSUME NEW i \in Len(Queued(d)) - Pushed(d) + 1 .. Len(Queued(d)')
        PROVE  Queued(d)'[i].sequence = sequence[d]
    <3>1. CASE i = Len(Queued(d)) + 1
      BY <2>1, <2>2, <3>1
    <3>2. CASE i # Len(Queued(d)) + 1
      <4> PICK m, n : m = Len(Queued(d)) /\ n = Pushed(d)
        OBVIOUS
      <4>0. m \in Nat /\ n \in Nat /\ n <= m /\ i \in m - n + 1 .. m + 1 /\ i # m + 1
        BY <1>2, <2>2, <2>4, <3>2
      <4>1. i \in 1..m /\ i \in m - n + 1 .. m
        BY <4>0
      <4> QED BY <1>3, <2>1, <4>1
    <3> QED BY <3>1, <3>2
  <2>6. \A i \in 1..Len(Queued(d)) - Pushed(d) : i \in 1..Len(Queued(d))
    BY <1>2
  <2> QED BY <1>2, <2>1, <2>2, <2>5, <2>6
<1> QED BY <1>4, <1>5

(***************************************************************************)
(* The steps of the queues between two calls.                              *)
(***************************************************************************)
LEMMA IdleShowsAll ==
  ASSUME IInv, IInv', pc = "idle", UNCHANGED <<events, index, pc>>
  PROVE  /\ \A c \in Client : VisibleQueues[c] = Queued(c) /\ VisibleQueues'[c] = Queued(c)'
         /\ VisibleQueues = [c \in Client |-> VisibleQueues[c]]
         /\ VisibleQueues' = [c \in Client |-> VisibleQueues'[c]]
<1>1. \A c \in Client : Pushed(c) = 0 /\ Pushed(c)' = 0
  BY IdleFacts DEF Pushed
<1>2. \A c \in Client : VisibleQueues[c] = Queued(c)
  BY <1>1, VisibleAlways
<1>3. \A c \in Client : VisibleQueues'[c] = Queued(c)'
  BY <1>1, VisibleNext
<1> QED BY <1>2, <1>3 DEF VisibleQueues

LEMMA OneQueueChanges ==
  ASSUME IInv, IInv', pc = "idle", UNCHANGED <<events, index, pc>>,
         NEW c \in Client, NEW q, Queued(c)' = q,
         \A d \in Client \ {c} : Queued(d)' = Queued(d)
  PROVE  /\ VisibleQueues' = [VisibleQueues EXCEPT ![c] = q]
         /\ VisibleQueues[c] = Queued(c)
<1>1. /\ \A d \in Client : VisibleQueues[d] = Queued(d) /\ VisibleQueues'[d] = Queued(d)'
      /\ VisibleQueues = [d \in Client |-> VisibleQueues[d]]
      /\ VisibleQueues' = [d \in Client |-> VisibleQueues'[d]]
  BY IdleShowsAll
<1>2. \A d \in Client : VisibleQueues'[d] = IF d = c THEN q ELSE VisibleQueues[d]
  BY <1>1
<1> PICK before, after : before = VisibleQueues /\ after = VisibleQueues'
  OBVIOUS
<1>3. after = [d \in Client |-> IF d = c THEN q ELSE before[d]]
  BY <1>1, <1>2, Zenon
<1>4. [before EXCEPT ![c] = q] = [d \in Client |-> IF d = c THEN q ELSE before[d]]
  <2>1. before = [d \in Client |-> before[d]]
    BY <1>1, Zenon
  <2> QED BY <2>1
<1> QED BY <1>1, <1>3, <1>4

LEMMA BetweenCalls ==
  ASSUME IInv, IInv', NEW c \in Client
  PROVE  /\ pop_event(c) => Abstract!Pop(c)
         /\ disconnect_client(c) => Abstract!Drop(c)
         /\ note_client_sequence(c) => Abstract!Note(c)
<1>1. ASSUME pop_event(c) PROVE Abstract!Pop(c)
  <2>1. /\ Queued(c) # << >> /\ Queued(c)' = Tail(Queued(c))
        /\ \A d \in Client \ {c} : Queued(d)' = Queued(d)
    BY <1>1, PopKeeps
  <2>2. pc = "idle" /\ UNCHANGED <<events, index, pc, sequence>>
    BY <1>1 DEF pop_event
  <2>3. /\ VisibleQueues' = [VisibleQueues EXCEPT ![c] = Tail(Queued(c))]
        /\ VisibleQueues[c] = Queued(c)
    BY <2>1, <2>2, OneQueueChanges
  <2> QED BY <2>1, <2>2, <2>3 DEF Abstract!Pop
<1>2. ASSUME disconnect_client(c) PROVE Abstract!Drop(c)
  <2>1. Queued(c)' = << >> /\ \A d \in Client \ {c} : Queued(d)' = Queued(d)
    BY <1>2, DisconnectKeeps
  <2>2. pc = "idle" /\ UNCHANGED <<events, index, pc>> /\ sequence' = [sequence EXCEPT ![c] = 0]
    BY <1>2 DEF disconnect_client
  <2>3. VisibleQueues' = [VisibleQueues EXCEPT ![c] = << >>]
    BY <2>1, <2>2, OneQueueChanges
  <2> QED BY <2>2, <2>3 DEF Abstract!Drop
<1>3. ASSUME note_client_sequence(c) PROVE Abstract!Note(c)
  <2>1. \A d \in Client : Queued(d)' = Queued(d)
    BY <1>3, NoteKeeps
  <2>2. /\ pc = "idle" /\ UNCHANGED <<events, index, pc>>
        /\ sequence' = [sequence EXCEPT ![c] = @ + 1]
    BY <1>3 DEF note_client_sequence
  <2>3. VisibleQueues' = VisibleQueues
    BY <2>1, <2>2, IdleShowsAll
  <2> QED BY <2>2, <2>3 DEF Abstract!Note
<1> QED BY <1>1, <1>2, <1>3

(***************************************************************************)
(* The pushes and roll-backs of queue_events_atomically implement the      *)
(* queues that take a plan whole and within the limits, or not at all.     *)
(***************************************************************************)
THEOREM CallsAreAtomic == Spec => IsAtomic
<1>1. Init => Abstract!Init
  <2> SUFFICES ASSUME Init PROVE Abstract!Init
    OBVIOUS
  <2>1. IInv /\ \A c \in Client : Pushed(c) = 0 /\ Queued(c) = << >>
    BY InitIsInductive, NoneAmongNone DEF Init, Pushed, Queued
  <2>2. \A c \in Client : Visible(c) = << >>
    BY <2>1, VisibleAlways
  <2> QED BY <2>2 DEF Abstract!Init, VisibleQueues, Init
<1>2. IInv /\ IInv' /\ [Next]_vars => [Abstract!Next]_<<VisibleQueues, sequence>>
  <2> SUFFICES ASSUME IInv, IInv', [Next]_vars
               PROVE  Abstract!Next \/ UNCHANGED <<VisibleQueues, sequence>>
    OBVIOUS
  <2>1. CASE \/ \E plan \in Plans : Begin(plan)
             \/ Push /\ pc' = "push"
             \/ PushFails \/ Undo
             \/ \E e \in PlannedEvent : QueueOneFails(e)
    BY <2>1, CallUnseen
  <2>2. CASE (\E plan \in Plans : Refuse(plan)) \/ UNCHANGED vars
    BY <2>2 DEF Refuse, vars, VisibleQueues, Visible, Queued, Pushed
  <2>3. CASE Push /\ pc' # "push"
    <3> PICK e : e = events[index + 1]
      OBVIOUS
    <3>1. index \in 0..Len(events) /\ index < Len(events) /\ events \in Seq(PlannedEvent)
      BY <2>3 DEF IInv, TypeOK, RestHasRoom, Push
    <3>2. e \in PlannedEvent /\ queue_event(e) /\ UNCHANGED sequence /\ pc' = "idle"
      BY <2>3, <3>1 DEF Push, Goto
    <3>3. Abstract!Transact
      BY <3>2, PushSeen, GrownIsTransact
    <3> QED BY <3>3 DEF Abstract!Next
  <2>4. ASSUME NEW e \in PlannedEvent, QueueOne(e) PROVE Abstract!Next
    <3>1. queue_event(e) /\ UNCHANGED sequence /\ pc' = "idle"
      BY <2>4 DEF QueueOne
    <3>2. Abstract!Transact
      BY <3>1, PushSeen, GrownIsTransact
    <3> QED BY <3>2 DEF Abstract!Next
  <2>5. ASSUME NEW c \in Client,
               pop_event(c) \/ note_client_sequence(c) \/ disconnect_client(c)
        PROVE  Abstract!Next
    BY <2>5, BetweenCalls DEF Abstract!Next
  <2> QED BY <2>1, <2>2, <2>3, <2>4, <2>5 DEF Next
<1> QED BY <1>1, <1>2, Inductive, PTL DEF Spec, IsAtomic, Abstract!Spec
-----------------------------------------------------------------------------
(***************************************************************************)
(* The check up front accepts the plans that fit.  What each client gets   *)
(* of a plan is defined along the plan, so that induction is needed.       *)
(***************************************************************************)
(* What is good at 0 and stays good at each step is good at n. *)
LEMMA StepByStep ==
  ASSUME NEW n \in Nat, NEW Good, 0 \in Good,
         \A i \in 0..(n - 1) : i \in Good => i + 1 \in Good
  PROVE  n \in Good
<1> SUFFICES ASSUME n \notin Good PROVE FALSE
  OBVIOUS
<1> DEFINE Bad == (0..n) \ Good
<1>1. Bad \subseteq Nat /\ Bad # {}
  OBVIOUS
<1>2. \E x \in Bad : \A y \in Bad : ~ (<<y, x>> \in OpToRel(<, Nat))
  BY <1>1, WFMin, NatLessThanWellFounded, Zenon
<1>3. PICK x \in Bad : \A y \in Bad : ~ (y < x)
  BY <1>1, <1>2, Zenon DEF OpToRel
<1>4. x > 0 /\ x - 1 \in 0..(n - 1)
  OBVIOUS
<1>5. x - 1 \notin Bad
  BY <1>3
<1> QED
  BY <1>4, <1>5

(* Steps that lead from one set of states to the next define a function,   *)
(* whose values are in these sets.                                         *)
Leads(n, R, St, base, G) ==
  /\ n \in Nat /\ base \in St[0]
  /\ \A i \in 0..n : St[i] \subseteq R
  /\ \A i \in 1..n : \A v \in St[i - 1] : G[i][v] \in St[i]

Follows(f, n, R, St, base, G) ==
  /\ f \in [0..n -> R] /\ f[0] = base
  /\ \A i \in 1..n : f[i] = G[i][f[i - 1]]
  /\ \A i \in 0..n : f[i] \in St[i]

LEMMA Iteration ==
  ASSUME NEW n, NEW R, NEW St, NEW base, NEW G, Leads(n, R, St, base, G)
  PROVE  \E f : Follows(f, n, R, St, base, G)
<1> USE DEF Leads
<1> DEFINE Begins(f, k) == /\ f = [i \in 0..k |-> IF i = 0 THEN base ELSE G[i][f[i - 1]]]
                           /\ \A i \in 0..k : f[i] \in St[i]
           Good == {k \in 0..n : \E f : Begins(f, k)}
<1>1. 0 \in Good
  <2> DEFINE f == [i \in 0..0 |-> base]
  <2>1. f = [i \in 0..0 |-> IF i = 0 THEN base ELSE G[i][f[i - 1]]]
    OBVIOUS
  <2>2. \A i \in 0..0 : f[i] \in St[i]
    OBVIOUS
  <2> HIDE DEF f
  <2>3. Begins(f, 0)
    BY <2>1, <2>2
  <2> QED
    BY <2>3
<1>2. ASSUME NEW k \in 0..(n - 1), k \in Good PROVE k + 1 \in Good
  <2>1. PICK f : Begins(f, k)
    BY <1>2
  <2>2. DOMAIN f = 0..k /\ \A i \in 0..k : f[i] = IF i = 0 THEN base ELSE G[i][f[i - 1]]
    BY <2>1
  <2>3. \A i \in 0..k : f[i] \in St[i]
    BY <2>1
  <2> HIDE DEF Begins, Good
  <2>4. PICK g : g = [i \in 0..(k + 1) |-> IF i = k + 1 THEN G[k + 1][f[k]] ELSE f[i]]
    OBVIOUS
  <2>5. /\ k \in 0..k /\ k + 1 \in 1..n /\ k + 1 \in 0..n /\ k + 1 # 0 /\ (k + 1) - 1 = k
        /\ \A i \in 0..(k + 1) : i # k + 1 => i \in 0..k /\ (i # 0 => i - 1 \in 0..k)
        /\ \A i \in 0..k : i \in 0..(k + 1) /\ i # k + 1
    OBVIOUS
  <2>6. \A i \in 0..k : g[i] = f[i]
    BY <2>4, <2>5
  <2>7. g[k + 1] = G[k + 1][f[k]] /\ g = [i \in 0..(k + 1) |-> g[i]]
    BY <2>4
  <2>8. g[k + 1] \in St[k + 1]
    <3>1. f[k] \in St[(k + 1) - 1]
      BY <2>3, <2>5
    <3> QED
      BY <3>1, <2>5, <2>7
  <2>9. ASSUME NEW i \in 0..(k + 1)
        PROVE  g[i] = (IF i = 0 THEN base ELSE G[i][g[i - 1]]) /\ g[i] \in St[i]
    <3>1. CASE i = k + 1
      <4>1. g[i - 1] = f[k] /\ i # 0
        BY <3>1, <2>5, <2>6
      <4> QED
        BY <3>1, <4>1, <2>7, <2>8
    <3>2. CASE i # k + 1
      <4>1. i \in 0..k /\ g[i] = f[i] /\ (i # 0 => g[i - 1] = f[i - 1])
        BY <3>2, <2>5, <2>6
      <4> QED
        BY <4>1, <2>2, <2>3
    <3> QED
      BY <3>1, <3>2
  <2>10. Begins(g, k + 1)
    <3>1. g = [i \in 0..(k + 1) |-> IF i = 0 THEN base ELSE G[i][g[i - 1]]]
      BY <2>7, <2>9
    <3> QED
      BY <2>9, <3>1 DEF Begins
  <2> QED
    BY <2>5, <2>10 DEF Good
<1> HIDE DEF Begins
<1>3. n \in Good
  BY <1>1, <1>2, StepByStep
<1>4. PICK f : Begins(f, n)
  BY <1>3
<1>5. /\ f = [i \in 0..n |-> IF i = 0 THEN base ELSE G[i][f[i - 1]]]
      /\ \A i \in 0..n : f[i] \in St[i]
  BY <1>4 DEF Begins
<1>6. f[0] = base /\ \A i \in 1..n : f[i] = G[i][f[i - 1]]
  BY <1>5
<1>7. f \in [0..n -> R]
  BY <1>5
<1> QED
  BY <1>5, <1>6, <1>7 DEF Follows

(* Such a function is in these sets whichever it is. *)
LEMMA IterationStays ==
  ASSUME NEW n \in Nat, NEW St, NEW f, f[0] \in St[0],
         \A i \in 1..n : f[i - 1] \in St[i - 1] => f[i] \in St[i]
  PROVE  \A i \in 0..n : f[i] \in St[i]
<1> SUFFICES ASSUME NEW k \in 0..n PROVE f[k] \in St[k]
  OBVIOUS
<1> DEFINE Good == {i \in 0..n : f[i] \in St[i]}
<1>1. 0 \in Good
  OBVIOUS
<1>2. ASSUME NEW i \in 0..(k - 1), i \in Good PROVE i + 1 \in Good
  <2>1. i + 1 \in 1..n /\ (i + 1) - 1 = i
    OBVIOUS
  <2> QED
    BY <1>2, <2>1
<1> HIDE DEF Good
<1>3. k \in Good
  BY <1>1, <1>2, StepByStep
<1> QED
  BY <1>3 DEF Good

(* A client gets as many events as the plan has for it. *)
LEMMA KindsForIs ==
  ASSUME NEW plan \in Seq(PlannedEvent), NEW c
  PROVE  /\ KindsFor(plan, c) \in Seq(Kinds)
         /\ Len(KindsFor(plan, c)) = Cardinality(Among(plan, Len(plan), c))
<1> DEFINE n == Len(plan)
           R == Seq(Kinds)
           empty == << >>
           Count(i) == Cardinality(Among(plan, i, c))
           St == [i \in 0..n |-> {v \in Seq(Kinds) : Len(v) = Count(i)}]
           G == [i \in 1..n |-> [v \in Seq(Kinds) |->
                  IF plan[i].to = c THEN Append(v, plan[i].type) ELSE v]]
           Part(f) == [i \in 0..n |-> IF i = 0 THEN << >>
                        ELSE IF plan[i].to = c THEN Append(f[i - 1], plan[i].type) ELSE f[i - 1]]
<1>1. n \in Nat /\ \A i \in 1..n : plan[i] \in PlannedEvent /\ plan[i].type \in Kinds
  <2>1. n \in Nat /\ \A i \in 1..n : plan[i] \in PlannedEvent
    BY LenProperties, ElementOfSeq
  <2> QED BY <2>1 DEF PlannedEvent
<1>2. empty \in St[0]
  <2>1. empty \in Seq(Kinds) /\ Len(empty) = 0 /\ Count(0) = 0
    BY NoneAmongNone
  <2> QED BY <1>1, <2>1
<1>3. ASSUME NEW i \in 1..n, NEW v \in St[i - 1]
      PROVE  (IF plan[i].to = c THEN Append(v, plan[i].type) ELSE v) \in St[i]
  <2>1. i - 1 \in 0..n /\ i \in 0..n /\ i - 1 \in Nat /\ (i - 1) + 1 = i
    BY <1>1
  <2>2. v \in Seq(Kinds) /\ Len(v) = Count(i - 1)
    BY <2>1
  <2>3. Count(i) = IF plan[i].to = c THEN Count(i - 1) + 1 ELSE Count(i - 1)
    BY <2>1, CountOfMore
  <2>4. Append(v, plan[i].type) \in Seq(Kinds) /\ Len(Append(v, plan[i].type)) = Len(v) + 1
    BY <1>1, <2>2, AppendProperties
  <2> HIDE DEF Count
  <2> QED BY <2>1, <2>2, <2>3, <2>4
<1>a. \A i \in 1..n : \A v \in Seq(Kinds) :
        G[i][v] = IF plan[i].to = c THEN Append(v, plan[i].type) ELSE v
  OBVIOUS
<1>b. \A i \in 0..n : St[i] \subseteq R
  OBVIOUS
<1>s. \A i \in 0..n : \A v \in St[i] : v \in Seq(Kinds) /\ Len(v) = Count(i)
  OBVIOUS
<1> HIDE DEF n, St, G, R, empty, Count
<1>4. ASSUME NEW i \in 1..n, NEW v \in St[i - 1] PROVE G[i][v] \in St[i]
  <2>1. i - 1 \in 0..n
    BY <1>1
  <2>2. G[i][v] = IF plan[i].to = c THEN Append(v, plan[i].type) ELSE v
    BY <1>a, <1>s, <2>1
  <2> QED BY <1>3, <2>2
<1>c. Leads(n, R, St, empty, G)
  BY <1>1, <1>2, <1>4, <1>b DEF Leads
<1>d. PICK f : Follows(f, n, R, St, empty, G)
  BY <1>c, Iteration
<1>5. /\ f \in [0..n -> R] /\ f[0] = empty
      /\ \A i \in 1..n : f[i] = G[i][f[i - 1]]
  BY <1>d DEF Follows
<1>6. \A i \in 1..n : f[i - 1] \in Seq(Kinds)
  BY <1>1, <1>5 DEF R
<1>7. f = Part(f)
  <2>1. \A i \in 1..n : G[i][f[i - 1]] = IF plan[i].to = c THEN Append(f[i - 1], plan[i].type)
                                         ELSE f[i - 1]
    BY <1>6, <1>a
  <2>2. \A i \in (0..n) \ {0} : i \in 1..n
    BY <1>1, SMTT(40)
  <2> QED BY <1>5, <2>1, <2>2 DEF empty
<1> DEFINE part == CHOOSE g : g = Part(g)
<1>8. part = Part(part)
  BY <1>7
<1>9. KindsFor(plan, c) = part[n]
  BY DEF KindsFor, n
<1> HIDE DEF part
<1>10. /\ part[0] = << >>
       /\ \A i \in 1..n : part[i] = IF plan[i].to = c THEN Append(part[i - 1], plan[i].type)
                                    ELSE part[i - 1]
  <2>1. 0 \in 0..n /\ \A i \in 1..n : i \in 0..n /\ i # 0
    BY <1>1
  <2> QED BY <1>8, <2>1
<1>11. \A i \in 0..n : part[i] \in St[i]
  <2>1. \A i \in 1..n : part[i - 1] \in St[i - 1] => part[i] \in St[i]
    BY <1>3, <1>10
  <2> QED BY <1>1, <1>2, <1>10, <2>1, IterationStays DEF empty
<1>12. part[n] \in St[n] /\ n \in 0..n
  BY <1>1, <1>11
<1> QED BY <1>9, <1>12, <1>s DEF n, Count

(* The shares of the clients are the whole plan. *)
Blanks(plan, n) == [c \in Client |-> [i \in 1..Cardinality(Among(plan, n, c)) |-> 0]]

LEMMA BlanksAre ==
  ASSUME NEW plan \in Seq(PlannedEvent), NEW n \in Nat
  PROVE  /\ Blanks(plan, n) \in Lists({0})
         /\ \A c \in Client : Len(Blanks(plan, n)[c]) = Cardinality(Among(plan, n, c))
<1>1. ASSUME NEW c \in Client
      PROVE  /\ Blanks(plan, n)[c] \in Seq({0})
             /\ Len(Blanks(plan, n)[c]) = Cardinality(Among(plan, n, c))
  <2>1. PICK k \in Nat : k = Cardinality(Among(plan, n, c))
    BY CountOfMore
  <2>2. PICK f : f = [i \in 1..k |-> 0]
    OBVIOUS
  <2>3. f \in [1..k -> {0}]
    BY <2>2
  <2>4. f \in Seq({0}) /\ Len(f) = k
    BY <2>3, FunctionIsList
  <2>5. Blanks(plan, n)[c] = f
    BY <2>1, <2>2 DEF Blanks
  <2> QED BY <2>1, <2>4, <2>5
<1>2. Blanks(plan, n) = [c \in Client |-> Blanks(plan, n)[c]]
  BY DEF Blanks
<1> QED BY <1>1, <1>2 DEF Lists

LEMMA WholePlan ==
  ASSUME NEW plan \in Seq(PlannedEvent)
  PROVE  TotalEvents(Blanks(plan, Len(plan))) = Len(plan)
<1> DEFINE n == Len(plan)
           Good == {i \in 0..n : TotalEvents(Blanks(plan, i)) = i}
<1>1. n \in Nat /\ \A i \in 1..n : plan[i] \in PlannedEvent /\ plan[i].to \in Client
  <2>1. n \in Nat /\ \A i \in 1..n : plan[i] \in PlannedEvent
    BY LenProperties, ElementOfSeq
  <2> QED BY <2>1 DEF PlannedEvent
<1>2. 0 \in Good
  <2>1. Blanks(plan, 0) \in Lists({0}) /\ \A c \in Client : Len(Blanks(plan, 0)[c]) = 0
    BY BlanksAre, NoneAmongNone
  <2>2. TotalEvents(Blanks(plan, 0)) = 0
    BY <2>1, TotalOfNothing
  <2> QED BY <1>1, <2>2
<1>3. ASSUME NEW i \in 0..(n - 1), i \in Good PROVE i + 1 \in Good
  <2>1. i \in Nat /\ i + 1 \in 1..n
    BY <1>1
  <2>2. PICK before, after : before = Blanks(plan, i) /\ after = Blanks(plan, i + 1)
    OBVIOUS
  <2>3. PICK c \in Client : c = plan[i + 1].to
    BY <1>1, <2>1
  <2>4. /\ before \in Lists({0}) /\ after \in Lists({0})
        /\ \A d \in Client : /\ Len(before[d]) = Cardinality(Among(plan, i, d))
                             /\ Len(after[d]) = Cardinality(Among(plan, i + 1, d))
    BY <2>1, <2>2, BlanksAre
  <2>5. ASSUME NEW d \in Client
        PROVE  /\ Len(before[d]) \in Nat
               /\ Len(after[d]) = IF d = c THEN Len(before[d]) + 1 ELSE Len(before[d])
    <3>1. /\ Cardinality(Among(plan, i, d)) \in Nat
          /\ Cardinality(Among(plan, i + 1, d)) =
               IF plan[i + 1].to = d THEN Cardinality(Among(plan, i, d)) + 1
               ELSE Cardinality(Among(plan, i, d))
      BY <2>1, CountOfMore
    <3> QED BY <3>1, <2>3, <2>4
  <2>6. TotalEvents(after) = TotalEvents(before) - Len(before[c]) + Len(after[c])
    BY <2>4, <2>5, TotalOfChange
  <2>7. Len(before[c]) \in Nat /\ Len(after[c]) = Len(before[c]) + 1
    BY <2>5
  <2>8. TotalEvents(before) = i
    BY <1>3, <2>2
  <2>9. TotalEvents(after) = i + 1
    <3>1. PICK k \in Nat : k = Len(before[c])
      BY <2>7
    <3>2. PICK m \in Nat : m = Len(after[c]) /\ m = k + 1
      BY <2>7, <3>1
    <3>3. TotalEvents(after) = i - k + m
      BY <2>6, <2>8, <3>1, <3>2
    <3> QED BY <2>1, <3>2, <3>3
  <2> QED BY <2>1, <2>2, <2>9
<1> HIDE DEF Good
<1>4. n \in Good
  BY <1>1, <1>2, <1>3, StepByStep
<1> QED BY <1>4 DEF Good

LEMMA Latest ==
  ASSUME NEW n \in Nat, NEW A \in SUBSET (1..n), A # {}
  PROVE  \E i \in A : \A j \in A : j <= i
<1> DEFINE B == {k \in 0..n : n - k \in A}
<1>1. \A i \in A : i \in 1..n /\ n - i \in 0..n /\ n - (n - i) = i
  OBVIOUS
<1>2. \A i \in A : n - i \in B
  BY <1>1
<1>3. B \in SUBSET Nat /\ B # {}
  <2>1. PICK i : i \in A
    OBVIOUS
  <2>2. B # {}
    BY <1>2, <2>1
  <2>3. B \in SUBSET Nat
    OBVIOUS
  <2> QED BY <2>2, <2>3
<1>4. \A k \in B : k \in 0..n /\ n - k \in A
  OBVIOUS
<1> HIDE DEF B
<1>5. \E k \in B : \A l \in B : ~ (<<l, k>> \in OpToRel(<, Nat))
  BY <1>3, WFMin, NatLessThanWellFounded, Zenon
<1>6. PICK k \in B : \A l \in B : ~ (l < k)
  BY <1>3, <1>5, Zenon DEF OpToRel
<1>7. ASSUME NEW j \in A
      PROVE  j <= n - k
  <2>1. n - j \in B /\ j \in 1..n /\ k \in 0..n
    BY <1>1, <1>2, <1>4
  <2>2. ~ (n - j < k)
    BY <1>6, <2>1
  <2> QED BY <2>1, <2>2
<1>8. n - k \in A
  BY <1>4
<1> QED BY <1>7, <1>8

LEMMA SharesAreWhole ==
  ASSUME NEW plan \in Seq(PlannedEvent)
  PROVE  TotalEvents(PlanOf(plan)) = Len(plan)
<1> PICK n, blanks, shares : n = Len(plan) /\ blanks = Blanks(plan, n) /\ shares = PlanOf(plan)
  OBVIOUS
<1>1. n \in Nat
  BY LenProperties
<1>2. ASSUME NEW c \in Client
      PROVE  /\ shares[c] = KindsFor(plan, c) /\ shares[c] \in Seq(Kinds)
             /\ Len(shares[c]) = Cardinality(Among(plan, n, c))
  <2>1. shares[c] = KindsFor(plan, c)
    BY DEF PlanOf
  <2> QED BY <2>1, KindsForIs
<1>3. shares \in Lists(Kinds)
  <2>1. shares = [c \in Client |-> shares[c]]
    BY DEF PlanOf
  <2> QED BY <1>2, <2>1 DEF Lists
<1>4. blanks \in Lists({0}) /\ \A c \in Client : Len(blanks[c]) = Cardinality(Among(plan, n, c))
  BY <1>1, BlanksAre
<1>5. \A c \in Client : Cardinality(Among(plan, n, c)) \in Nat
  BY <1>1, CountOfMore
<1>6. NoLonger(shares, blanks) /\ NoLonger(blanks, shares)
  BY <1>2, <1>4, <1>5 DEF NoLonger
<1>7. TotalEvents(shares) <= TotalEvents(blanks) /\ TotalEvents(blanks) <= TotalEvents(shares)
  BY <1>3, <1>4, <1>6, TotalIsMonotone
<1>8. TotalEvents(blanks) = n
  BY WholePlan
<1>9. TotalEvents(shares) \in Nat
  BY <1>3, PlacesFinite, FS_CardinalityType DEF TotalEvents
<1> QED BY <1>1, <1>7, <1>8, <1>9

(* The last event of the plan for a client is the one whose check says     *)
(* whether all of them fit.                                                *)
LEMMA CheckOfClient ==
  ASSUME NEW plan \in Seq(PlannedEvent), NEW c \in Client, NEW room \in Int
  PROVE  (\A i \in Among(plan, Len(plan), c) : Additions(plan, i) <= room)
           <=> (KindsFor(plan, c) # << >> => Len(KindsFor(plan, c)) <= room)
<1> PICK n, all, kinds : n = Len(plan) /\ all = Among(plan, n, c) /\ kinds = KindsFor(plan, c)
  OBVIOUS
<1>1. n \in Nat /\ all \in SUBSET (1..n) /\ IsFiniteSet(all)
  <2>1. n \in Nat
    BY LenProperties
  <2>2. all \in SUBSET (1..n)
    BY DEF Among
  <2> QED BY <2>1, <2>2, CountOfMore
<1>2. kinds \in Seq(Kinds) /\ Len(kinds) = Cardinality(all) /\ Cardinality(all) \in Nat
  BY <1>1, KindsForIs, CountOfMore
<1>3. (kinds = << >> <=> Len(kinds) = 0) /\ (all = {} <=> Cardinality(all) = 0)
  BY <1>1, <1>2, FS_EmptySet, EmptySeq
<1>4. ASSUME NEW i \in all
      PROVE  /\ i \in Nat /\ Additions(plan, i) = Cardinality(Among(plan, i, c))
             /\ Additions(plan, i) \in Nat /\ Additions(plan, i) <= Len(kinds)
  <2>1. i \in Nat /\ i \in 1..n /\ plan[i].to = c
    BY <1>1 DEF Among
  <2>2. Additions(plan, i) = Cardinality(Among(plan, i, c)) /\ Additions(plan, i) \in Nat
    BY <2>1, CountOfMore DEF Additions
  <2>3. Among(plan, i, c) \subseteq all
    BY <1>1, <2>1 DEF Among
  <2>4. Cardinality(Among(plan, i, c)) <= Cardinality(all)
    BY <1>1, <2>3, FS_Subset
  <2> QED BY <1>2, <2>1, <2>2, <2>4
<1>5. ASSUME KindsFor(plan, c) # << >> => Len(KindsFor(plan, c)) <= room, NEW i \in all
      PROVE  Additions(plan, i) <= room
  <2>1. kinds # << >>
    BY <1>3, <1>2
  <2>2. Len(kinds) <= room
    BY <1>5, <2>1
  <2> QED BY <1>2, <1>4, <2>2
<1>6. ASSUME \A i \in all : Additions(plan, i) <= room, kinds # << >>
      PROVE  Len(kinds) <= room
  <2>1. all # {}
    BY <1>2, <1>3, <1>6
  <2>2. PICK i \in all : \A j \in all : j <= i
    BY <1>1, <2>1, Latest
  <2>3. Among(plan, i, c) = all
    BY <1>1, <2>2 DEF Among
  <2> QED BY <1>2, <1>4, <1>6, <2>3
<1> QED BY <1>5, <1>6

LEMMA CheckOfPlan ==
  ASSUME TypeOK, NEW plan \in Seq(PlannedEvent)
  PROVE  HasCapacity(plan) <=> Fits(AllQueues, pending, PlanOf(plan))
<1> DEFINE room(c) == MaxPerClient - Len(Queued(c))
<1>1. DOMAIN plan = 1..Len(plan) /\ Len(plan) \in Nat
      /\ \A i \in 1..Len(plan) : plan[i].to \in Client
  <2>1. DOMAIN plan = 1..Len(plan) /\ Len(plan) \in Nat
        /\ \A i \in 1..Len(plan) : plan[i] \in PlannedEvent
    BY LenProperties, ElementOfSeq
  <2> QED BY <2>1 DEF PlannedEvent
<1>2. \A c \in Client : Len(Queued(c)) \in Nat /\ MaxPerClient \in Nat
  BY QueueTypes, LimitsAssumption
<1>3. \A c \in Client : (\A i \in Among(plan, Len(plan), c) : Additions(plan, i) <= room(c))
        <=> (KindsFor(plan, c) # << >> => Len(KindsFor(plan, c)) <= room(c))
  BY <1>2, CheckOfClient
<1>4. (\A i \in DOMAIN plan : Additions(plan, i) <= room(plan[i].to))
        <=> \A c \in Client : \A i \in Among(plan, Len(plan), c) : Additions(plan, i) <= room(c)
  BY <1>1 DEF Among
<1>5. \A c \in Client : AllQueues[c] = Queued(c) /\ PlanOf(plan)[c] = KindsFor(plan, c)
  BY DEF AllQueues, PlanOf
<1>6. TotalEvents(PlanOf(plan)) = Len(plan)
  BY SharesAreWhole
<1> QED BY <1>3, <1>4, <1>5, <1>6 DEF HasCapacity, Fits

(***************************************************************************)
(* The checks at the head of queue_events_atomically, which count the      *)
(* events before each one for the same client, accept exactly the plans    *)
(* that fit the queues: whatever was queued before, and for a plan of any  *)
(* length and any order of its recipients.                                 *)
(***************************************************************************)
THEOREM CheckAcceptsWhatFits == Spec => []CheckIsExact
<1>1. TypeOK => CheckIsExact
  <2> SUFFICES ASSUME TypeOK, NEW plan \in Plans
               PROVE  HasCapacity(plan) <=> Fits(AllQueues, pending, PlanOf(plan))
    BY DEF CheckIsExact
  <2>1. PICK n \in 0..MaxPlan : plan \in [1..n -> PlannedEvent]
    BY DEF Plans
  <2>2. plan \in Seq(PlannedEvent)
    BY <2>1, QueueAssumption, FunctionIsList
  <2> QED BY <2>2, CheckOfPlan
<1> QED BY <1>1, TypesAreKept, PTL

=============================================================================
