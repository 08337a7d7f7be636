------------------------- MODULE OutputStream_proofs ------------------------
(***************************************************************************)
(* Proof that descriptors leave with the first byte of their replies, for  *)
(* every limit of the buffer and every size of reply and of write.         *)
(***************************************************************************)
EXTENDS OutputStream, TLAPS

(***************************************************************************)
(* The facts about single markers that the invariant holds.                *)
(***************************************************************************)
LEMMA MarkerFacts ==
  ASSUME IInv
  PROVE  /\ size \in Nat /\ offset \in Nat /\ base \in Nat /\ offset <= size
         /\ Len(markers) \in Nat /\ Len(place) \in Nat /\ Len(sent) \in Nat
         /\ \A i \in 1..Len(markers) : markers[i] \in Int
         /\ \A i \in 1..Len(markers) : offset <= markers[i] /\ markers[i] < size
         /\ \A i, j \in 1..Len(markers) : i < j => markers[i] < markers[j]
         /\ \A i \in 1..Len(markers) : base + markers[i] = place[Len(sent) + i]
<1>1. /\ size \in Nat /\ offset \in Nat /\ base \in Nat
      /\ Len(markers) \in Nat /\ Len(place) \in Nat /\ Len(sent) \in Nat
  BY DEF IInv, TypeOK
<1>2. \A i \in 1..Len(markers) : markers[i] \in Int
  BY DEF IInv, TypeOK
<1>3. offset <= size
  BY DEF IInv, MarkersInOrder
<1>4. \A i \in 1..Len(markers) : offset <= markers[i] /\ markers[i] < size
  BY DEF IInv, MarkersInOrder
<1>5. \A i, j \in 1..Len(markers) : i < j => markers[i] < markers[j]
  BY DEF IInv, MarkersInOrder
<1>6. \A i \in 1..Len(markers) : base + markers[i] = place[Len(sent) + i]
  BY DEF IInv, MarkersPlaced
<1> QED BY <1>1, <1>2, <1>3, <1>4, <1>5, <1>6

(***************************************************************************)
(* What compact_output leaves: as many markers, each moved by what is      *)
(* gone, and none when nothing is left.                                    *)
(***************************************************************************)
LEMMA CompactKeepsMarkers ==
  ASSUME IInv, NEW kept, kept = compact_output
  PROVE  /\ kept.size = size - offset
         /\ kept.size \in Nat
         /\ kept.markers \in Seq(Int)
         /\ Len(kept.markers) = Len(markers)
         /\ \A i \in 1..Len(markers) :
              /\ kept.markers[i] = markers[i] - offset
              /\ 0 <= kept.markers[i] /\ kept.markers[i] < kept.size
         /\ \A i, j \in 1..Len(markers) : i < j => kept.markers[i] < kept.markers[j]
         /\ kept.size = 0 => kept.markers = <<>>
<1> USE DEF IInv, TypeOK, MarkersInOrder
<1>1. CASE offset = 0
  <2>1. kept = [size |-> size, markers |-> markers]
    BY <1>1 DEF compact_output
  <2> QED BY <1>1, <2>1
<1>2. CASE offset # 0 /\ offset = size
  <2>1. kept = [size |-> 0, markers |-> <<>>]
    BY <1>2 DEF compact_output
  <2>2. Len(markers) = 0
    <3> SUFFICES ASSUME Len(markers) # 0 PROVE FALSE
      OBVIOUS
    <3>1. 1 \in 1..Len(markers)
      BY MarkerFacts
    <3>2. offset \in Nat /\ markers[1] \in Int /\ offset <= markers[1] /\ markers[1] < size
      BY <3>1, MarkerFacts
    <3> HIDE DEF IInv, TypeOK, MarkersInOrder
    <3> QED BY <1>2, <3>2
  <2> QED BY <1>2, <2>1, <2>2
<1>3. CASE offset # 0 /\ offset # size
  <2> DEFINE moved == [i \in 1..Len(markers) |-> markers[i] - offset]
  <2>1. kept = [size |-> size - offset, markers |-> moved]
    BY <1>3 DEF compact_output
  <2>2. moved \in Seq(Int) /\ Len(moved) = Len(markers)
    OBVIOUS
  <2>3. \A i \in 1..Len(markers) : moved[i] = markers[i] - offset
    OBVIOUS
  <2> HIDE DEF moved
  <2>4. size - offset \in Nat /\ size - offset > 0
    BY <1>3
  <2>5. ASSUME NEW i \in 1..Len(markers)
        PROVE  0 <= moved[i] /\ moved[i] < size - offset
    <3>1. moved[i] = markers[i] - offset
      BY <2>3
    <3>2. /\ size \in Nat /\ offset \in Nat /\ markers[i] \in Int
          /\ offset <= markers[i] /\ markers[i] < size
      BY MarkerFacts
    <3> HIDE DEF IInv, TypeOK, MarkersInOrder
    <3> QED BY <3>1, <3>2
  <2>6. ASSUME NEW i \in 1..Len(markers), NEW j \in 1..Len(markers), i < j
        PROVE  moved[i] < moved[j]
    <3>1. moved[i] = markers[i] - offset /\ moved[j] = markers[j] - offset
      BY <2>3
    <3>2. /\ offset \in Nat /\ markers[i] \in Int /\ markers[j] \in Int
          /\ markers[i] < markers[j]
      BY <2>6, MarkerFacts
    <3> HIDE DEF IInv, TypeOK, MarkersInOrder
    <3> QED BY <3>1, <3>2
  <2> QED BY <2>1, <2>2, <2>3, <2>4, <2>5, <2>6
<1> QED BY <1>1, <1>2, <1>3

(***************************************************************************)
(* The replies whose descriptors are not sent are those of the markers.    *)
(***************************************************************************)
LEMMA UnsentHaveMarkers ==
  ASSUME IInv, NEW i \in 1..Len(place), i \notin 1..Len(sent)
  PROVE  \E k \in 1..Len(markers) : i = Len(sent) + k
<1>1. Len(place) \in Nat /\ Len(sent) \in Nat /\ Len(markers) \in Nat
  BY DEF IInv, TypeOK
<1>2. Len(place) = Len(sent) + Len(markers)
  BY DEF IInv, MarkersCounted
<1>3. i - Len(sent) \in 1..Len(markers) /\ i = Len(sent) + (i - Len(sent))
  BY <1>1, <1>2
<1> QED BY <1>3

(***************************************************************************)
(* queue, with enough room or without, keeps the invariant.                *)
(***************************************************************************)
LEMMA QueueInvariant ==
  ASSUME IInv, failed = "none", NEW bytes \in 1..MaxReply, queue(bytes) \/ QueueFails(bytes)
  PROVE  IInv'
<1> DEFINE kept == compact_output
<1>1. /\ kept.size = size - offset
      /\ kept.size \in Nat
      /\ kept.markers \in Seq(Int)
      /\ Len(kept.markers) = Len(markers)
      /\ \A i \in 1..Len(markers) :
           /\ kept.markers[i] = markers[i] - offset
           /\ 0 <= kept.markers[i] /\ kept.markers[i] < kept.size
      /\ \A i, j \in 1..Len(markers) : i < j => kept.markers[i] < kept.markers[j]
      /\ kept.size = 0 => kept.markers = <<>>
  BY CompactKeepsMarkers
<1>2. PICK extra \in {0, bytes} :
        /\ size' = kept.size + extra /\ markers' = kept.markers
        /\ offset' = 0 /\ base' = base + offset
        /\ place' = place /\ sent' = sent /\ failed' \in {"none", "limit", "memory"}
        /\ extra = 0 \/ kept.size + extra <= MaxOutput
  BY DEF queue, QueueFails, Compact
<1> HIDE DEF kept
<1>3. extra \in Nat
  BY OutputAssumption
<1>4. TypeOK'
  <2>1. size' <= MaxOutput
    BY <1>1, <1>2, OutputAssumption DEF IInv, TypeOK
  <2> QED BY <1>1, <1>2, <1>3, <2>1 DEF IInv, TypeOK, Failure
<1>5. MarkersInOrder'
  <2>1. size' \in Nat /\ kept.size <= size' /\ offset' <= size'
    BY <1>1, <1>2, <1>3
  <2>2. \A i \in 1..Len(markers') : offset' <= markers'[i] /\ markers'[i] < size'
    BY <1>1, <1>2, <2>1, SMTT(40)
  <2>3. size' = 0 => markers' = <<>>
    BY <1>1, <1>2, <2>1
  <2> QED BY <1>1, <1>2, <2>1, <2>2, <2>3 DEF MarkersInOrder
<1>6. MarkersCounted'
  BY <1>1, <1>2 DEF IInv, MarkersCounted
<1>7. MarkersPlaced'
  <2> SUFFICES ASSUME NEW i \in 1..Len(markers)
               PROVE  base' + markers'[i] = place[Len(sent) + i]
    BY <1>1, <1>2 DEF MarkersPlaced
  <2>1. markers'[i] = markers[i] - offset /\ base' = base + offset
    BY <1>1, <1>2
  <2>2. /\ base \in Nat /\ offset \in Nat /\ markers[i] \in Int
        /\ base + markers[i] = place[Len(sent) + i]
    BY MarkerFacts
  <2> QED BY <2>1, <2>2
<1>8. InPlace' /\ NoneLeftBehind'
  BY <1>2 DEF IInv, TypeOK, InPlace, NoneLeftBehind
<1> QED BY <1>4, <1>5, <1>6, <1>7, <1>8 DEF IInv

(***************************************************************************)
(* queue_with_fd marks the end of what is queued, where its reply begins.  *)
(***************************************************************************)
LEMMA QueueWithFdInvariant ==
  ASSUME IInv, failed = "none", NEW bytes \in 1..MaxReply, queue_with_fd(bytes)
  PROVE  IInv'
<1> DEFINE kept == compact_output
<1>1. /\ kept.size = size - offset
      /\ kept.size \in Nat
      /\ kept.markers \in Seq(Int)
      /\ Len(kept.markers) = Len(markers)
      /\ \A i \in 1..Len(markers) :
           /\ kept.markers[i] = markers[i] - offset
           /\ 0 <= kept.markers[i] /\ kept.markers[i] < kept.size
      /\ \A i, j \in 1..Len(markers) : i < j => kept.markers[i] < kept.markers[j]
      /\ kept.size = 0 => kept.markers = <<>>
  BY CompactKeepsMarkers
<1>2. /\ size' = kept.size + bytes /\ markers' = Append(kept.markers, kept.size)
      /\ offset' = 0 /\ base' = base + offset
      /\ place' = Append(place, base + size) /\ sent' = sent /\ failed' = "none"
      /\ size' <= MaxOutput
  BY DEF queue_with_fd, Compact
<1> HIDE DEF kept
<1>3. bytes \in Nat /\ bytes > 0 /\ base + size \in Nat
  BY OutputAssumption DEF IInv, TypeOK
<1>4. TypeOK'
  <2>1. size' \in Nat /\ offset' \in Nat /\ base' \in Nat
    <3>1. size' = kept.size + bytes /\ offset' = 0 /\ base' = base + offset
      BY <1>2
    <3>2. kept.size \in Nat /\ bytes \in Nat /\ base \in Nat /\ offset \in Nat
      BY <1>1, <1>3, MarkerFacts
    <3> QED BY <3>1, <3>2
  <2>2. markers' \in Seq(Int)
    BY <1>1, <1>2
  <2>3. place' \in Seq(Nat) /\ sent' \in Seq(Nat)
    <3>1. place \in Seq(Nat) /\ sent \in Seq(Nat)
      BY DEF IInv, TypeOK
    <3> QED BY <1>2, <1>3, <3>1
  <2> QED BY <1>2, <2>1, <2>2, <2>3 DEF TypeOK, Failure
<1>5. /\ Len(markers') = Len(markers) + 1
      /\ markers'[Len(markers) + 1] = kept.size
      /\ \A i \in 1..Len(markers) : markers'[i] = kept.markers[i]
  BY <1>1, <1>2, SMTT(40)
<1>6. /\ Len(place') = Len(place) + 1 /\ place'[Len(place) + 1] = base + size
      /\ \A i \in 1..Len(place) : place'[i] = place[i]
  BY <1>2, <1>3 DEF IInv, TypeOK
<1>7. Len(markers) \in Nat /\ Len(place) \in Nat /\ Len(sent) \in Nat
  BY DEF IInv, TypeOK
<1>8. ASSUME NEW i \in 1..Len(markers'), i \notin 1..Len(markers)
      PROVE  i = Len(markers) + 1
  BY <1>5, <1>7, <1>8
<1>9. MarkersInOrder'
  <2>1. size' \in Nat /\ kept.size < size' /\ offset' <= size' /\ size' # 0
    BY <1>1, <1>2, <1>3, SMTT(40)
  <2>2. ASSUME NEW i \in 1..Len(markers')
        PROVE  offset' <= markers'[i] /\ markers'[i] < size'
    <3>1. CASE i \in 1..Len(markers)
      BY <1>1, <1>2, <1>5, <2>1, <3>1, SMTT(40)
    <3>2. CASE i \notin 1..Len(markers)
      BY <1>1, <1>2, <1>5, <1>8, <2>1, <3>2, SMTT(40)
    <3> QED BY <3>1, <3>2
  <2>3. ASSUME NEW i \in 1..Len(markers'), NEW j \in 1..Len(markers'), i < j
        PROVE  markers'[i] < markers'[j]
    <3>1. i \in 1..Len(markers)
      BY <1>5, <1>7, <2>3
    <3>2. CASE j \in 1..Len(markers)
      BY <1>1, <1>5, <2>3, <3>1, <3>2
    <3>3. CASE j \notin 1..Len(markers)
      BY <1>1, <1>5, <1>8, <3>1, <3>3
    <3> QED BY <3>2, <3>3
  <2> QED BY <2>1, <2>2, <2>3 DEF MarkersInOrder
<1>10. MarkersCounted'
  BY <1>2, <1>5, <1>6, <1>7 DEF IInv, MarkersCounted
<1>11. MarkersPlaced'
  <2> SUFFICES ASSUME NEW i \in 1..Len(markers')
               PROVE  base' + markers'[i] = place'[Len(sent) + i]
    BY <1>2 DEF MarkersPlaced
  <2>1. CASE i \in 1..Len(markers)
    <3>1. Len(sent) + i \in 1..Len(place)
      BY <1>7, <2>1 DEF IInv, MarkersCounted
    <3>2. base + markers[i] = place[Len(sent) + i] /\ markers[i] \in Int
      BY <2>1 DEF IInv, TypeOK, MarkersPlaced
    <3>3. markers'[i] = markers[i] - offset
      BY <1>1, <1>5, <2>1
    <3>4. place'[Len(sent) + i] = place[Len(sent) + i]
      BY <1>6, <3>1
    <3>5. base \in Nat /\ offset \in Nat /\ base' = base + offset
      BY <1>2, MarkerFacts
    <3> QED BY <3>2, <3>3, <3>4, <3>5
  <2>2. CASE i \notin 1..Len(markers)
    <3>1. i = Len(markers) + 1
      BY <1>8, <2>2
    <3>2. Len(sent) + i = Len(place) + 1
      BY <1>7, <3>1 DEF IInv, MarkersCounted
    <3>3. markers'[i] = size - offset
      BY <1>1, <1>5, <3>1
    <3> QED BY <1>2, <1>6, <3>2, <3>3 DEF IInv, TypeOK
  <2> QED BY <2>1, <2>2
<1>12. InPlace'
  BY <1>2, <1>6, <1>7, SMTT(40) DEF IInv, TypeOK, InPlace
<1>13. NoneLeftBehind'
  <2> SUFFICES ASSUME NEW i \in 1..Len(place'), i \notin 1..Len(sent)
               PROVE  base + offset <= place'[i]
    <3>1. DOMAIN place' = 1..Len(place') /\ DOMAIN sent = 1..Len(sent)
      BY <1>4 DEF IInv, TypeOK
    <3>2. base' + offset' = base + offset
      BY <1>2, MarkerFacts
    <3> QED BY <1>2, <3>1, <3>2 DEF NoneLeftBehind
  <2>1. CASE i \in 1..Len(place)
    <3>1. base + offset <= place[i]
      BY <2>1 DEF IInv, TypeOK, NoneLeftBehind
    <3> QED BY <1>6, <2>1, <3>1
  <2>2. CASE i = Len(place) + 1
    BY <1>6, <2>2 DEF IInv, TypeOK, MarkersInOrder
  <2> QED BY <1>6, <1>7, <2>1, <2>2
<1> QED BY <1>4, <1>9, <1>10, <1>11, <1>12, <1>13 DEF IInv

(***************************************************************************)
(* What Advance does when the bytes that go end before the markers left.   *)
(***************************************************************************)
LEMMA AdvanceKeeps ==
  ASSUME IInv, failed = "none", NEW count \in Nat, count > 0,
         NEW rest \in Seq(Int), Advance(count, rest),
         offset + count <= size,
         \A i \in 1..Len(rest) : offset + count <= rest[i] /\ rest[i] < size,
         \A i, j \in 1..Len(rest) : i < j => rest[i] < rest[j]
  PROVE  /\ markers' = rest /\ failed' = "none"
         /\ base' + offset' = base + offset + count
         /\ base' \in Nat /\ offset' \in Nat /\ size' \in Nat /\ size' <= MaxOutput
         /\ rest = <<>> \/ base' = base
         /\ MarkersInOrder'
<1>1. rest = <<>> \/ offset + count < size
  <2>1. ASSUME rest # <<>> PROVE offset + count < size
    <3>1. 1 \in 1..Len(rest) /\ rest[1] \in Int
      BY <2>1
    <3>2. offset \in Nat /\ size \in Nat
      BY MarkerFacts
    <3>3. offset + count <= rest[1] /\ rest[1] < size
      BY <3>1
    <3> QED BY <3>1, <3>2, <3>3
  <2> QED BY <2>1
<1>2. CASE offset + count < size
  <2>1. /\ offset' = offset + count /\ markers' = rest
        /\ size' = size /\ base' = base /\ failed' = "none"
    BY <1>2 DEF Advance
  <2> QED BY <1>2, <2>1 DEF IInv, TypeOK, MarkersInOrder
<1>3. CASE ~(offset + count < size)
  <2>1. /\ size' = 0 /\ offset' = 0 /\ base' = base + size /\ markers' = rest
        /\ failed' = "none" /\ rest = <<>>
    BY <1>1, <1>3 DEF Advance
  <2>2. offset + count = size
    BY <1>3 DEF IInv, TypeOK
  <2> QED BY <2>1, <2>2, OutputAssumption DEF IInv, TypeOK, MarkersInOrder
<1> QED BY <1>2, <1>3

(***************************************************************************)
(* A write with a descriptor starts at the marker, one without ends before *)
(* the next.                                                               *)
(***************************************************************************)
LEMMA SendInvariant ==
  ASSUME IInv, failed = "none", NEW count \in 1..MaxOutput, Send(count)
  PROVE  IInv'
<1>1. count \in Nat /\ count > 0
  BY OutputAssumption
<1>2. offset < size /\ offset + count <= WriteEnd /\ place' = place
  BY DEF Send
<1>3. Len(markers) \in Nat /\ Len(place) \in Nat /\ Len(sent) \in Nat
  BY DEF IInv, TypeOK
<1>4. CASE SendsDescriptor
  <2> DEFINE rest == Tail(markers)
  <2>1. /\ Advance(count, rest) /\ sent' = Append(sent, base + offset)
        /\ markers # <<>> /\ markers[1] = offset
    BY <1>4 DEF Send, SendsDescriptor
  <2>2. /\ rest \in Seq(Int) /\ Len(rest) = Len(markers) - 1 /\ Len(markers) > 0
        /\ \A i \in 1..Len(rest) : rest[i] = markers[i + 1]
    BY <2>1 DEF IInv, TypeOK
  <2>3. /\ sent' \in Seq(Nat) /\ Len(sent') = Len(sent) + 1
        /\ sent'[Len(sent) + 1] = base + offset
        /\ \A i \in 1..Len(sent) : sent'[i] = sent[i]
    BY <2>1 DEF IInv, TypeOK
  <2> HIDE DEF rest
  <2>4. \A i \in 1..Len(rest) : i + 1 \in 1..Len(markers) /\ 2 \in 1..Len(markers)
    BY <1>3, <2>2
  <2>5. ASSUME NEW i \in 1..Len(rest), NEW j \in 1..Len(rest), i < j
        PROVE  rest[i] < rest[j]
    <3>1. i + 1 \in 1..Len(markers) /\ j + 1 \in 1..Len(markers) /\ i + 1 < j + 1
      BY <2>4, <2>5
    <3>2. markers[i + 1] < markers[j + 1]
      BY <3>1, MarkerFacts
    <3> QED BY <2>2, <3>2
  <2>6. ASSUME NEW i \in 1..Len(rest)
        PROVE  markers[2] <= rest[i] /\ rest[i] < size
    <3>1. 2 \in 1..Len(markers) /\ i + 1 \in 1..Len(markers)
      BY <2>4
    <3>2. markers[2] \in Int /\ markers[i + 1] \in Int /\ markers[i + 1] < size
      BY <3>1, MarkerFacts
    <3>3. i + 1 = 2 \/ 2 < i + 1
      OBVIOUS
    <3>4. CASE i + 1 = 2
      BY <2>2, <3>2, <3>4
    <3>5. CASE 2 < i + 1
      <4>1. markers[2] < markers[i + 1]
        BY <3>1, <3>5, MarkerFacts
      <4> QED BY <2>2, <3>2, <4>1, SMTT(40)
    <3> QED BY <3>3, <3>4, <3>5
  <2>7. offset + count <= size /\ \A i \in 1..Len(rest) : offset + count <= rest[i]
    <3>1. CASE Len(markers) > 1
      <4>1. offset + count <= markers[2]
        BY <1>2, <1>4, <3>1 DEF WriteEnd
      <4>2. 2 \in 1..Len(markers) /\ markers[2] \in Int /\ markers[2] < size
        BY <1>3, <3>1 DEF IInv, TypeOK, MarkersInOrder
      <4>3. offset \in Nat /\ size \in Nat
        BY MarkerFacts
      <4>4. offset + count <= size
        BY <1>1, <4>1, <4>2, <4>3
      <4>5. ASSUME NEW i \in 1..Len(rest)
            PROVE  offset + count <= rest[i]
        <5>1. markers[2] <= rest[i] /\ rest[i] \in Int
          BY <2>2, <2>6
        <5> QED BY <1>1, <4>1, <4>2, <4>3, <5>1
      <4> QED BY <4>4, <4>5
    <3>2. CASE ~(Len(markers) > 1)
      BY <1>2, <1>3, <1>4, <2>2, <3>2 DEF WriteEnd
    <3> QED BY <3>1, <3>2
  <2>8. /\ markers' = rest /\ failed' = "none"
        /\ base' + offset' = base + offset + count
        /\ base' \in Nat /\ offset' \in Nat /\ size' \in Nat /\ size' <= MaxOutput
        /\ rest = <<>> \/ base' = base
        /\ MarkersInOrder'
    BY <1>1, <2>1, <2>2, <2>5, <2>6, <2>7, AdvanceKeeps
  <2>9. TypeOK'
    <3>1. markers' \in Seq(Int) /\ sent' \in Seq(Nat)
      BY <2>2, <2>3, <2>8
    <3>2. place' \in Seq(Nat) /\ failed' \in Failure
      BY <1>2, <2>8 DEF IInv, TypeOK, Failure
    <3> QED BY <2>8, <3>1, <3>2 DEF TypeOK
  <2>10. MarkersCounted'
    <3>1. Len(place) = Len(sent) + Len(markers)
      BY DEF IInv, MarkersCounted
    <3>2. Len(place') = Len(place) /\ Len(markers') = Len(markers) - 1
      BY <1>2, <2>2, <2>8
    <3>3. Len(place') = Len(sent') + Len(markers')
      BY <1>3, <2>3, <3>1, <3>2
    <3> QED BY <3>3 DEF MarkersCounted
  <2>11. MarkersPlaced'
    <3> SUFFICES ASSUME NEW i \in 1..Len(rest)
                 PROVE  base' + rest[i] = place[Len(sent') + i]
      BY <1>2, <2>8 DEF MarkersPlaced
    <3>1. base + markers[i + 1] = place[Len(sent) + (i + 1)]
      BY <2>4 DEF IInv, MarkersPlaced
    <3>2. base' = base /\ rest[i] = markers[i + 1]
      BY <2>2, <2>8, SMTT(40)
    <3>3. Len(sent) + (i + 1) = Len(sent') + i
      BY <1>3, <2>2, <2>3
    <3> QED BY <3>1, <3>2, <3>3
  <2>12. place[Len(sent) + 1] = base + offset /\ Len(sent) + 1 \in 1..Len(place)
    <3>1. 1 \in 1..Len(markers)
      BY <1>3, <2>2
    <3>2. base + markers[1] = place[Len(sent) + 1]
      BY <3>1 DEF IInv, MarkersPlaced
    <3>3. Len(sent) + 1 \in 1..Len(place)
      BY <1>3, <2>2 DEF IInv, MarkersCounted
    <3> QED BY <2>1, <3>2, <3>3
  <2>13. InPlace'
    <3> SUFFICES ASSUME NEW i \in 1..Len(sent')
                 PROVE  i \in 1..Len(place) /\ sent'[i] = place[i]
      BY <1>2, <2>3, SMTT(40) DEF IInv, TypeOK, InPlace
    <3>1. CASE i \in 1..Len(sent)
      BY <2>3, <3>1, SMTT(40) DEF IInv, TypeOK, InPlace
    <3>2. CASE i = Len(sent) + 1
      BY <2>3, <2>12, <3>2
    <3> QED BY <1>3, <2>3, <3>1, <3>2
  <2>14. NoneLeftBehind'
    <3> SUFFICES ASSUME NEW i \in 1..Len(place), i \notin 1..Len(sent')
                 PROVE  base' + offset' <= place[i]
      <4>1. DOMAIN sent' = 1..Len(sent') /\ DOMAIN place = 1..Len(place)
        BY <2>3 DEF IInv, TypeOK
      <4> QED BY <1>2, <2>8, <4>1 DEF NoneLeftBehind
    <3>1. i \notin 1..Len(sent)
      BY <1>3, <2>3
    <3>2. PICK k \in 1..Len(markers) : i = Len(sent) + k
      BY <3>1, UnsentHaveMarkers
    <3>3. k # 1 /\ k - 1 \in 1..Len(rest) /\ (k - 1) + 1 = k
      BY <1>3, <2>2, <2>3, <3>2
    <3>4. offset + count <= markers[k] /\ markers[k] \in Int
      <4>1. rest[k - 1] = markers[k] /\ offset + count <= rest[k - 1]
        BY <2>2, <2>7, <3>3
      <4> QED BY <3>2, <4>1, MarkerFacts
    <3>5. base + markers[k] = place[i]
      BY <3>2 DEF IInv, MarkersPlaced
    <3>6. base \in Nat /\ offset \in Nat
      BY MarkerFacts
    <3>7. base + offset + count <= base + markers[k]
      BY <1>1, <3>4, <3>6
    <3>8. base' + offset' <= base + markers[k]
      BY <2>8, <3>7
    <3> QED BY <3>5, <3>8
  <2> QED BY <2>8, <2>9, <2>10, <2>11, <2>13, <2>14 DEF IInv
<1>5. CASE ~SendsDescriptor
  <2>1. Advance(count, markers) /\ sent' = sent /\ ~MarkerPassed
    BY <1>5 DEF Send
  <2>2. offset + count <= size /\ \A i \in 1..Len(markers) : offset + count <= markers[i]
    <3>1. CASE markers # <<>>
      <4>1. 1 \in 1..Len(markers) /\ offset + count <= markers[1]
        BY <1>2, <1>3, <1>5, <3>1 DEF WriteEnd, IInv, TypeOK
      <4>2. offset \in Nat /\ size \in Nat /\ markers[1] \in Int /\ markers[1] < size
        BY <4>1, MarkerFacts
      <4>3. offset + count <= size
        BY <1>1, <4>1, <4>2
      <4>4. ASSUME NEW i \in 1..Len(markers)
            PROVE  offset + count <= markers[i]
        <5>1. markers[i] \in Int /\ (1 < i => markers[1] < markers[i])
          BY <4>1, MarkerFacts
        <5>2. i = 1 \/ 1 < i
          OBVIOUS
        <5> QED BY <1>1, <4>1, <4>2, <5>1, <5>2
      <4> QED BY <4>3, <4>4
    <3>2. CASE markers = <<>>
      BY <1>2, <1>5, <3>2 DEF WriteEnd
    <3> QED BY <3>1, <3>2
  <2>3. /\ markers' = markers /\ failed' = "none"
        /\ base' + offset' = base + offset + count
        /\ base' \in Nat /\ offset' \in Nat /\ size' \in Nat /\ size' <= MaxOutput
        /\ markers = <<>> \/ base' = base
        /\ MarkersInOrder'
    <3>1. /\ markers \in Seq(Int)
          /\ \A i \in 1..Len(markers) : markers[i] < size
          /\ \A i, j \in 1..Len(markers) : i < j => markers[i] < markers[j]
      BY DEF IInv, TypeOK, MarkersInOrder
    <3> QED BY <1>1, <2>1, <2>2, <3>1, AdvanceKeeps
  <2>4. TypeOK'
    BY <1>2, <2>1, <2>3 DEF IInv, TypeOK
  <2>5. MarkersCounted'
    BY <1>2, <2>1, <2>3 DEF IInv, MarkersCounted
  <2>6. MarkersPlaced'
    <3> SUFFICES ASSUME NEW i \in 1..Len(markers)
                 PROVE  base' + markers[i] = place[Len(sent) + i]
      BY <1>2, <2>1, <2>3 DEF MarkersPlaced
    <3>1. markers # <<>>
      OBVIOUS
    <3> QED BY <2>3, <3>1, MarkerFacts
  <2>7. InPlace'
    BY <1>2, <2>1 DEF IInv, InPlace
  <2>8. NoneLeftBehind'
    <3> SUFFICES ASSUME NEW i \in 1..Len(place), i \notin 1..Len(sent)
                 PROVE  base' + offset' <= place[i]
      <4>1. DOMAIN sent = 1..Len(sent) /\ DOMAIN place = 1..Len(place)
        BY DEF IInv, TypeOK
      <4> QED BY <1>2, <2>1, <2>3, <4>1 DEF NoneLeftBehind
    <3>1. PICK k \in 1..Len(markers) : i = Len(sent) + k
      BY UnsentHaveMarkers
    <3>2. base + markers[k] = place[i] /\ offset + count <= markers[k] /\ markers[k] \in Int
      BY <2>2, <3>1, MarkerFacts
    <3>3. base \in Nat /\ offset \in Nat
      BY MarkerFacts
    <3>4. base + offset + count <= base + markers[k]
      BY <1>1, <3>2, <3>3
    <3>5. base' + offset' <= base + markers[k]
      BY <2>3, <3>4
    <3> QED BY <3>2, <3>5
  <2> QED BY <2>3, <2>4, <2>5, <2>6, <2>7, <2>8 DEF IInv
<1> QED BY <1>4, <1>5

(***************************************************************************)
(* The invariant is inductive: Init implies it and every step of           *)
(* connection.cpp's output path keeps it.                                  *)
(***************************************************************************)
THEOREM Inductive == Spec => []IInv
<1>1. Init => IInv
  BY OutputAssumption DEF Init, IInv, TypeOK, MarkersInOrder, MarkersCounted, MarkersPlaced, InPlace,
         NoneLeftBehind, Failure
<1>2. IInv /\ [Next]_vars => IInv'
  <2> SUFFICES ASSUME IInv, [Next]_vars PROVE IInv'
    OBVIOUS
  <2>1. CASE UNCHANGED vars
    BY <2>1 DEF vars, IInv, TypeOK, MarkersInOrder, MarkersCounted, MarkersPlaced, InPlace,
                NoneLeftBehind
  <2>2. ASSUME failed = "none", NEW bytes \in 1..MaxReply, queue(bytes) \/ QueueFails(bytes)
        PROVE  IInv'
    BY <2>2, QueueInvariant
  <2>3. ASSUME failed = "none", NEW bytes \in 1..MaxReply, queue_with_fd(bytes)
        PROVE  IInv'
    BY <2>3, QueueWithFdInvariant
  <2>4. ASSUME failed = "none", NEW count \in 1..MaxOutput, Send(count)
        PROVE  IInv'
    BY <2>4, SendInvariant
  <2>5. CASE SendFails
    <3>1. ~MarkerPassed
      <4> SUFFICES ASSUME markers # <<>>, markers[1] < offset PROVE FALSE
        BY DEF MarkerPassed
      <4>1. 1 \in 1..Len(markers)
        BY DEF IInv, TypeOK
      <4>2. offset \in Nat /\ markers[1] \in Int /\ offset <= markers[1]
        BY <4>1, MarkerFacts
      <4> QED BY <4>2
    <3>2. failed' = "socket" /\ UNCHANGED <<size, offset, markers, base, place, sent>>
      BY <2>5, <3>1 DEF SendFails
    <3> QED BY <3>2 DEF IInv, TypeOK, MarkersInOrder, MarkersCounted, MarkersPlaced,
                        InPlace, NoneLeftBehind, Failure
  <2> QED BY <2>1, <2>2, <2>3, <2>4, <2>5 DEF Next
<1> QED BY <1>1, <1>2, PTL DEF Spec

(***************************************************************************)
(* Descriptors are sent with the first byte of their replies, in order.    *)
(***************************************************************************)
THEOREM DescriptorsInPlace == Spec => []InPlace
<1>1. IInv => InPlace
  BY DEF IInv
<1> QED BY <1>1, Inductive, PTL

(***************************************************************************)
(* on_writable never passes a marker and never ends with one unsent.       *)
(***************************************************************************)
THEOREM DescriptorsNotLeftBehind == Spec => []NoneLeftBehind
<1>1. IInv => NoneLeftBehind
  BY DEF IInv
<1> QED BY <1>1, Inductive, PTL
=============================================================================
