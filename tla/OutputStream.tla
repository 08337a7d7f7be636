---------------------------- MODULE OutputStream ----------------------------
(***************************************************************************)
(* The output of a connection and the descriptors that travel with it.     *)
(* A reply that carries a descriptor leaves a marker at its first byte;    *)
(* sendmsg hands the descriptor over with that byte, whatever the sizes of *)
(* the writes before it and however often the buffer was compacted.        *)
(*                                                                         *)
(* Bytes are counted, not kept.  base, place and sent are not in the       *)
(* program: the position in the whole stream of the first byte of the      *)
(* buffer, the positions where replies with descriptors begin, and the     *)
(* positions with which descriptors were sent.                             *)
(*                                                                         *)
(* A definition Name_Mistake in front of Name is Name with a mistake that  *)
(* the code could have made; no specification uses it.                     *)
(***************************************************************************)
EXTENDS Integers, Sequences

CONSTANTS
  MaxOutput,   \* maximum_buffered_output
  MaxReply,    \* bound: bytes of a reply
  MaxStream    \* bound: bytes queued in all

ASSUME OutputAssumption == MaxOutput \in Nat /\ MaxReply \in Nat /\ MaxStream \in Nat

VARIABLES
  size,       \* output_.size()
  offset,     \* output_offset_
  markers,    \* pending_output_fds_: the offsets
  failed,     \* the failure that ended the connection, or "none"
  base,       \* bytes that left the buffer
  place,      \* where the reply of each descriptor begins
  sent        \* with which byte each descriptor was sent

vars == <<size, offset, markers, failed, base, place, sent>>

Failure == {"none", "limit", "memory", "socket", "passed", "unsent"}

TypeOK ==
  /\ size \in Nat /\ offset \in Nat /\ base \in Nat
  /\ markers \in Seq(Int) /\ place \in Seq(Nat) /\ sent \in Seq(Nat)
  /\ failed \in Failure
  /\ size <= MaxOutput

Init ==
  /\ size = 0 /\ offset = 0 /\ markers = <<>> /\ failed = "none"
  /\ base = 0 /\ place = <<>> /\ sent = <<>>

(* compact_output: the buffer it leaves. *)
compact_output_KeepsOffsets ==
  IF offset = size
  THEN [size |-> 0, markers |-> IF offset = 0 THEN markers ELSE <<>>]
  ELSE [size |-> size - offset, markers |-> markers]
compact_output ==
  IF offset = 0 THEN [size |-> size, markers |-> markers]
  ELSE IF offset = size THEN [size |-> 0, markers |-> <<>>]
  ELSE [size |-> size - offset,
        markers |-> [i \in 1..Len(markers) |-> markers[i] - offset]]

Compact(extra, marks) ==
  /\ size' = compact_output.size + extra
  /\ markers' = marks
  /\ offset' = 0 /\ base' = base + offset

(* The limit is passed or there is no memory; the caller gives up the
   connection, which was compacted before. *)
QueueFails(bytes) ==
  /\ \/ compact_output.size + bytes > MaxOutput /\ failed' = "limit"
     \/ compact_output.size + bytes <= MaxOutput /\ failed' = "memory"
  /\ Compact(0, compact_output.markers)
  /\ UNCHANGED <<place, sent>>

queue(bytes) ==
  /\ compact_output.size + bytes <= MaxOutput
  /\ Compact(bytes, compact_output.markers)
  /\ UNCHANGED <<failed, place, sent>>

queue_with_fd_Early(bytes) ==
  /\ compact_output.size + bytes <= MaxOutput
  /\ Compact(bytes, Append(compact_output.markers, 0))
  /\ place' = Append(place, base + size)
  /\ UNCHANGED <<failed, sent>>
queue_with_fd(bytes) ==
  /\ compact_output.size + bytes <= MaxOutput
  /\ Compact(bytes, Append(compact_output.markers, compact_output.size))
  /\ place' = Append(place, base + size)
  /\ UNCHANGED <<failed, sent>>

(* Whether the next write carries a descriptor, and where it must end. *)
SendsDescriptor == markers # <<>> /\ markers[1] = offset
WriteEnd ==
  IF SendsDescriptor THEN (IF Len(markers) > 1 THEN markers[2] ELSE size)
  ELSE IF markers # <<>> THEN markers[1] ELSE size

(* What is left when count bytes have gone, markers to marks. *)
Advance(count, marks) ==
  IF offset + count < size
  THEN /\ offset' = offset + count /\ markers' = marks
       /\ UNCHANGED <<size, base, failed>>
  ELSE /\ size' = 0 /\ offset' = 0 /\ base' = base + size /\ markers' = marks
       /\ failed' = IF marks # <<>> THEN "unsent" ELSE failed

MarkerPassed == markers # <<>> /\ markers[1] < offset

(* One sendmsg or write of on_writable's loop. *)
Send(count) ==
  /\ offset < size /\ ~MarkerPassed
  /\ offset + count <= WriteEnd
  /\ IF SendsDescriptor
     THEN Advance(count, Tail(markers)) /\ sent' = Append(sent, base + offset)
     ELSE Advance(count, markers) /\ UNCHANGED sent
  /\ UNCHANGED place

(* The loop finds that it has passed a marker, or the socket fails. *)
SendFails ==
  /\ offset < size
  /\ failed' = IF MarkerPassed THEN "passed" ELSE "socket"
  /\ UNCHANGED <<size, offset, markers, base, place, sent>>

Next ==
  /\ failed = "none"
  /\ \/ \E bytes \in 1..MaxReply :
          /\ base + size + bytes <= MaxStream
          /\ queue(bytes) \/ queue_with_fd(bytes) \/ QueueFails(bytes)
     \/ \E count \in 1..MaxOutput : Send(count)
     \/ SendFails

Spec == Init /\ [][Next]_vars
-----------------------------------------------------------------------------
(* Properties.                                                             *)

(***************************************************************************)
(* Every descriptor is sent with the first byte of its own reply, in the   *)
(* order of the replies.                                                   *)
(***************************************************************************)
InPlace == \A i \in DOMAIN sent : i \in DOMAIN place /\ sent[i] = place[i]

(***************************************************************************)
(* No descriptor is left behind: the bytes that are gone end before the    *)
(* reply of every descriptor not yet sent, so the two failures on_writable *)
(* has for that ("descriptor output marker was passed without being sent", *)
(* "unsent descriptor output marker") cannot happen.                       *)
(***************************************************************************)
NoneLeftBehind ==
  /\ failed \notin {"passed", "unsent"}
  /\ \A i \in DOMAIN place : i \notin DOMAIN sent => base + offset <= place[i]

(***************************************************************************)
(* The inductive invariant: the markers are the descriptors not yet sent,  *)
(* in order, each between the bytes that are gone and the end.             *)
(***************************************************************************)
MarkersInOrder ==
  /\ offset <= size
  /\ \A i \in 1..Len(markers) : offset <= markers[i] /\ markers[i] < size
  /\ \A i, j \in 1..Len(markers) : i < j => markers[i] < markers[j]
  /\ size = 0 => markers = <<>>

MarkersCounted == Len(place) = Len(sent) + Len(markers)

MarkersPlaced == \A i \in 1..Len(markers) : base + markers[i] = place[Len(sent) + i]

IInv ==
  /\ TypeOK /\ MarkersInOrder /\ MarkersCounted /\ MarkersPlaced
  /\ InPlace /\ NoneLeftBehind
=============================================================================
