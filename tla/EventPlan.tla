------------------------------ MODULE EventPlan ------------------------------
(***************************************************************************)
(* Planned events and the bounded per-client queues of ServerState.        *)
(*                                                                         *)
(* Every state-changing request of the server first plans its events as a  *)
(* list of (recipient, event) pairs, asks queue_events_atomically to queue *)
(* all of them, and changes the state only if that succeeded.  A plan is   *)
(* represented here by what each recipient gets, in planning order: the    *)
(* relative order of events for different recipients is not observable,    *)
(* because every client has a queue of its own.                            *)
(***************************************************************************)
EXTENDS Integers, Sequences, FiniteSets, Functions

CONSTANTS
  Client,          \* the client slots: the n-th slot of the server is n, and
                   \* stands for the resource base n * 0x00200000
  MaxPerClient,    \* maximum_pending_events_per_client (256)
  MaxPending       \* maximum_pending_events (4096)

ASSUME LimitsAssumption ==
  /\ IsFiniteSet(Client) /\ Client \subseteq Nat \ {0}
  /\ MaxPerClient \in Nat
  /\ MaxPending \in Nat

(* The places of all queues, and how many there are: what pending_events_  *)
(* should count.                                                           *)
Places(queues) == UNION {{c} \X DOMAIN queues[c] : c \in Client}
TotalEvents(queues) == Cardinality(Places(queues))

(* A plan that sends the one event e to client c. *)
PlanFor(c, e) == [d \in Client |-> IF d = c THEN <<e>> ELSE << >>]

(* A plan that sends the event e to every client of the set C. *)
PlanForAll(C, e) == [d \in Client |-> IF d \in C THEN <<e>> ELSE << >>]

(***************************************************************************)
(* The capacity checks at the head of queue_events_atomically: the whole   *)
(* plan fits the global limit, and for every recipient its own events fit  *)
(* the room left in its queue.                                             *)
(***************************************************************************)
Fits(queues, pending, plan) ==
  /\ TotalEvents(plan) <= MaxPending - pending
  /\ \A c \in Client :
       plan[c] # << >> => Len(plan[c]) <= MaxPerClient - Len(queues[c])

(***************************************************************************)
(* What the pushes of queue_events_atomically leave behind: each recipient *)
(* has its planned events appended, stamped with the sequence number of    *)
(* the last request the server read from that recipient.                   *)
(***************************************************************************)
Stamped(kinds, number) ==
  [i \in 1..Len(kinds) |-> [type |-> kinds[i], sequence |-> number]]
Deliver(queues, plan, sequence) ==
  [c \in Client |-> queues[c] \o Stamped(plan[c], sequence[c])]
=============================================================================
