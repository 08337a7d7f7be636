----------------------------- MODULE EventQueue -----------------------------
(***************************************************************************)
(* The event queues of ServerState, push by push.                          *)
(*                                                                         *)
(* queue_events_atomically checks the capacity for a whole list of planned *)
(* events, pushes them one by one, and takes the pushed ones back when the *)
(* memory for one of them cannot be had.  event_queues_ is a map that has  *)
(* an entry for a client while events are queued for it, and               *)
(* pending_events_ is a counter kept beside it.                            *)
(*                                                                         *)
(* A definition Name_Mistake in front of Name is Name with a mistake that  *)
(* the code could have made; no specification uses it.                     *)
(***************************************************************************)
EXTENDS EventPlan, SequencesExt

CONSTANTS
  Kinds,         \* kinds of events
  MaxPlan,       \* bound: events in one plan
  MaxSequence    \* bound: requests read from one client

ASSUME QueueAssumption ==
  /\ MaxPlan \in Nat
  /\ MaxSequence \in Nat

VARIABLES
  queues,      \* event_queues_, a function on the clients that have an entry
  pending,     \* pending_events_
  sequence,    \* the numbers kept in clients_
  events,      \* the argument of the running queue_events_atomically
  index,       \* its loop variable: how many of the events are pushed
  pc           \* "idle", "push" or "undo"

vars == <<queues, pending, sequence, events, index, pc>>

PlannedEvent == [to : Client, type : Kinds]
Event == [type : Kinds, sequence : 0..MaxSequence]

TypeOK ==
  /\ \E S \in SUBSET Client : queues \in [S -> Seq(Event)]
  /\ pending \in Nat
  /\ sequence \in [Client -> 0..MaxSequence]
  /\ events \in Seq(PlannedEvent)
  /\ index \in 0..Len(events)
  /\ pc \in {"idle", "push", "undo"}

Init ==
  /\ queues = << >>
  /\ pending = 0
  /\ sequence = [c \in Client |-> 0]
  /\ events = << >>
  /\ index = 0
  /\ pc = "idle"
-----------------------------------------------------------------------------
(* The events queued for a client, and the map with another queue for it,  *)
(* without one, or without one if it becomes empty.                        *)
Queued(c) == IF c \in DOMAIN queues THEN queues[c] ELSE << >>
AllQueues == [c \in Client |-> Queued(c)]
SetQueue(c, q) ==
  [d \in DOMAIN queues \cup {c} |-> IF d = c THEN q ELSE queues[d]]
EraseQueue(c) == [d \in DOMAIN queues \ {c} |-> queues[d]]
Shortened(c, q) == IF q = << >> THEN EraseQueue(c) ELSE SetQueue(c, q)

can_queue_event(c) ==
  pending < MaxPending /\ Len(Queued(c)) < MaxPerClient

(* The checks of queue_events_atomically: each event, with those before it *)
(* for the same client, fits the room of that client.                      *)
Among(plan, n, c) == {i \in 1..n : plan[i].to = c}
Additions(plan, i) == Cardinality(Among(plan, i, plan[i].to))
HasCapacity_PerEvent(plan) ==
  /\ Len(plan) <= MaxPending - pending
  /\ \A i \in DOMAIN plan : 1 <= MaxPerClient - Len(Queued(plan[i].to))
HasCapacity(plan) ==
  /\ Len(plan) <= MaxPending - pending
  /\ \A i \in DOMAIN plan : Additions(plan, i) <= MaxPerClient - Len(Queued(plan[i].to))

(* The call goes on at place, having pushed n events, or returns. *)
Goto(place, plan, n) ==
  IF place = "idle" THEN pc' = "idle" /\ events' = << >> /\ index' = 0
                    ELSE pc' = place /\ events' = plan /\ index' = n

(* A plan is refused before anything is pushed. *)
Refuse(plan) ==
  /\ pc = "idle"
  /\ ~HasCapacity(plan)
  /\ UNCHANGED vars

Begin(plan) ==
  /\ pc = "idle"
  /\ HasCapacity(plan)
  /\ Goto(IF plan = << >> THEN "idle" ELSE "push", plan, 0)
  /\ UNCHANGED <<queues, pending, sequence>>

queue_event(e) ==
  /\ can_queue_event(e.to)
  /\ queues' = SetQueue(e.to, Append(Queued(e.to),
                          [type |-> e.type, sequence |-> sequence[e.to]]))
  /\ pending' = pending + 1

(* queue_event for the next event of the plan. *)
Push ==
  LET e == events[index + 1]
  IN  /\ pc = "push" /\ queue_event(e)
      /\ Goto(IF index + 1 = Len(events) THEN "idle" ELSE "push", events, index + 1)
      /\ UNCHANGED sequence

(***************************************************************************)
(* queue_event fails: it is refused, or the memory for the entry of the    *)
(* client or for the event cannot be had.  An entry that was just made is  *)
(* erased again.                                                           *)
(***************************************************************************)
PushFails ==
  LET c == events[index + 1].to
  IN  /\ pc = "push"
      /\ queues' = Shortened(c, Queued(c))
      /\ Goto(IF index = 0 THEN "idle" ELSE "undo", events, index)
      /\ UNCHANGED <<pending, sequence>>

(* One event is taken back, the last pushed first. *)
Undo_Uncounted ==
  LET c == events[index].to
  IN  /\ pc = "undo"
      /\ queues' = Shortened(c, Front(queues[c]))
      /\ Goto(IF index = 1 THEN "idle" ELSE "undo", events, index - 1)
      /\ UNCHANGED <<pending, sequence>>
Undo_Oldest ==
  LET c == events[index].to
  IN  /\ pc = "undo"
      /\ queues' = Shortened(c, Tail(queues[c]))
      /\ pending' = pending - 1
      /\ Goto(IF index = 1 THEN "idle" ELSE "undo", events, index - 1)
      /\ UNCHANGED sequence
Undo ==
  LET c == events[index].to
  IN  /\ pc = "undo"
      /\ queues' = Shortened(c, Front(queues[c]))
      /\ pending' = pending - 1
      /\ Goto(IF index = 1 THEN "idle" ELSE "undo", events, index - 1)
      /\ UNCHANGED sequence

(* The requests with one event, such as MapRequest, call queue_event alone. *)
QueueOne(e) ==
  /\ pc = "idle" /\ queue_event(e)
  /\ UNCHANGED <<sequence, events, index, pc>>

(* It fails for lack of memory; an empty entry may stay in the map. *)
QueueOneFails(e) ==
  /\ pc = "idle" /\ can_queue_event(e.to)
  /\ queues' = SetQueue(e.to, Queued(e.to))
  /\ UNCHANGED <<pending, sequence, events, index, pc>>

(* Connection::drain_pending_events takes the oldest event of a client. *)
pop_event(c) ==
  /\ pc = "idle"
  /\ c \in DOMAIN queues /\ queues[c] # << >>
  /\ queues' = Shortened(c, Tail(queues[c]))
  /\ pending' = pending - 1
  /\ UNCHANGED <<sequence, events, index, pc>>

(* note_client_sequence, for the request that is read next. *)
note_client_sequence(c) ==
  /\ pc = "idle"
  /\ sequence[c] < MaxSequence
  /\ sequence' = [sequence EXCEPT ![c] = @ + 1]
  /\ UNCHANGED <<queues, pending, events, index, pc>>

(* disconnect_client drops the queue whole. *)
disconnect_client(c) ==
  /\ pc = "idle"
  /\ queues' = EraseQueue(c)
  /\ pending' = pending - Len(Queued(c))
  /\ sequence' = [sequence EXCEPT ![c] = 0]
  /\ UNCHANGED <<events, index, pc>>
-----------------------------------------------------------------------------
Plans == UNION {[1..n -> PlannedEvent] : n \in 0..MaxPlan}

Next ==
  \/ \E plan \in Plans : Refuse(plan) \/ Begin(plan)
  \/ Push \/ PushFails \/ Undo
  \/ \E e \in PlannedEvent : QueueOne(e) \/ QueueOneFails(e)
  \/ \E c \in Client : pop_event(c) \/ note_client_sequence(c) \/ disconnect_client(c)

Spec == Init /\ [][Next]_vars
-----------------------------------------------------------------------------
(* Properties.                                                             *)

(***************************************************************************)
(* pending_events_ counts the queued events, whatever was taken back,      *)
(* popped or dropped, and neither limit is passed at any push: were it to  *)
(* run ahead, the server would end up refusing every event, and behind or  *)
(* past a limit the unsigned differences of the checks would wrap.         *)
(***************************************************************************)
CountsAgree ==
  /\ pending = TotalEvents(AllQueues)
  /\ pending <= MaxPending
  /\ \A c \in Client : Len(Queued(c)) <= MaxPerClient

(***************************************************************************)
(* The check up front is exact: it accepts the plans that EventPlan says   *)
(* fit.                                                                    *)
(***************************************************************************)
KindsFor(plan, c) ==
  LET kinds[n \in 0..Len(plan)] ==
        IF n = 0 THEN << >>
        ELSE IF plan[n].to = c THEN Append(kinds[n - 1], plan[n].type) ELSE kinds[n - 1]
  IN  kinds[Len(plan)]
PlanOf(plan) == [c \in Client |-> KindsFor(plan, c)]
CheckIsExact ==
  pc = "idle" => \A plan \in Plans :
    HasCapacity(plan) <=> Fits(AllQueues, pending, PlanOf(plan))

(***************************************************************************)
(* After the check up front no push is refused for lack of room: only the  *)
(* want of memory makes one fail.                                          *)
(***************************************************************************)
NoPushRefused == pc = "push" => can_queue_event(events[index + 1].to)

(***************************************************************************)
(* Seen from outside, a call queues its whole plan or leaves the queues as *)
(* they were, whichever push fails: with the events pushed so far left     *)
(* out until the last one is in, these queues are AtomicQueues.            *)
(***************************************************************************)
Pushed(c) == Cardinality(Among(events, index, c))
Visible(c) == SubSeq(Queued(c), 1, Len(Queued(c)) - Pushed(c))
VisibleQueues == [c \in Client |-> Visible(c)]
Abstract == INSTANCE AtomicQueues WITH queue <- VisibleQueues
IsAtomic == Abstract!Spec
=============================================================================
