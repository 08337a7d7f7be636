----------------------------- MODULE AtomicQueues -----------------------------
(***************************************************************************)
(* What queue_events_atomically promises the rest of the server: a plan is *)
(* queued as a whole, in one step and within the limits, or not at all.    *)
(***************************************************************************)
EXTENDS EventPlan

CONSTANT Kinds     \* kinds of events

VARIABLES
  queue,     \* the events each client has still to be sent
  sequence   \* the number of the last request read from each client

(* The plans there could be: what each client is told. *)
IsPlan(plan) == plan \in [Client -> Seq(Kinds)]

Init ==
  /\ queue = [c \in Client |-> << >>]
  /\ sequence = [c \in Client |-> 0]

(* The kinds of the events by which a queue has grown at its end. *)
Added(before, after) ==
  [i \in 1..(Len(after) - Len(before)) |-> after[Len(before) + i].type]

(* The next state of the queues is the delivery of a plan that fits. *)
Transact ==
  /\ \A c \in Client : Len(queue'[c]) >= Len(queue[c])
  /\ LET plan == [c \in Client |-> Added(queue[c], queue'[c])]
     IN  /\ IsPlan(plan)
         /\ Fits(queue, TotalEvents(queue), plan)
         /\ queue' = Deliver(queue, plan, sequence)
  /\ UNCHANGED sequence

(* A client's oldest event is encoded for it. *)
Pop(c) ==
  /\ queue[c] # << >>
  /\ queue' = [queue EXCEPT ![c] = Tail(@)]
  /\ UNCHANGED sequence

(* A client disconnects. *)
Drop(c) ==
  /\ queue' = [queue EXCEPT ![c] = << >>]
  /\ sequence' = [sequence EXCEPT ![c] = 0]

(* A request of a client is read. *)
Note(c) ==
  /\ sequence' = [sequence EXCEPT ![c] = @ + 1]
  /\ UNCHANGED queue

Next ==
  \/ Transact
  \/ \E c \in Client : Pop(c) \/ Drop(c) \/ Note(c)

Spec == Init /\ [][Next]_<<queue, sequence>>
=============================================================================
