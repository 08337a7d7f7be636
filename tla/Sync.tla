-------------------------------- MODULE Sync --------------------------------
(***************************************************************************)
(* The SYNC extension: counters, alarms on them, fences, and the clients   *)
(* that wait for them.  A change of a counter fires the alarms and ends    *)
(* the waits it satisfies; all its events are queued or none, and when     *)
(* they do not fit the request is refused and nothing changes.             *)
(*                                                                         *)
(* Integers are Width bits wide.  An identifier lies in the range of one   *)
(* client, Owner[id].  Requests that are answered with an error change     *)
(* nothing and are not steps.  The timestamps and counter values inside    *)
(* events are left out; of the two queue limits the one of a client is     *)
(* kept.                                                                   *)
(*                                                                         *)
(* A definition Name_Mistake in front of Name is Name with a mistake that  *)
(* the code could have made; no specification uses it.                     *)
(***************************************************************************)
EXTENDS Integers, Sequences, FiniteSets, SequencesExt

CONSTANTS
  Client, Counter, Alarm, Fence,   \* identifiers
  None,          \* no counter (0), no record
  Owner,         \* in whose range an identifier lies
  Width,         \* the width of std::int64_t
  MaxQueue,      \* maximum_pending_events_per_client
  MaxConditions, \* bound: conditions of an Await
  WaitValue,     \* bound: the wait values and deltas of requests
  WaitType,      \* bound: the test types of requests
  Threshold,     \* bound: the event thresholds of an Await
  Masks,         \* bound: the value masks of CreateAlarm and ChangeAlarm
  Ops            \* the groups of operations clients use

TestType ==
  {"positive_transition", "negative_transition", "positive_comparison", "negative_comparison"}

ASSUME SyncAssumption ==
  /\ Owner \in [Counter \cup Alarm \cup Fence -> Client]
  /\ Counter \cap Alarm = {} /\ (Counter \cup Alarm) \cap Fence = {}
  /\ None \notin Counter /\ IsFiniteSet(Counter \cup Alarm \cup Fence)
  /\ WaitType \subseteq TestType
  /\ Width \in Nat \ {0, 1} /\ MaxQueue \in Nat /\ MaxConditions \in Nat

VARIABLES
  connected,   \* clients_
  counter,     \* sync_counters_: the value, or None
  alarm,       \* sync_alarms_: the record, or None
  fence,       \* sync_fences_
  waits,       \* sync_counter_waits_: the conditions, <<>> for no wait
  fwaits,      \* sync_fence_waits_: the fences, {} for no wait
  queue        \* event_queues_

vars == <<connected, counter, alarm, fence, waits, fwaits, queue>>
-----------------------------------------------------------------------------
(* 64-bit arithmetic, at Width bits.                                       *)

Modulus == 2^Width
MaxInt == 2^(Width - 1) - 1
MinInt == -(2^(Width - 1))
Value == MinInt..MaxInt

(* The values requests may name are values, None is not one; and what the
   provers, who know nothing of powers, need of them. *)
ASSUME ValueAssumption ==
  /\ WaitValue \subseteq Value /\ Threshold \subseteq Value
  /\ None \notin Int
  /\ 2^(Width - 1) \in Nat \ {0, 1} /\ 2^Width = 2 * 2^(Width - 1)

Bits(v) == v % Modulus
signed_from_bits(bits) == IF bits <= MaxInt THEN bits ELSE -1 - (Modulus - 1 - bits)
nonnegative_distance(greater, lesser) == (Bits(greater) - Bits(lesser)) % Modulus

checked_add(left, right) == IF left + right \in Value THEN left + right ELSE None
checked_subtract(left, right) == IF left - right \in Value THEN left - right ELSE None
-----------------------------------------------------------------------------
(* Triggers and alarms.                                                    *)

Positive(type) == type \in {"positive_transition", "positive_comparison"}
Comparison(type) == type \in {"positive_comparison", "negative_comparison"}

Condition == [counter : Counter, test : Value, type : TestType, threshold : Value]
AlarmRecord ==
  [counter : Counter \cup {None}, wait : Value, relative : BOOLEAN, test : Value,
   type : TestType, delta : Value, clients : SUBSET Client, state : {"active", "inactive"}]
ASSUME RecordAssumption == None \notin AlarmRecord
Event ==
  [about : Counter, count : 0..MaxConditions]
  \cup [about : Alarm, state : {"active", "inactive", "destroyed"}]

TypeOK ==
  /\ connected \subseteq Client
  /\ counter \in [Counter -> Value \cup {None}]
  /\ alarm \in [Alarm -> AlarmRecord \cup {None}]
  /\ fence \in [Fence -> {"none", "reset", "triggered"}]
  /\ \A c \in Client : /\ waits[c] \in Seq(Condition) /\ Len(waits[c]) <= MaxConditions
                       /\ fwaits[c] \subseteq Fence
                       /\ queue[c] \in Seq(Event) /\ Len(queue[c]) <= MaxQueue

Init ==
  /\ connected = {}
  /\ counter = [x \in Counter |-> None] /\ alarm = [a \in Alarm |-> None]
  /\ fence = [f \in Fence |-> "none"]
  /\ waits = [c \in Client |-> <<>>] /\ fwaits = [c \in Client |-> {}]
  /\ queue = [c \in Client |-> <<>>]

sync_trigger_fired(trigger, old, new) ==
  CASE trigger.type = "positive_transition" -> old < trigger.test /\ new >= trigger.test
    [] trigger.type = "negative_transition" -> old > trigger.test /\ new <= trigger.test
    [] trigger.type = "positive_comparison" -> new >= trigger.test
    [] trigger.type = "negative_comparison" -> new <= trigger.test

sync_notification_eligible(condition, value) ==
  LET difference == checked_subtract(value, condition.test)
  IN /\ difference # None
     /\ IF Positive(condition.type) THEN difference >= condition.threshold
        ELSE difference <= condition.threshold

(* How far an alarm's test value moves past the counter: in multiples of
   its delta, in unsigned arithmetic that must neither wrap nor leave the
   range; None when it cannot. *)
Movement_Unchecked(a, value) ==
  LET magnitude == IF Positive(a.type) THEN Bits(a.delta) ELSE Bits(0 - a.delta)
      distance == IF Positive(a.type) THEN nonnegative_distance(value, a.test)
                  ELSE nonnegative_distance(a.test, value)
  IN (distance \div magnitude + 1) * magnitude
Movement_TwoSteps(a, value) ==
  LET magnitude == IF Positive(a.type) THEN Bits(a.delta) ELSE Bits(0 - a.delta)
      distance == IF Positive(a.type) THEN nonnegative_distance(value, a.test)
                  ELSE nonnegative_distance(a.test, value)
      steps == distance \div magnitude + 2
      available == IF Positive(a.type) THEN nonnegative_distance(MaxInt, a.test)
                   ELSE nonnegative_distance(a.test, MinInt)
  IN IF steps * magnitude > available THEN None ELSE steps * magnitude
Movement(a, value) ==
  LET magnitude == IF Positive(a.type) THEN Bits(a.delta) ELSE Bits(0 - a.delta)
      distance == IF Positive(a.type) THEN nonnegative_distance(value, a.test)
                  ELSE nonnegative_distance(a.test, value)
      quotient == distance \div magnitude
      available == IF Positive(a.type) THEN nonnegative_distance(MaxInt, a.test)
                   ELSE nonnegative_distance(a.test, MinInt)
  IN IF \/ magnitude = 0
        \/ quotient = Modulus - 1
        \/ quotient + 1 > (Modulus - 1) \div magnitude
        \/ (quotient + 1) * magnitude > available
     THEN None ELSE (quotient + 1) * magnitude

Inactive(a) == [a EXCEPT !.state = "inactive"]
Moved(a, test) == IF test = None THEN Inactive(a) ELSE [a EXCEPT !.test = test]

advance_alarm(a, value) ==
  IF a.state # "active" THEN a
  ELSE IF ~Comparison(a.type) THEN Moved(a, checked_add(a.test, a.delta))
  ELSE IF a.delta = 0 THEN Inactive(a)
  ELSE LET movement == Movement(a, value)
       IN IF movement = None THEN Inactive(a)
          ELSE Moved(a, signed_from_bits(Bits(IF Positive(a.type) THEN Bits(a.test) + movement
                                              ELSE Bits(a.test) - movement)))
-----------------------------------------------------------------------------
(* Updates of the tables.  S is a state of them, as a record.              *)

Tables ==
  [counter |-> counter, alarm |-> alarm, fence |-> fence, waits |-> waits, fwaits |-> fwaits,
   queue |-> queue]

NoEvents == [c \in Client |-> <<>>]

(* queue_events_atomically. *)
Fits(S, plan) ==
  \A c \in Client : plan[c] # <<>> => Len(S.queue[c]) + Len(plan[c]) <= MaxQueue
Queued(S, plan) == [S EXCEPT !.queue = [c \in Client |-> S.queue[c] \o plan[c]]]

AlarmEvents(a, clients, state) ==
  [c \in Client |-> IF c \in clients THEN <<[about |-> a, state |-> state]>> ELSE <<>>]

(* update_sync_counter: which alarms and waits it concerns, what becomes of
   them, and the events.  new is None when the counter is destroyed. *)
Fires(trigger, x, old, new) ==
  trigger.counter = x /\ (new = None \/ sync_trigger_fired(trigger, old, new))

RevisedAlarm(a, new) ==
  IF new = None THEN [a EXCEPT !.state = "inactive", !.counter = None]
  ELSE advance_alarm(a, new)

AlarmsPlan(S, x, new, c) ==
  LET hit == SetToSeq({a \in Alarm : /\ S.alarm[a] # None /\ c \in S.alarm[a].clients
                                     /\ Fires(S.alarm[a], x, S.counter[x], new)})
  IN [i \in 1..Len(hit) |->
        [about |-> hit[i], state |-> RevisedAlarm(S.alarm[hit[i]], new).state]]

WaitEnds_FirstOnly(S, x, new, c) ==
  S.waits[c] # <<>> /\ Fires(S.waits[c][1], x, S.counter[x], new)
WaitEnds(S, x, new, c) == \E i \in DOMAIN S.waits[c] : Fires(S.waits[c][i], x, S.counter[x], new)

(* The elements of a sequence at the places wanted. *)
Picked(seq, wanted) ==
  LET part[n \in 0..Len(seq)] ==
        IF n = 0 THEN <<>>
        ELSE IF n \in wanted THEN Append(part[n - 1], seq[n]) ELSE part[n - 1]
  IN part[Len(seq)]

Notified(S, x, new, conditions) ==
  Picked(conditions, {i \in DOMAIN conditions :
    LET d == conditions[i]
    IN IF d.counter = x THEN new = None \/ sync_notification_eligible(d, new)
       ELSE S.counter[d.counter] # None /\ sync_notification_eligible(d, S.counter[d.counter])})

(* The notifications of a wait, each with the number of those that follow. *)
Numbered(conditions) ==
  [i \in 1..Len(conditions) |-> [about |-> conditions[i].counter, count |-> Len(conditions) - i]]

UpdatePlan(S, x, new) ==
  [c \in Client |-> AlarmsPlan(S, x, new, c)
                    \o (IF WaitEnds(S, x, new, c) THEN Numbered(Notified(S, x, new, S.waits[c]))
                        ELSE <<>>)]

update_sync_counter(S, x, new) ==
  [S EXCEPT
     !.alarm = [a \in Alarm |->
       IF S.alarm[a] # None /\ Fires(S.alarm[a], x, S.counter[x], new)
       THEN RevisedAlarm(S.alarm[a], new) ELSE S.alarm[a]],
     !.waits = [c \in Client |-> IF WaitEnds(S, x, new, c) THEN <<>> ELSE S.waits[c]],
     !.counter[x] = new]

(* commit_sync_alarm. *)
commit_sync_alarm(S, a) ==
  LET value == IF a.counter = None THEN None ELSE S.counter[a.counter]
      fresh == [a EXCEPT !.state = IF value = None THEN "inactive" ELSE "active"]
      fired == value # None /\ sync_trigger_fired(a, value, value)
  IN [fired |-> fired, alarm |-> IF fired THEN advance_alarm(fresh, value) ELSE fresh]

(* erase_sync_alarm: the events. *)
ErasePlan(S, a) ==
  IF S.alarm[a].counter = None THEN NoEvents
  ELSE AlarmEvents(a, S.alarm[a].clients, "destroyed")

(* The waits trigger_sync_fence and erase_sync_fence end. *)
FenceWaitsEnded(S, f) == [c \in Client |-> IF f \in S.fwaits[c] THEN {} ELSE S.fwaits[c]]
-----------------------------------------------------------------------------
(* Requests.                                                               *)

sync_waiting(c) == waits[c] # <<>> \/ fwaits[c] # {}

(* A client's requests are read while it does not wait. *)
Reads(c) == c \in connected /\ ~sync_waiting(c)

Become(S) ==
  /\ counter' = S.counter /\ alarm' = S.alarm /\ fence' = S.fence
  /\ waits' = S.waits /\ fwaits' = S.fwaits /\ queue' = S.queue

(* finish_update: the change with its events, and the requester's queue
   drained into its output. *)
finish_update(c, S, plan) ==
  /\ Fits(Tables, plan)
  /\ Become([Queued(S, plan) EXCEPT !.queue[c] = <<>>])
  /\ UNCHANGED connected

CreateCounter(c, x, value) ==
  /\ Reads(c) /\ Owner[x] = c /\ counter[x] = None
  /\ counter' = [counter EXCEPT ![x] = value]
  /\ UNCHANGED <<connected, alarm, fence, waits, fwaits, queue>>

SetCounter(c, x, value) ==
  /\ Reads(c) /\ counter[x] # None
  /\ finish_update(c, update_sync_counter(Tables, x, value), UpdatePlan(Tables, x, value))

ChangeCounter(c, x, amount) ==
  /\ Reads(c) /\ counter[x] # None
  /\ LET value == checked_add(counter[x], amount)
     IN /\ value # None
        /\ finish_update(c, update_sync_counter(Tables, x, value), UpdatePlan(Tables, x, value))

DestroyCounter(c, x) ==
  /\ Reads(c) /\ counter[x] # None
  /\ finish_update(c, update_sync_counter(Tables, x, None), UpdatePlan(Tables, x, None))

(* The condition a request asks for; relative values are resolved against
   the counter at once. *)
Requested(x, wait, relative, type, threshold) ==
  [counter |-> x, type |-> type, threshold |-> threshold,
   test |-> IF relative THEN checked_add(counter[x], wait) ELSE wait]

begin_sync_counter_await(c, conditions) ==
  LET fired == \E i \in DOMAIN conditions :
                 sync_trigger_fired(conditions[i], counter[conditions[i].counter],
                                    counter[conditions[i].counter])
      notified == Picked(conditions, {i \in DOMAIN conditions :
                    sync_notification_eligible(conditions[i], counter[conditions[i].counter])})
  IN IF fired
     THEN finish_update(c, Tables, [NoEvents EXCEPT ![c] = Numbered(notified)])
     ELSE finish_update(c, [Tables EXCEPT !.waits[c] = conditions], NoEvents)

Await(c, conditions) ==
  /\ Reads(c) /\ \A i \in DOMAIN conditions : conditions[i].test # None
  /\ begin_sync_counter_await(c, conditions)

(* CreateAlarm and ChangeAlarm: the attributes in the mask take the values
   of the request, the others stay. *)
NewAlarm(c) ==
  [counter |-> None, wait |-> 0, relative |-> FALSE, test |-> 0,
   type |-> "positive_comparison", delta |-> 1, clients |-> {c}, state |-> "inactive"]

Choice(mask, attribute, values, old) == IF attribute \in mask THEN values ELSE {old}

ConfigureAlarm(c, a, old, mask) ==
  \E x \in Choice(mask, "counter", {y \in Counter : counter[y] # None} \cup {None}, old.counter),
     relative \in Choice(mask, "relative", BOOLEAN, old.relative),
     wait \in Choice(mask, "wait", WaitValue, old.wait),
     type \in Choice(mask, "type", WaitType, old.type),
     delta \in Choice(mask, "delta", WaitValue, old.delta),
     clients \in Choice(mask, "events", {old.clients \cup {c}, old.clients \ {c}}, old.clients) :
    /\ mask \cap {"relative", "wait"} # {} /\ relative => x # None
    /\ LET test == IF mask \cap {"relative", "wait"} = {} THEN old.test
                   ELSE IF relative THEN checked_add(counter[x], wait) ELSE wait
           configured == [counter |-> x, wait |-> wait, relative |-> relative, test |-> test,
                          type |-> type, delta |-> delta, clients |-> clients,
                          state |-> old.state]
           commit == commit_sync_alarm(Tables, configured)
       IN /\ test # None
          /\ mask \cap {"type", "delta"} # {} =>
               IF Positive(type) THEN delta >= 0 ELSE delta <= 0
          /\ finish_update(c, [Tables EXCEPT !.alarm[a] = commit.alarm],
                           IF commit.fired THEN AlarmEvents(a, clients, commit.alarm.state)
                           ELSE NoEvents)

CreateAlarm(c, a, mask) ==
  Reads(c) /\ Owner[a] = c /\ alarm[a] = None /\ ConfigureAlarm(c, a, NewAlarm(c), mask)

ChangeAlarm(c, a, mask) == Reads(c) /\ alarm[a] # None /\ ConfigureAlarm(c, a, alarm[a], mask)

DestroyAlarm(c, a) ==
  /\ Reads(c) /\ alarm[a] # None
  /\ finish_update(c, [Tables EXCEPT !.alarm[a] = None], ErasePlan(Tables, a))

CreateFence(c, f, triggered) ==
  /\ Reads(c) /\ Owner[f] = c /\ fence[f] = "none"
  /\ fence' = [fence EXCEPT ![f] = IF triggered THEN "triggered" ELSE "reset"]
  /\ UNCHANGED <<connected, counter, alarm, waits, fwaits, queue>>

TriggerFence(c, f) ==
  /\ Reads(c) /\ fence[f] # "none"
  /\ finish_update(c, [Tables EXCEPT !.fence[f] = "triggered",
                                     !.fwaits = FenceWaitsEnded(Tables, f)], NoEvents)

ResetFence(c, f) ==
  /\ Reads(c) /\ fence[f] = "triggered"
  /\ fence' = [fence EXCEPT ![f] = "reset"]
  /\ UNCHANGED <<connected, counter, alarm, waits, fwaits, queue>>

DestroyFence(c, f) ==
  /\ Reads(c) /\ fence[f] # "none"
  /\ finish_update(c, [Tables EXCEPT !.fence[f] = "none",
                                     !.fwaits = FenceWaitsEnded(Tables, f)], NoEvents)

begin_sync_fence_await(c, fences) ==
  finish_update(c, IF \E f \in fences : fence[f] = "triggered" THEN Tables
                   ELSE [Tables EXCEPT !.fwaits[c] = fences], NoEvents)

AwaitFence(c, fences) ==
  /\ Reads(c) /\ \A f \in fences : fence[f] # "none"
  /\ begin_sync_fence_await(c, fences)

(* on_writable: the queue goes into the output. *)
Drain(c) ==
  /\ c \in connected /\ queue[c] # <<>>
  /\ queue' = [queue EXCEPT ![c] = <<>>]
  /\ UNCHANGED <<connected, counter, alarm, fence, waits, fwaits>>

register_client(c) ==
  /\ c \notin connected /\ connected' = connected \cup {c}
  /\ UNCHANGED <<counter, alarm, fence, waits, fwaits, queue>>

(* disconnect_client: alarms, then counters, then fences, each in the order
   of a hash table.  What cannot be announced is taken away without its
   events. *)
WithoutClient_StillHears(S, c) ==
  [S EXCEPT !.waits[c] = <<>>, !.fwaits[c] = {}, !.queue[c] = <<>>]
WithoutClient(S, c) ==
  [S EXCEPT !.waits[c] = <<>>, !.fwaits[c] = {}, !.queue[c] = <<>>,
            !.alarm = [a \in Alarm |-> IF S.alarm[a] = None THEN None
                                       ELSE [S.alarm[a] EXCEPT !.clients = @ \ {c}]]]

AlarmGone(a, S) ==
  LET gone == [S EXCEPT !.alarm[a] = None]
  IN IF Fits(S, ErasePlan(S, a)) THEN Queued(gone, ErasePlan(S, a)) ELSE gone

CounterGone(x, S) ==
  IF Fits(S, UpdatePlan(S, x, None))
  THEN Queued(update_sync_counter(S, x, None), UpdatePlan(S, x, None))
  ELSE update_sync_counter(S, x, None)

FenceGone(f, S) == [S EXCEPT !.fence[f] = "none", !.fwaits = FenceWaitsEnded(S, f)]

Gone(id, S) ==
  IF id \in Alarm THEN AlarmGone(id, S)
  ELSE IF id \in Counter THEN CounterGone(id, S) ELSE FenceGone(id, S)

disconnect_client(c) ==
  /\ c \in connected /\ connected' = connected \ {c}
  /\ \E alarms \in SetToSeqs({a \in Alarm : alarm[a] # None /\ Owner[a] = c}),
        counters \in SetToSeqs({x \in Counter : counter[x] # None /\ Owner[x] = c}),
        fences \in SetToSeqs({f \in Fence : fence[f] # "none" /\ Owner[f] = c}) :
       LET ids == alarms \o counters \o fences
           after[n \in 0..Len(ids)] ==
             IF n = 0 THEN WithoutClient(Tables, c) ELSE Gone(ids[n], after[n - 1])
       IN Become(after[Len(ids)])

CounterOp(c, x) ==
  \/ \E v \in Value : CreateCounter(c, x, v) \/ SetCounter(c, x, v) \/ ChangeCounter(c, x, v)
  \/ DestroyCounter(c, x)

AlarmOp(c, a) ==
  \/ \E mask \in Masks : CreateAlarm(c, a, mask) \/ ChangeAlarm(c, a, mask)
  \/ DestroyAlarm(c, a)

AwaitOp(c) ==
  \E n \in 1..MaxConditions :
    \E conditions \in [1..n -> UNION {{Requested(x, wait, relative, type, threshold) :
                                         wait \in WaitValue, relative \in BOOLEAN,
                                         type \in WaitType, threshold \in Threshold} :
                                       x \in {y \in Counter : counter[y] # None}}] :
      Await(c, conditions)

FenceOp(c) ==
  \/ \E f \in Fence : \/ \E triggered \in BOOLEAN : CreateFence(c, f, triggered)
                      \/ TriggerFence(c, f) \/ ResetFence(c, f) \/ DestroyFence(c, f)
  \/ \E fences \in SUBSET Fence \ {{}} : AwaitFence(c, fences)

Next ==
  \E c \in Client :
    \/ register_client(c) \/ disconnect_client(c) \/ Drain(c)
    \/ \E x \in Counter : CounterOp(c, x)
    \/ "alarm" \in Ops /\ \E a \in Alarm : AlarmOp(c, a)
    \/ "await" \in Ops /\ AwaitOp(c)
    \/ "fence" \in Ops /\ FenceOp(c)

Spec == Init /\ [][Next]_vars
-----------------------------------------------------------------------------
(* Properties.                                                             *)

(* Whether a comparison holds. *)
Reached(trigger, value) ==
  IF Positive(trigger.type) THEN value >= trigger.test ELSE value <= trigger.test

(***************************************************************************)
(* Nobody sleeps through: a client that waits has no condition that holds  *)
(* already and no fence that is triggered or gone, and it waits for things *)
(* that exist.  (The code looks at a condition only when its counter       *)
(* changes.)                                                               *)
(***************************************************************************)
NoMissedWakeup ==
  \A c \in Client :
    /\ \A i \in DOMAIN waits[c] :
         LET d == waits[c][i]
         IN /\ counter[d.counter] # None
            /\ ~(Comparison(d.type) /\ Reached(d, counter[d.counter]))
    /\ \A f \in fwaits[c] : fence[f] = "reset"

(***************************************************************************)
(* An active alarm has a counter, and a comparison alarm waits for a value *)
(* the counter has not reached: commit_sync_alarm and update_sync_counter  *)
(* move its test value past the counter or make it inactive.  Whatever     *)
(* they compute, every value stays within its Width bits (TypeOK).         *)
(***************************************************************************)
ActiveAlarmsPend ==
  /\ TypeOK
  /\ \A a \in Alarm :
       alarm[a] # None =>
         /\ alarm[a].counter # None => counter[alarm[a].counter] # None
         /\ alarm[a].state = "active" =>
              /\ alarm[a].counter # None
              /\ ~(Comparison(alarm[a].type) /\ Reached(alarm[a], counter[alarm[a].counter]))

(***************************************************************************)
(* Nothing is kept for a client that left: no wait, no events, and no      *)
(* alarm that would send it any; its counters, alarms and fences are gone. *)
(***************************************************************************)
NothingKept ==
  \A c \in Client \ connected :
    /\ ~sync_waiting(c) /\ queue[c] = <<>>
    /\ \A a \in Alarm : alarm[a] # None => c \notin alarm[a].clients /\ Owner[a] # c
    /\ \A x \in Counter : Owner[x] = c => counter[x] = None
    /\ \A f \in Fence : Owner[f] = c => fence[f] = "none"

(***************************************************************************)
(* advance_alarm against its definition: when a counter moves over the     *)
(* test value of a comparison alarm, the new test value is the first of    *)
(* test + delta, test + 2 * delta, ... that the counter has not reached,   *)
(* and the alarm becomes inactive just when that one cannot be             *)
(* represented.                                                            *)
(***************************************************************************)
FirstBeyond(a, value) ==
  LET Beyond(k) == IF Positive(a.type) THEN value < a.test + k * a.delta
                   ELSE value > a.test + k * a.delta
      k == CHOOSE n \in 1..Modulus : Beyond(n) /\ \A m \in 1..(n - 1) : ~Beyond(m)
  IN a.test + k * a.delta

ExactlyAdvanced ==
  \A a \in Alarm, x \in Counter :
    LET before == alarm[a]
        after == alarm'[a]
    IN /\ before # None /\ after # None /\ counter'[x] # None /\ counter[x] # counter'[x]
       /\ before.counter = x /\ before.state = "active" /\ Comparison(before.type)
       => IF ~Reached(before, counter'[x]) THEN after = before
          ELSE IF before.delta = 0 THEN after = Inactive(before)
          ELSE IF FirstBeyond(before, counter'[x]) \in Value
               THEN after = [before EXCEPT !.test = FirstBeyond(before, counter'[x])]
               ELSE after = Inactive(before)

AdvanceIsExact == [][ExactlyAdvanced]_vars
=============================================================================
