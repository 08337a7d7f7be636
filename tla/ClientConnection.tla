-------------------------- MODULE ClientConnection --------------------------
(***************************************************************************)
(* The connection of the client libraries: threads of the application send *)
(* requests and collect replies, errors and events, while a thread of the  *)
(* connection reads the packets of the server.                             *)
(*                                                                         *)
(* What a thread does under state_mutex_ is one step; the steps between    *)
(* two such steps, and the stores and notifications made without the       *)
(* mutex, are steps of their own.  The server counts the requests that it  *)
(* receives, answers them in order and gives its packets the number of the *)
(* last one, modulo Modulus.                                               *)
(*                                                                         *)
(* A definition Name_Mistake in front of Name is Name with a mistake that  *)
(* the code could have made; no specification uses it.                     *)
(***************************************************************************)
EXTENDS Integers, Sequences, FiniteSets

CONSTANTS
  Thread,        \* threads of the application
  Modulus,       \* sequence numbers on the wire are modulo this (65536)
  MaxRequests,   \* requests the application sends
  MaxEvents,     \* events the server sends on its own account
  Sends,         \* the kinds of requests each thread sends
  Uses,          \* the ways in which each thread collects answers
  NullErrors,    \* whether a call for a reply is told not to report errors
  Breaks,        \* whether the server may close the connection
  Refusals       \* whether a send may fail while the server is there

Kind == {"void", "checked", "reply", "discard"}
Use == {"wait_reply", "poll_reply", "check", "discard_reply", "wait_event", "poll_event"}

ASSUME ClientAssumption ==
  /\ Modulus \in Nat /\ Modulus > 1
  /\ MaxRequests \in Nat /\ MaxEvents \in Nat
  /\ Sends \in [Thread -> SUBSET Kind] /\ Uses \in [Thread -> SUBSET Use]
  /\ NullErrors \subseteq BOOLEAN /\ Breaks \in BOOLEAN /\ Refusals \in BOOLEAN

VARIABLES
  toServer,    \* requests written and not yet handled
  toClient,    \* packets the server has written
  served,      \* the last request the server handled
  answers,     \* what it answered to each: "reply", "error" or "nothing"
  eventsLeft,  \* events it may still send
  broken,      \* it has closed the connection
  skipped,     \* a request took a number and the open server did not get it whole
  sequence,    \* sequence_
  replies,     \* replies_
  errors,      \* errors_
  events,      \* events_
  checked,     \* checked_requests_
  awaited,     \* reply_requests_
  discarded,   \* discarded_replies_
  signalled,   \* event_notification_pending_: event_descriptor is readable
  failed,      \* error_code_ is set
  reader,      \* the place the reader thread has reached
  packet,      \* the packet it holds
  pc,          \* the place each thread has reached
  call,        \* what its call is about: request, kind and target
  cookies,     \* requests of each thread whose answer it has not collected
  results      \* what the application was told about each request

wire == <<toServer, toClient, served, answers, eventsLeft, broken, skipped>>
tables == <<replies, errors, checked, awaited, discarded>>
queue == <<events, signalled>>
vars == <<wire, sequence, tables, queue, failed, reader, packet, pc, call, cookies, results>>

Number == 1..(2 * MaxRequests)
NoCall == [seq |-> 0, kind |-> "void", target |-> 0, report |-> TRUE]
Packet == [type : {"reply", "error", "event"}, seq : 0..(2 * MaxRequests)]
NoPacket == [type |-> "event", seq |-> 0]
Place == {"idle", "send", "register", "write", "undo", "check_reply", "block_reply", "await_reply",
          "push_error", "look_up", "check_event", "block_event", "await_event"}

TypeOK ==
  /\ toServer \in Seq([seq : Number, kind : Kind \cup {"sync", "cut"}])
  /\ toClient \in Seq(Packet)
  /\ served \in 0..sequence
  /\ answers \in [1..served -> {"reply", "error", "nothing"}]
  /\ eventsLeft \in 0..MaxEvents
  /\ sequence \in 0..(2 * MaxRequests)
  /\ replies \subseteq Number /\ errors \subseteq Number
  /\ events \in Seq(Packet)
  /\ checked \subseteq Number /\ awaited \subseteq Number /\ discarded \subseteq Number
  /\ {broken, skipped, signalled, failed} \subseteq BOOLEAN
  /\ reader \in {"read", "queue", "fail", "notify", "done"}
  /\ packet \in Packet
  /\ pc \in [Thread -> Place]
  /\ call \in [Thread -> [seq : 0..(2 * MaxRequests), kind : Kind \cup {"sync"},
                         target : 0..(2 * MaxRequests), report : BOOLEAN]]
  /\ cookies \in [Thread -> SUBSET (Number \X {"checked", "reply"})]
  /\ DOMAIN results \subseteq Number

Init ==
  /\ toServer = <<>> /\ toClient = <<>>
  /\ served = 0 /\ answers = <<>> /\ eventsLeft = MaxEvents
  /\ broken = FALSE /\ skipped = FALSE
  /\ sequence = 0
  /\ replies = {} /\ errors = {} /\ events = <<>>
  /\ checked = {} /\ awaited = {} /\ discarded = {}
  /\ signalled = FALSE /\ failed = FALSE
  /\ reader = "read" /\ packet = NoPacket
  /\ pc = [t \in Thread |-> "idle"] /\ call = [t \in Thread |-> NoCall]
  /\ cookies = [t \in Thread |-> {}] /\ results = [s \in {} |-> "reply"]
-----------------------------------------------------------------------------
(* The server and the connection to it.                                    *)

Answer(s, answer) ==
  /\ answers' = Append(answers, answer)
  /\ toClient' = IF answer = "nothing" THEN toClient
                 ELSE Append(toClient, [type |-> answer, seq |-> s])

(* It waits for the rest of a request that was cut short, and takes what
   follows for it. *)
Serve ==
  /\ toServer # <<>> /\ ~broken /\ Head(toServer).kind # "cut"
  /\ LET request == Head(toServer)
         possible == CASE request.kind = "sync" -> {"reply"}
                       [] request.kind \in {"reply", "discard"} -> {"reply", "error"}
                       [] OTHER -> {"nothing", "error"}
     IN \E answer \in possible : Answer(request.seq, answer) /\ served' = request.seq
  /\ toServer' = Tail(toServer)
  /\ UNCHANGED <<eventsLeft, broken, skipped, sequence, tables, queue, failed, reader, packet,
                 pc, call, cookies, results>>

SendEvent ==
  /\ eventsLeft > 0 /\ ~broken
  /\ eventsLeft' = eventsLeft - 1
  /\ toClient' = Append(toClient, [type |-> "event", seq |-> served])
  /\ UNCHANGED <<toServer, served, answers, broken, skipped, sequence, tables, queue, failed,
                 reader, packet, pc, call, cookies, results>>

Close ==
  /\ Breaks /\ ~broken
  /\ broken' = TRUE
  /\ toServer' = <<>>
  /\ UNCHANGED <<toClient, served, answers, eventsLeft, skipped, sequence, tables, queue, failed,
                 reader, packet, pc, call, cookies, results>>
-----------------------------------------------------------------------------
(* The mutex, the condition variable and the event descriptor.             *)

(* Nobody is between the test of a condition and waiting for it. *)
MutexFree_Always == TRUE
MutexFree == \A t \in Thread : pc[t] \notin {"block_reply", "block_event"}

(* notify_all, after t (if it is a thread) went to place. *)
Woken(places) ==
  [t \in Thread |-> CASE places[t] = "await_reply" -> "check_reply"
                      [] places[t] = "await_event" -> "check_event"
                      [] OTHER -> places[t]]

Goto(t, place) == pc' = [pc EXCEPT ![t] = place]

signal_event_available == signalled' = TRUE
(* What the application learns of request s. *)
Tell(s, result) == results' = [n \in DOMAIN results \cup {s} |->
                                 IF n = s THEN result ELSE results[n]]
-----------------------------------------------------------------------------
(* The reader thread.                                                      *)

widen_sequence_Latest(number) == (sequence \div Modulus) * Modulus + number
widen_sequence(number) ==
  LET candidate == (sequence \div Modulus) * Modulus + number
  IN IF candidate > sequence THEN candidate - Modulus ELSE candidate

read_packet ==
  /\ reader = "read" /\ toClient # <<>>
  /\ packet' = [type |-> Head(toClient).type,
                seq |-> widen_sequence(Head(toClient).seq % Modulus)]
  /\ toClient' = Tail(toClient)
  /\ reader' = "queue"
  /\ UNCHANGED <<toServer, served, answers, eventsLeft, broken, skipped, sequence, tables, queue,
                 failed, pc, call, cookies, results>>

queue_event_Quiet(p) ==
  /\ events' = Append(events, p)
  /\ IF events # <<>> THEN signal_event_available ELSE UNCHANGED signalled
queue_event(p) ==
  /\ events' = Append(events, p)
  /\ IF events = <<>> THEN signal_event_available ELSE UNCHANGED signalled

queue_reply ==
  /\ packet.type = "reply"
  /\ IF packet.seq \in discarded
     THEN discarded' = discarded \ {packet.seq} /\ UNCHANGED replies
     ELSE replies' = replies \cup {packet.seq} /\ UNCHANGED discarded
  /\ awaited' = awaited \ {packet.seq}
  /\ UNCHANGED <<errors, checked, queue>>

queue_error ==
  /\ packet.type = "error"
  /\ IF packet.seq \in checked \cup awaited
     THEN errors' = errors \cup {packet.seq} /\ UNCHANGED queue
     ELSE queue_event(packet) /\ UNCHANGED errors
  /\ awaited' = awaited \ {packet.seq}
  /\ UNCHANGED <<replies, checked, discarded>>

queue_packet ==
  /\ reader = "queue" /\ MutexFree
  /\ \/ queue_reply
     \/ queue_error
     \/ packet.type = "event" /\ queue_event(packet) /\ UNCHANGED tables
  /\ pc' = Woken(pc)
  /\ packet' = NoPacket
  /\ reader' = "read"
  /\ UNCHANGED <<wire, sequence, failed, call, cookies, results>>

(* The reader met the end of the stream. *)
EndOfStream ==
  /\ reader = "read" /\ broken /\ toClient = <<>>
  /\ reader' = "fail"
  /\ UNCHANGED <<wire, sequence, tables, queue, failed, packet, pc, call, cookies, results>>

ReaderFails ==
  /\ reader = "fail" /\ MutexFree
  /\ failed' = TRUE
  /\ signal_event_available
  /\ reader' = "notify"
  /\ UNCHANGED <<wire, sequence, tables, events, packet, pc, call, cookies, results>>

ReaderNotifies_Quiet ==
  /\ reader = "notify"
  /\ reader' = "done"
  /\ UNCHANGED <<wire, sequence, tables, queue, failed, packet, pc, call, cookies, results>>
ReaderNotifies ==
  /\ reader = "notify"
  /\ pc' = Woken(pc)
  /\ reader' = "done"
  /\ UNCHANGED <<wire, sequence, tables, queue, failed, packet, call, cookies, results>>
-----------------------------------------------------------------------------
(* send_bytes.                                                             *)

Sending == {"register", "write", "undo"}

(* The reader keeps up: no number in flight is Modulus behind. *)
KeepsUp(number) ==
  /\ number - served < Modulus
  /\ \A i \in DOMAIN toClient : number - toClient[i].seq < Modulus
  /\ reader = "queue" => number - packet.seq < Modulus

(* A request of the given kind takes its number, under send_mutex_.  Number
   bounds the counter: each send is followed by one round trip at most. *)
Begin(t, kind, target) ==
  /\ \A u \in Thread : pc[u] \notin Sending
  /\ KeepsUp(sequence + 1) /\ sequence + 1 \in Number
  /\ sequence' = sequence + 1
  /\ call' = [call EXCEPT ![t] = [seq |-> sequence + 1, kind |-> kind, target |-> target,
                                  report |-> FALSE]]
  /\ Goto(t, "register")

(* The test of error_code_, before the request is put together. *)
send(t, kind) ==
  /\ pc[t] = "idle" /\ ~failed
  /\ kind \in Sends[t] /\ sequence < MaxRequests
  /\ call' = [call EXCEPT ![t].kind = kind]
  /\ Goto(t, "send")
  /\ UNCHANGED <<wire, sequence, tables, queue, failed, reader, packet, cookies, results>>

(* Its extension is missing, or there is no memory for it: the connection
   fails, and nobody is notified. *)
SendRefused(t) ==
  /\ pc[t] = "send" /\ Refusals
  /\ failed' = TRUE
  /\ Goto(t, "idle") /\ call' = [call EXCEPT ![t] = NoCall]
  /\ UNCHANGED <<wire, sequence, tables, queue, reader, packet, cookies, results>>

send_bytes(t) ==
  /\ pc[t] = "send" /\ sequence < MaxRequests
  /\ Begin(t, call[t].kind, 0)
  /\ UNCHANGED <<wire, tables, queue, failed, reader, packet, cookies, results>>

RegisterTables(s, kind) ==
  /\ checked' = IF kind \in {"checked", "sync"} THEN checked \cup {s} ELSE checked
  /\ awaited' = IF kind \in {"reply", "discard", "sync"} THEN awaited \cup {s} ELSE awaited
  /\ discarded' = IF kind = "discard" THEN discarded \cup {s} ELSE discarded

Register(t) ==
  /\ pc[t] = "register" /\ MutexFree
  /\ RegisterTables(call[t].seq, call[t].kind)
  /\ Goto(t, "write")
  /\ UNCHANGED <<wire, sequence, replies, errors, queue, failed, reader, packet, call,
                 cookies, results>>

(* A request, or its first bytes, goes to the server, which will count it. *)
Sent(kind) == Append(toServer, [seq |-> served + Len(toServer) + 1, kind |-> kind])

(* The request is written; its cookie is returned, or request_check goes on. *)
Write(t) ==
  /\ pc[t] = "write" /\ ~broken
  /\ toServer' = Sent(call[t].kind)
  /\ Goto(t, IF call[t].kind = "sync" THEN "check_reply" ELSE "idle")
  /\ cookies' = IF call[t].kind \in {"checked", "reply"}
                THEN [cookies EXCEPT ![t] = @ \cup {<<call[t].seq, call[t].kind>>}]
                ELSE cookies
  /\ call' = IF call[t].kind = "sync" THEN call ELSE [call EXCEPT ![t] = NoCall]
  /\ IF call[t].kind = "discard" THEN Tell(call[t].seq, "discarded") ELSE UNCHANGED results
  /\ UNCHANGED <<toClient, served, answers, eventsLeft, broken, skipped, sequence, tables, queue,
                 failed, reader, packet>>

(* A write to a server that is there fails whole, or with its descriptors
   stops short. *)
WriteFails(t) ==
  /\ pc[t] = "write"
  /\ \/ broken /\ UNCHANGED <<toServer, skipped>>
     \/ ~broken /\ Refusals /\ skipped' = TRUE /\ toServer' \in {toServer, Sent("cut")}
  /\ failed' = TRUE
  /\ Goto(t, "undo")
  /\ UNCHANGED <<toClient, served, answers, eventsLeft, broken, sequence, tables, queue,
                 reader, packet, call, cookies, results>>

(* Everyone is notified, without the mutex, and 0 or nullptr returned. *)
NotifyFailure(t) ==
  /\ pc[t] = "undo"
  /\ pc' = Woken([pc EXCEPT ![t] = "idle"])
  /\ call' = [call EXCEPT ![t] = NoCall]
  /\ UNCHANGED <<wire, sequence, tables, queue, failed, reader, packet, cookies, results>>
-----------------------------------------------------------------------------
(* Replies.                                                                *)

(* The end of wait_for_reply: of the application's own, or of request_check. *)
Return(t, result) ==
  /\ Tell(call[t].seq, result)
  /\ IF call[t].kind = "sync"
     THEN Goto(t, "look_up") /\ UNCHANGED call
     ELSE Goto(t, "idle") /\ call' = [call EXCEPT ![t] = NoCall]

wait_for_reply(t, report) ==
  /\ pc[t] = "idle" /\ "wait_reply" \in Uses[t]
  /\ report \in {~n : n \in NullErrors}
  /\ \E s \in Number :
       /\ <<s, "reply">> \in cookies[t]
       /\ cookies' = [cookies EXCEPT ![t] = @ \ {<<s, "reply">>}]
       /\ call' = [call EXCEPT ![t] = [seq |-> s, kind |-> "reply", target |-> 0,
                                       report |-> report]]
  /\ Goto(t, "check_reply")
  /\ UNCHANGED <<wire, sequence, tables, queue, failed, reader, packet, results>>

CheckReply(t) ==
  LET s == call[t].seq
  IN
  /\ pc[t] = "check_reply" /\ MutexFree
  /\ \/ /\ s \in errors
        /\ errors' = errors \ {s} /\ checked' = checked \ {s}
        /\ IF call[t].report THEN Return(t, "error")
           ELSE Goto(t, "push_error") /\ UNCHANGED <<call, results>>
        /\ UNCHANGED replies
     \/ /\ s \notin errors /\ s \in replies
        /\ replies' = replies \ {s} /\ checked' = checked \ {s}
        /\ Return(t, "reply")
        /\ UNCHANGED errors
     \/ /\ s \notin errors \cup replies /\ failed
        /\ Return(t, "null")
        /\ UNCHANGED <<replies, errors, checked>>
     \/ /\ s \notin errors \cup replies /\ ~failed
        /\ Goto(t, "block_reply")
        /\ UNCHANGED <<replies, errors, checked, call, results>>
  /\ UNCHANGED <<wire, sequence, awaited, discarded, queue, failed, reader, packet, cookies>>

(* The mutex is released and the thread waits, in one step. *)
Block(t) ==
  /\ pc[t] \in {"block_reply", "block_event"}
  /\ Goto(t, IF pc[t] = "block_reply" THEN "await_reply" ELSE "await_event")
  /\ UNCHANGED <<wire, sequence, tables, queue, failed, reader, packet, call, cookies, results>>

(* An error nobody asked for becomes an event. *)
PushError(t) ==
  /\ pc[t] = "push_error" /\ MutexFree
  /\ events' = Append(events, [type |-> "error", seq |-> call[t].seq])
  /\ Return(t, "pushed")
  /\ UNCHANGED <<wire, sequence, tables, signalled, failed, reader, packet, cookies>>

poll_for_reply(t) ==
  /\ pc[t] = "idle" /\ "poll_reply" \in Uses[t] /\ MutexFree
  /\ \E s \in Number :
       /\ <<s, "reply">> \in cookies[t]
       /\ \/ s \in errors /\ \E null \in NullErrors : Tell(s, IF null THEN "dropped" ELSE "error")
          \/ s \in replies /\ s \notin errors /\ Tell(s, "reply")
       /\ errors' = errors \ {s}
       /\ replies' = IF s \in errors THEN replies ELSE replies \ {s}
       /\ checked' = checked \ {s}
       /\ cookies' = [cookies EXCEPT ![t] = @ \ {<<s, "reply">>}]
  /\ UNCHANGED <<wire, sequence, awaited, discarded, queue, failed, reader, packet, pc, call>>

discard_reply(t) ==
  /\ pc[t] = "idle" /\ "discard_reply" \in Uses[t] /\ MutexFree
  /\ \E s \in Number :
       /\ <<s, "reply">> \in cookies[t]
       /\ IF s \in replies
          THEN replies' = replies \ {s} /\ UNCHANGED discarded
          ELSE discarded' = discarded \cup {s} /\ UNCHANGED replies
       /\ errors' = errors \ {s}
       /\ awaited' = awaited \ {s}
       /\ checked' = checked \ {s}
       /\ cookies' = [cookies EXCEPT ![t] = @ \ {<<s, "reply">>}]
       /\ Tell(s, "discarded")
  /\ UNCHANGED <<wire, sequence, queue, failed, reader, packet, pc, call>>

(* request_check: a round trip, then the error is looked up. *)
request_check_NoRoundTrip(t) ==
  /\ pc[t] = "idle" /\ "check" \in Uses[t]
  /\ \E s \in Number :
       /\ <<s, "checked">> \in cookies[t]
       /\ cookies' = [cookies EXCEPT ![t] = @ \ {<<s, "checked">>}]
       /\ call' = [call EXCEPT ![t].target = s]
  /\ Goto(t, "look_up")
  /\ UNCHANGED <<wire, sequence, tables, queue, failed, reader, packet, results>>
request_check(t) ==
  /\ pc[t] = "idle" /\ "check" \in Uses[t]
  /\ \E s \in Number :
       /\ <<s, "checked">> \in cookies[t]
       /\ cookies' = [cookies EXCEPT ![t] = @ \ {<<s, "checked">>}]
       /\ Begin(t, "sync", s)
  /\ UNCHANGED <<wire, tables, queue, failed, reader, packet, results>>

LookUp(t) ==
  LET s == call[t].target
  IN
  /\ pc[t] = "look_up" /\ MutexFree
  /\ checked' = checked \ {s}
  /\ errors' = errors \ {s}
  /\ Tell(s, IF s \in errors THEN "error" ELSE "nothing")
  /\ Goto(t, "idle")
  /\ call' = [call EXCEPT ![t] = NoCall]
  /\ UNCHANGED <<wire, sequence, replies, awaited, discarded, queue, failed, reader, packet,
                 cookies>>
-----------------------------------------------------------------------------
(* Events.                                                                 *)

clear_event_notification == signalled' = FALSE

(* An error among the events is told of, unless it was put back there. *)
TellError(event) ==
  IF event.type = "error" /\ event.seq \notin DOMAIN results
  THEN Tell(event.seq, "event") ELSE UNCHANGED results

TakeEvent ==
  /\ events' = Tail(events)
  /\ TellError(Head(events))
  /\ IF Len(events) = 1 THEN clear_event_notification ELSE UNCHANGED signalled

wait_for_event(t) ==
  /\ pc[t] = "idle" /\ "wait_event" \in Uses[t]
  /\ Goto(t, "check_event")
  /\ UNCHANGED <<wire, sequence, tables, queue, failed, reader, packet, call, cookies, results>>

CheckEvent(t) ==
  /\ pc[t] = "check_event" /\ MutexFree
  /\ \/ events # <<>> /\ TakeEvent /\ Goto(t, "idle")
     \/ /\ events = <<>> /\ failed
        /\ clear_event_notification /\ Goto(t, "idle")
        /\ UNCHANGED <<events, results>>
     \/ events = <<>> /\ ~failed /\ Goto(t, "block_event") /\ UNCHANGED <<queue, results>>
  /\ UNCHANGED <<wire, sequence, tables, failed, reader, packet, call, cookies>>

poll_for_event(t) ==
  /\ pc[t] = "idle" /\ "poll_event" \in Uses[t] /\ MutexFree
  /\ \/ events # <<>> /\ TakeEvent
     \/ events = <<>> /\ failed /\ clear_event_notification /\ UNCHANGED <<events, results>>
  /\ UNCHANGED <<wire, sequence, tables, failed, reader, packet, pc, call, cookies>>
-----------------------------------------------------------------------------
ServerStep == Serve \/ SendEvent \/ Close

ReaderStep == read_packet \/ queue_packet \/ EndOfStream \/ ReaderFails \/ ReaderNotifies

(* The steps of a call that has begun. *)
Continue(t) ==
  \/ SendRefused(t) \/ send_bytes(t)
  \/ Register(t) \/ Write(t) \/ WriteFails(t) \/ NotifyFailure(t)
  \/ CheckReply(t) \/ Block(t) \/ PushError(t) \/ LookUp(t) \/ CheckEvent(t)

Call(t) ==
  \/ \E kind \in Kind : send(t, kind)
  \/ \E report \in BOOLEAN : wait_for_reply(t, report)
  \/ poll_for_reply(t) \/ discard_reply(t) \/ request_check(t)
  \/ wait_for_event(t) \/ poll_for_event(t)

Next == ServerStep \/ ReaderStep \/ \E t \in Thread : Continue(t) \/ Call(t)

Spec == Init /\ [][Next]_vars

(* Threads that are in a call are run, and so are the reader and the server. *)
FairSpec ==
  /\ Spec
  /\ WF_vars(Serve) /\ WF_vars(ReaderStep)
  /\ \A t \in Thread : WF_vars(Continue(t))
-----------------------------------------------------------------------------
(* Properties.                                                             *)

(***************************************************************************)
(* The application is told of every request what the server answered: a    *)
(* reply or an error is given to the call that asked for it, and success   *)
(* of a checked request is reported only if there was no error, or if the  *)
(* connection failed before the answer could be known.  It may be told of  *)
(* another request's answer once a write failed although the server was    *)
(* there: the request has taken a number and the server does not count it. *)
(***************************************************************************)
AnswersMatch ==
  skipped \/ \A s \in DOMAIN results :
    /\ results[s] \in {"reply", "error"} => s <= served /\ answers[s] = results[s]
    /\ results[s] \in {"pushed", "event", "dropped"} => s <= served /\ answers[s] = "error"
    /\ results[s] = "nothing" => failed \/ (s <= served /\ answers[s] = "nothing")
    /\ results[s] = "null" => failed

InTransit(type, s) ==
  \/ \E i \in DOMAIN toClient : toClient[i] = [type |-> type, seq |-> s]
  \/ reader = "queue" /\ packet = [type |-> type, seq |-> s]

(***************************************************************************)
(* No answer is lost between the socket and the application: an error is   *)
(* on its way, kept for its request, among the events, about to be put     *)
(* there, or was handed over; a reply likewise, unless it was discarded.   *)
(* (The discarded number may be that of another request once a write has   *)
(* failed although the server was there.)                                  *)
(***************************************************************************)
NoAnswerLost ==
  skipped \/ \A s \in 1..served :
    /\ answers[s] = "error" =>
         \/ InTransit("error", s)
         \/ s \in errors
         \/ \E i \in DOMAIN events : events[i] = [type |-> "error", seq |-> s]
         \/ \E t \in Thread : pc[t] = "push_error" /\ call[t].seq = s
         \/ s \in DOMAIN results
    /\ answers[s] = "reply" =>
         \/ InTransit("reply", s)
         \/ s \in replies
         \/ s \in DOMAIN results

(***************************************************************************)
(* A thread that waits for a reply is answered, or told of the failure.    *)
(***************************************************************************)
ReplyWaitsEnd == \A t \in Thread : pc[t] = "await_reply" ~> pc[t] = "idle"

(* wait_for_reply, asked by a caller that takes no error, has put one      *)
(* among the events, without a notification and without a signal.          *)
PutBack == \E s \in DOMAIN results : results[s] = "pushed"

(***************************************************************************)
(* A thread that waits for events does not sleep while there is one, as    *)
(* long as no error was put back, nor when the server has closed the       *)
(* connection, whatever failed before.  (Of a failure that only a sender   *)
(* met it may never hear: send notifies nobody, and send_bytes without the *)
(* mutex, so between its test and its wait.)                               *)
(***************************************************************************)
EventWaitsEnd ==
  \A t \in Thread :
    pc[t] = "await_event" /\ (events # <<>> \/ broken)
      ~> pc[t] # "await_event" \/ (PutBack /\ ~broken)

(***************************************************************************)
(* The descriptor that Xlib's event loops poll is readable while there are *)
(* events, as long as no error was put back: PushError neither signals     *)
(* nor lets the next event signal.                                         *)
(***************************************************************************)
EventsAreSignalled == events # <<>> /\ ~PutBack => signalled
=============================================================================
