------------------------------- MODULE Server -------------------------------
(***************************************************************************)
(* The event loop of the Xmin server and the connections it serves.        *)
(*                                                                         *)
(* Server::run is one thread.  Each turn of its loop runs the due timers,  *)
(* polls every connection, accepts new clients, visits every polled        *)
(* connection once (on_writable, then on_readable) in SYNC priority order, *)
(* and finally destroys the connections marked for removal.  What is       *)
(* concurrent is the other end: a peer connects, sends, reads and hangs up *)
(* between any two system calls of the loop.                               *)
(*                                                                         *)
(* A step of the loop ends where the next system call is made, or where    *)
(* process_input goes round its loop.  Requests are abstracted to what     *)
(* they do to the state the loop and the connections share: the server     *)
(* grab, the event queues, SYNC waits and priorities, and termination.     *)
(*                                                                         *)
(* A definition Name_Mistake in front of Name is Name with a mistake that  *)
(* the code could have made; no specification uses it.                     *)
(***************************************************************************)
EXTENDS EventPlan, SequencesExt

CONSTANTS
  Ops,           \* what peers send in this model, a subset of AllOps
  Priorities,    \* the SYNC priorities clients ask for
  PeerMoves,     \* what peers do besides sending, in this model
  EagerSetup,    \* whether peers write both packets of setup in one go
  MaxConnects,   \* bound: how many peers ever connect
  MaxPackets,    \* bound: packets peers ever send, an eager setup apart
  MaxTicks,      \* bound: how often a timer is due
  MaxInput,      \* maximum_buffered_input, in packets
  MaxOutput,     \* maximum_buffered_output, in messages
  SendRoom       \* messages the kernel holds for a peer that does not read

NoClient == 0

(* The packets a peer can send first, second, and from then on. *)
PrefixOps == {"prefix", "bad_version", "bad_order"}
AuthenticationOps == {"cookie", "bad_cookie"}
RequestOps ==
  {"query", "oversize", "malformed", "notify", "grab", "ungrab", "kill",
   "await_counter", "await_fence", "set_counter", "trigger_fence", "priority"}
AllOps == PrefixOps \cup AuthenticationOps \cup RequestOps \cup {"part"}

ASSUME ServerAssumption ==
  /\ Ops \subseteq AllOps
  /\ Priorities \subseteq Int
  /\ PeerMoves \subseteq {"read", "shut", "closed"}
  /\ EagerSetup \in BOOLEAN
  /\ \A n \in {MaxConnects, MaxPackets, MaxTicks, MaxInput, SendRoom} : n \in Nat
  /\ MaxOutput \in Nat \ {0}

VARIABLES
  \* the peers and the kernel
  backlog,     \* connections waiting to be accepted
  connects,    \* connections attempted so far
  packets,     \* packets sent so far
  ticks,       \* timers that were due so far
  peer,        \* the other end of each slot's socket
  sent,        \* complete packets the peer of a slot has sent
  inbox,       \* packets sent and not yet received by the server
  unread,      \* messages written by the server and not yet read by the peer
  \* Connection
  state,       \* state_, or "free" when the slot has no connection
  input,       \* input_
  output,      \* output_ from output_offset_ on
  written,     \* sequence number of the last message written to the socket
  sequence,    \* sequence_, and the copy note_client_sequence keeps
  resume,      \* resume_sync_input_
  closing,     \* close_after_output_
  finished,    \* finished_
  \* ServerState
  registered,  \* clients_
  queue,       \* event_queues_
  grab,        \* server_grab_owner_
  terminate,   \* clients_to_terminate_
  waiting,     \* sync_counter_waits_ and sync_fence_waits_
  priority,    \* sync_priorities_
  \* Server::run
  pc,          \* the place the loop has reached
  return,      \* where process_input returns to
  clients,     \* clients: the connected slots in the order of acceptance
  ready,       \* revents of the last poll
  order,       \* the rest of dispatch_order
  remove       \* remove

peerVars == <<backlog, connects, packets, ticks, peer, sent, inbox, unread>>
connVars == <<state, input, output, written, sequence, resume, closing, finished>>
sharedVars == <<registered, queue, grab, terminate, waiting, priority>>
loopVars == <<pc, return, clients, ready, order, remove>>
vars == <<backlog, connects, packets, ticks, peer, sent, inbox, unread,
          state, input, output, written, sequence, resume, closing, finished,
          registered, queue, grab, terminate, waiting, priority,
          pc, return, clients, ready, order, remove>>
-----------------------------------------------------------------------------
(* A packet from a peer; "to" is the client, or the priority, it names. *)
Packet == [op : AllOps, to : Int]
Sendable ==
  [op : Ops \ {"notify", "priority"}, to : {NoClient}]
    \cup [op : Ops \cap {"notify", "kill"}, to : Client]
    \cup [op : Ops \cap {"priority"}, to : Priorities]

(* A packet to a peer, stamped with the sequence number it carries. *)
Message ==
  [type : {"setup", "refused", "reply", "error", "event"}, sequence : Nat]
Event == [type : {"event"}, sequence : Nat]

PeerTypeOK ==
  /\ backlog \in Nat /\ connects \in Nat /\ packets \in Nat /\ ticks \in Nat
  /\ peer \in [Client -> {"none", "open", "shut", "closed"}]
  /\ sent \in [Client -> Nat]
  /\ inbox \in [Client -> Seq(Packet)]
  /\ unread \in [Client -> Nat]

ConnTypeOK ==
  /\ state \in [Client -> {"free", "setup_prefix", "setup_authentication",
                           "requests"}]
  /\ input \in [Client -> Seq(Packet)]
  /\ output \in [Client -> Seq(Message)]
  /\ written \in [Client -> Nat]
  /\ sequence \in [Client -> Nat]
  /\ resume \in [Client -> BOOLEAN]
  /\ closing \in [Client -> BOOLEAN]
  /\ finished \in [Client -> BOOLEAN]

SharedTypeOK ==
  /\ registered \subseteq Client
  /\ queue \in [Client -> Seq(Event)]
  /\ grab \in Client \cup {NoClient}
  /\ terminate \subseteq Client
  /\ waiting \in [Client -> {"none", "counter", "fence"}]
  /\ priority \in [Client -> Int]

LoopTypeOK ==
  /\ pc \in {"timers", "poll", "accept", "visit", "writable", "process",
             "flush", "readable", "reap"}
  /\ return \in {"flush", "readable"}
  /\ clients \in Seq(Client)
  /\ ready \in [Client -> SUBSET {"in", "out", "hup"}]
  /\ order \in Seq(Client)
  /\ remove \subseteq Client

TypeOK == PeerTypeOK /\ ConnTypeOK /\ SharedTypeOK /\ LoopTypeOK

Init ==
  /\ backlog = 0 /\ connects = 0 /\ packets = 0 /\ ticks = 0
  /\ peer = [c \in Client |-> "none"]
  /\ sent = [c \in Client |-> 0]
  /\ inbox = [c \in Client |-> << >>]
  /\ unread = [c \in Client |-> 0]
  /\ state = [c \in Client |-> "free"]
  /\ input = [c \in Client |-> << >>]
  /\ output = [c \in Client |-> << >>]
  /\ written = [c \in Client |-> 0]
  /\ sequence = [c \in Client |-> 0]
  /\ resume = [c \in Client |-> FALSE]
  /\ closing = [c \in Client |-> FALSE]
  /\ finished = [c \in Client |-> FALSE]
  /\ registered = {}
  /\ queue = [c \in Client |-> << >>]
  /\ grab = NoClient
  /\ terminate = {}
  /\ waiting = [c \in Client |-> "none"]
  /\ priority = [c \in Client |-> 0]
  /\ pc = "timers"
  /\ return = "readable"
  /\ clients = << >>
  /\ ready = [c \in Client |-> {}]
  /\ order = << >>
  /\ remove = {}
-----------------------------------------------------------------------------
(* The peers.  They are not part of the server: they may do anything, at   *)
(* any time.  The server sees what a peer did at the next system call that *)
(* concerns it, so a step of a peer is taken just before such a call:      *)
(* anywhere else it commutes with the steps of the server.                 *)

BeforeCall(c, places) ==
  \/ pc = "poll"
  \/ pc \in places /\ order # << >> /\ Head(order) = c

PeerConnect ==
  /\ pc = "poll"
  /\ connects < MaxConnects
  /\ connects' = connects + 1
  /\ backlog' = backlog + 1
  /\ UNCHANGED <<packets, ticks, peer, sent, inbox, unread, connVars, sharedVars, loopVars>>

EndsInPart(stream) == stream # << >> /\ stream[Len(stream)].op = "part"

(* "part" is the first half of a packet whose second half may never come. *)
PeerSend(c, p) ==
  /\ BeforeCall(c, {"readable"})
  /\ peer[c] = "open"
  /\ packets < MaxPackets
  /\ packets' = packets + 1
  /\ p.op \in CASE sent[c] = 0 -> PrefixOps \cup {"part"}
                [] sent[c] = 1 -> AuthenticationOps \cup {"part"}
                [] OTHER -> RequestOps \cup {"part"}
  /\ ~(p.op = "part" /\ EndsInPart(input[c] \o inbox[c]))
  /\ EagerSetup => sent[c] > 0
  /\ sent' = [sent EXCEPT ![c] = IF p.op = "part" THEN @ ELSE @ + 1]
  /\ inbox' = [inbox EXCEPT ![c] = Append(@, p)]
  /\ UNCHANGED <<backlog, connects, ticks, peer, unread, connVars, sharedVars,
                 loopVars>>

(* Both packets of a correct setup at once, as client libraries write it. *)
PeerSetup(c) ==
  /\ BeforeCall(c, {"readable"})
  /\ EagerSetup
  /\ peer[c] = "open" /\ sent[c] = 0
  /\ sent' = [sent EXCEPT ![c] = 2]
  /\ inbox' = [inbox EXCEPT ![c] = <<[op |-> "prefix", to |-> NoClient],
                                    [op |-> "cookie", to |-> NoClient]>>]
  /\ UNCHANGED <<backlog, connects, packets, ticks, peer, unread, connVars, sharedVars,
                 loopVars>>

PeerRead(c) ==
  /\ BeforeCall(c, {"flush"})
  /\ peer[c] \in {"open", "shut"}
  /\ unread[c] > 0
  /\ unread' = [unread EXCEPT ![c] = @ - 1]
  /\ UNCHANGED <<backlog, connects, packets, ticks, peer, sent, inbox, connVars, sharedVars,
                 loopVars>>

(* The peer shuts down its sending side, or closes the socket. *)
PeerHangUp(c, how) ==
  /\ BeforeCall(c, {"flush", "readable"})
  /\ \/ peer[c] = "open"
     \/ peer[c] = "shut" /\ how = "closed"
  /\ peer' = [peer EXCEPT ![c] = how]
  /\ unread' = [unread EXCEPT ![c] = IF how = "closed" THEN 0 ELSE @]
  /\ UNCHANGED <<backlog, connects, packets, ticks, sent, inbox, connVars, sharedVars,
                 loopVars>>
-----------------------------------------------------------------------------
(* What the loop and the connections ask of the state.                     *)

sync_waiting(c) == waiting[c] # "none"

(* Connection::poll_events. *)
poll_events_InWait(c) ==
  IF finished[c]
  THEN {}
  ELSE {e \in {"in", "out"} :
          \/ e = "in" /\ ~closing[c]
          \/ e = "out" /\ output[c] # << >>
          \/ /\ e = "out" /\ ~closing[c] /\ state[c] = "requests"
             /\ \/ queue[c] # << >>
                \/ resume[c] /\ ~sync_waiting(c) /\ input[c] # << >>}
poll_events_NoResume(c) ==
  LET suspended == state[c] = "requests" /\ sync_waiting(c)
  IN  IF finished[c]
      THEN {}
      ELSE {e \in {"in", "out"} :
              \/ e = "in" /\ ~closing[c] /\ ~suspended
              \/ e = "out" /\ output[c] # << >>
              \/ /\ e = "out" /\ ~closing[c]
                 /\ state[c] = "requests" /\ queue[c] # << >>}
poll_events(c) ==
  LET suspended == state[c] = "requests" /\ sync_waiting(c)
  IN  IF finished[c]
      THEN {}
      ELSE {e \in {"in", "out"} :
              \/ e = "in" /\ ~closing[c] /\ ~suspended
              \/ e = "out" /\ output[c] # << >>
              \/ /\ e = "out" /\ ~closing[c]
                 /\ state[c] = "requests" /\ queue[c] # << >>
              \/ /\ e = "out" /\ ~closing[c]
                 /\ resume[c] /\ ~suspended /\ input[c] # << >>}

(* The events poll is asked for: a grab masks the input of other clients. *)
PolledFor(c) ==
  IF grab \in {NoClient, c} THEN poll_events(c) ELSE poll_events(c) \ {"in"}

(* What poll reports: the requested events that hold, and any hang-up. *)
Revents(c) ==
  {e \in PolledFor(c) :
     \/ e = "in" /\ (inbox[c] # << >> \/ peer[c] \in {"shut", "closed"})
     \/ e = "out" /\ (unread[c] < SendRoom \/ peer[c] = "closed")}
  \cup {e \in {"hup"} : peer[c] = "closed"}

(* A packet that is complete: the second half of a split one is there. *)
Complete(in) == in # << >> /\ (in[1].op = "part" => Len(in) > 1)
FirstPacket(in) == IF in[1].op = "part" THEN in[2] ELSE in[1]
AfterFirst(in) == SubSeq(in, IF in[1].op = "part" THEN 3 ELSE 2, Len(in))

(* dispatch_order: the polled clients by descending priority, stably. *)
IsDispatchOrder(o) ==
  /\ \A c \in Range(clients) : \E i \in DOMAIN o : o[i] = c
  /\ \A i, j \in DOMAIN o : i < j =>
       LET at(c) == CHOOSE k \in DOMAIN clients : clients[k] = c
       IN  \/ priority[o[i]] > priority[o[j]]
           \/ priority[o[i]] = priority[o[j]] /\ at(o[i]) < at(o[j])

(* Visits and handlers run for the first client of the rest of the order. *)
HasVisited ==
  pc \in {"visit", "writable", "process", "flush", "readable"} => order # << >>

(* The connection Server::run is visiting, and the grab's veto over it. *)
Visited == Head(order)
MayProcess_Always(c) == TRUE
MayProcess(c) == grab \in {NoClient, c}

Goto(place) ==
  /\ pc' = place
  /\ UNCHANGED <<return, clients, ready, order, remove>>

(* Where the loop goes with these clients left to visit and to remove. *)
Onward(left, gone) ==
  IF left # << >> THEN "visit" ELSE IF gone # {} THEN "reap" ELSE "timers"

(* The visit is over; the connection is marked for removal if "gone". *)
EndVisit(gone) ==
  /\ remove' = IF gone THEN remove \cup {Visited} ELSE remove
  /\ order' = Tail(order)
  /\ ready' = [ready EXCEPT ![Visited] = {}]
  /\ pc' = Onward(order', remove')
  /\ UNCHANGED <<return, clients>>

(* A handler returned a failure: the connection is closed. *)
Fail == EndVisit(TRUE)

(* The handlers succeeded: "done" is what finished() now says. *)
Leave_KeepsHungUp(done) == EndVisit(done \/ Visited \in terminate)
Leave(done) ==
  LET hungUp == "hup" \in ready[Visited] /\ "out" \notin ready[Visited]
  IN  EndVisit(done \/ hungUp \/ Visited \in terminate)
-----------------------------------------------------------------------------
(* The loop around the connections.                                        *)

(***************************************************************************)
(* ServerState::process_timers, one due key repeat or Present operation    *)
(* per step: it queues its events if all of them fit, and otherwise is put *)
(* off and nothing more is tried in this turn.  A Present operation may    *)
(* trigger a fence and so end waits.                                       *)
(***************************************************************************)
ProcessTimers ==
  /\ pc = "timers"
  /\ \/ Goto("poll") /\ UNCHANGED <<ticks, queue, waiting>>
     \/ /\ ticks < MaxTicks
        /\ ticks' = ticks + 1
        /\ \E C \in SUBSET registered :
             LET plan == PlanForAll(C, "event")
             IN  IF Fits(queue, TotalEvents(queue), plan)
                 THEN /\ queue' = Deliver(queue, plan, sequence)
                      /\ \E W \in SUBSET {c \in Client : waiting[c] = "fence"} :
                           waiting' = [c \in Client |->
                             IF c \in W THEN "none" ELSE waiting[c]]
                      /\ UNCHANGED loopVars
                 ELSE Goto("poll") /\ UNCHANGED <<queue, waiting>>
  /\ UNCHANGED <<backlog, connects, packets, peer, sent, inbox, unread, connVars,
                 registered, grab, terminate, priority>>

(***************************************************************************)
(* poll returns when something is ready, or when a timer is due.  The      *)
(* clients polled, and only those, will be dispatched; accepting others    *)
(* first changes no priority, so the order is the same fixed here.         *)
(***************************************************************************)
Poll ==
  /\ pc = "poll"
  /\ \/ backlog > 0
     \/ ticks < MaxTicks
     \/ \E c \in Range(clients) : Revents(c) # {}
  /\ ready' = [c \in Client |-> IF c \in Range(clients) THEN Revents(c) ELSE {}]
  /\ \E o \in [1..Len(clients) -> Range(clients)] :
       IsDispatchOrder(o) /\ order' = o
  /\ pc' = IF backlog > 0 THEN "accept" ELSE Onward(order', {})
  /\ UNCHANGED <<peerVars, connVars, sharedVars, return, clients, remove>>

(* The lowest slot without a connection. *)
free_slot_Unregistered(c) ==
  c \notin registered /\ \A d \in Client : d \notin registered => c <= d
free_slot(c) ==
  state[c] = "free" /\ \A d \in Client : state[d] = "free" => c <= d

(* A new connection takes a free slot and waits for the setup prefix. *)
Accept ==
  /\ pc = "accept" /\ backlog > 0
  /\ \E c \in Client :
       /\ free_slot(c)
       /\ state' = [state EXCEPT ![c] = "setup_prefix"]
       /\ peer' = [peer EXCEPT ![c] = "open"]
       /\ clients' = Append(clients, c)
  /\ backlog' = backlog - 1
  /\ pc' = IF backlog' > 0 THEN "accept" ELSE Onward(order, {})
  /\ UNCHANGED <<connects, packets, ticks, sent, inbox, unread, input, output,
                 written, sequence, resume, closing, finished, sharedVars, return,
                 ready, order, remove>>

(* No slot is free, or prepare failed: the connection is dropped. *)
AcceptDropped ==
  /\ pc = "accept" /\ backlog > 0
  /\ backlog' = backlog - 1
  /\ Goto(IF backlog' > 0 THEN "accept" ELSE Onward(order, {}))
  /\ UNCHANGED <<connects, packets, ticks, peer, sent, inbox, unread, connVars,
                 sharedVars>>
-----------------------------------------------------------------------------
(* A visit of one polled connection.                                       *)

(* Another client holds the grab and this peer hung up. *)
VisitHungUp ==
  /\ pc = "visit"
  /\ ~MayProcess(Visited) /\ "hup" \in ready[Visited]
  /\ Fail
  /\ UNCHANGED <<peerVars, connVars, sharedVars>>

(* Neither handler is called: nothing is ready, or the grab forbids it. *)
VisitIdle_KeepsKilled ==
  /\ pc = "visit"
  /\ \/ ~MayProcess(Visited) /\ "hup" \notin ready[Visited]
     \/ ready[Visited] = {}
  /\ EndVisit(finished[Visited])
  /\ UNCHANGED <<peerVars, connVars, sharedVars>>
VisitIdle ==
  /\ pc = "visit"
  /\ \/ ~MayProcess(Visited) /\ "hup" \notin ready[Visited]
     \/ ready[Visited] = {}
  /\ EndVisit(finished[Visited] \/ Visited \in terminate)
  /\ UNCHANGED <<peerVars, connVars, sharedVars>>

VisitReady ==
  /\ pc = "visit"
  /\ MayProcess(Visited) /\ ready[Visited] # {}
  /\ Goto(IF "out" \in ready[Visited] THEN "writable" ELSE "readable")
  /\ UNCHANGED <<peerVars, connVars, sharedVars>>
-----------------------------------------------------------------------------
(* Connection::drain_pending_events, the first thing most steps do.        *)

Drained(c) == output[c] \o queue[c]
DrainFits(c) == Len(Drained(c)) <= MaxOutput

(***************************************************************************)
(* Some event does not fit the output buffer: those before it are moved,   *)
(* it and the rest stay queued, and the handler fails.                     *)
(***************************************************************************)
DrainOverflow ==
  LET c == Visited
  IN  /\ pc \in {"writable", "process", "flush"}
      /\ pc = "process" => state[c] = "requests" /\ ~closing[c] /\ ~sync_waiting(c)
      /\ ~DrainFits(c)
      /\ output' = [output EXCEPT ![c] = SubSeq(Drained(c), 1, MaxOutput)]
      /\ queue' = [queue EXCEPT ![c] =
                     SubSeq(Drained(c), MaxOutput + 1, Len(Drained(c)))]
      /\ Fail
      /\ UNCHANGED <<peerVars, state, input, written, sequence, resume, closing,
                     finished, registered, grab, terminate, waiting, priority>>

(* All events are moved to the output of c, followed by "messages". *)
Emit_Undrained(c, messages) ==
  /\ output' = [output EXCEPT ![c] = @ \o messages]
  /\ UNCHANGED queue
Emit(c, messages) ==
  /\ output' = [output EXCEPT ![c] = Drained(c) \o messages]
  /\ queue' = [queue EXCEPT ![c] = << >>]
-----------------------------------------------------------------------------
(* Connection::on_writable.                                                *)

(* process_input forgets that it was suspended once the wait is over. *)
ResumeOnEntry(c) ==
  resume' = IF state[c] = "requests" /\ ~sync_waiting(c)
            THEN [resume EXCEPT ![c] = FALSE]
            ELSE resume

(* Events are drained; input held back by a wait that ended is processed. *)
OnWritable ==
  LET c == Visited
  IN  /\ pc = "writable" /\ DrainFits(c)
      /\ Emit(c, << >>)
      /\ IF resume[c] /\ ~sync_waiting(c) /\ input[c] # << >>
         THEN /\ ResumeOnEntry(c)
              /\ pc' = "process" /\ return' = "flush"
         ELSE /\ pc' = "flush"
              /\ UNCHANGED <<resume, return>>
      /\ UNCHANGED <<peerVars, state, input, written, sequence, closing, finished,
                     registered, grab, terminate, waiting, priority,
                     clients, ready, order, remove>>

(* Whether on_readable is called after on_writable. *)
AfterWritable(c, done) ==
  IF ~done /\ ready[c] \cap {"in", "hup"} # {} THEN Goto("readable") ELSE Leave(done)

(* Everything is written. *)
FlushDone ==
  LET c == Visited
  IN  /\ pc = "flush" /\ DrainFits(c) /\ Drained(c) = << >>
      /\ finished' = [finished EXCEPT ![c] = @ \/ closing[c]]
      /\ AfterWritable(c, finished'[c])
      /\ UNCHANGED <<peerVars, state, input, output, written, sequence, resume,
                     closing, sharedVars>>

(* One write of the loop; the kernel takes it. *)
FlushWrite ==
  LET c == Visited
      out == Drained(c)
  IN  /\ pc = "flush" /\ DrainFits(c) /\ out # << >>
      /\ peer[c] # "closed" /\ unread[c] < SendRoom
      /\ output' = [output EXCEPT ![c] = Tail(out)]
      /\ queue' = [queue EXCEPT ![c] = << >>]
      /\ written' = [written EXCEPT ![c] = Head(out).sequence]
      /\ unread' = [unread EXCEPT ![c] = @ + 1]
      /\ UNCHANGED <<backlog, connects, packets, ticks, peer, sent, inbox, state, input,
                     sequence, resume, closing, finished, registered, grab,
                     terminate, waiting, priority, loopVars>>

(* EAGAIN: the peer does not read; the rest waits for the next POLLOUT. *)
FlushBlocked ==
  LET c == Visited
  IN  /\ pc = "flush" /\ DrainFits(c) /\ Drained(c) # << >>
      /\ peer[c] # "closed" /\ unread[c] = SendRoom
      /\ Emit(c, << >>)
      /\ AfterWritable(c, finished[c])
      /\ UNCHANGED <<peerVars, state, input, written, sequence, resume, closing,
                     finished, registered, grab, terminate, waiting, priority>>

(* EPIPE: the peer is gone. *)
FlushBroken ==
  LET c == Visited
  IN  /\ pc = "flush" /\ DrainFits(c) /\ Drained(c) # << >>
      /\ peer[c] = "closed"
      /\ Emit(c, << >>)
      /\ Fail
      /\ UNCHANGED <<peerVars, state, input, written, sequence, resume, closing,
                     finished, registered, grab, terminate, waiting, priority>>
-----------------------------------------------------------------------------
(* Connection::on_readable.                                                *)

(* The connection reads no more: it is closing, or suspended by a wait. *)
HoldsInput(c) ==
  closing[c] \/ (state[c] = "requests" /\ sync_waiting(c))

ReadableHeld ==
  /\ pc = "readable" /\ HoldsInput(Visited)
  /\ Leave(finished[Visited])
  /\ UNCHANGED <<peerVars, connVars, sharedVars>>

(* recvmsg returns data, which process_input is called for. *)
Receive ==
  LET c == Visited
  IN  /\ pc = "readable" /\ ~HoldsInput(c) /\ inbox[c] # << >>
      /\ Len(input[c]) + Len(inbox[c]) <= MaxInput
      /\ input' = [input EXCEPT ![c] = @ \o inbox[c]]
      /\ inbox' = [inbox EXCEPT ![c] = << >>]
      /\ ResumeOnEntry(c)
      /\ pc' = "process" /\ return' = "readable"
      /\ UNCHANGED <<backlog, connects, packets, ticks, peer, sent, unread, state, output,
                     written, sequence, closing, finished, sharedVars,
                     clients, ready, order, remove>>

ReceiveOverflow ==
  LET c == Visited
  IN  /\ pc = "readable" /\ ~HoldsInput(c) /\ inbox[c] # << >>
      /\ Len(input[c]) + Len(inbox[c]) > MaxInput
      /\ inbox' = [inbox EXCEPT ![c] = << >>]
      /\ Fail
      /\ UNCHANGED <<backlog, connects, packets, ticks, peer, sent, unread, connVars,
                     sharedVars>>

(* EAGAIN. *)
ReadableDone ==
  LET c == Visited
  IN  /\ pc = "readable" /\ ~HoldsInput(c)
      /\ inbox[c] = << >> /\ peer[c] = "open"
      /\ Leave(finished[Visited])
      /\ UNCHANGED <<peerVars, connVars, sharedVars>>

(* Close once "out", the output there is, has been sent. *)
close_after_output_Stays(c, out) ==
  /\ finished' = [finished EXCEPT ![c] = @ \/ out = << >>]
  /\ UNCHANGED closing
close_after_output(c, out) ==
  /\ closing' = [closing EXCEPT ![c] = TRUE]
  /\ finished' = [finished EXCEPT ![c] = @ \/ out = << >>]

(* The end of the stream between two requests: the output is still sent. *)
EndOfStream ==
  LET c == Visited
  IN  /\ pc = "readable" /\ ~HoldsInput(c)
      /\ inbox[c] = << >> /\ peer[c] \in {"shut", "closed"}
      /\ input[c] = << >> /\ state[c] = "requests"
      /\ close_after_output(c, output[c])
      /\ Leave(finished'[c])
      /\ UNCHANGED <<peerVars, state, input, output, written, sequence, resume,
                     sharedVars>>

(* The stream ends within a packet or before setup, or was reset. *)
BrokenStream ==
  LET c == Visited
  IN  /\ pc = "readable" /\ ~HoldsInput(c)
      /\ inbox[c] = << >>
      /\ \/ /\ peer[c] \in {"shut", "closed"}
            /\ input[c] # << >> \/ state[c] # "requests"
         \/ peer[c] = "closed"
      /\ Fail
      /\ UNCHANGED <<peerVars, connVars, sharedVars>>
-----------------------------------------------------------------------------
(* Connection::process_input: one turn of its loop is one step.            *)

(* The loop's condition. *)
Continues(c) == ~finished[c] /\ ~HoldsInput(c)

(* The loop ends: its condition fails, or the next packet is incomplete. *)
ProcessReturn ==
  LET c == Visited
  IN  /\ pc = "process"
      /\ IF Continues(c)
         THEN /\ ~Complete(input[c])
              /\ IF state[c] = "requests"
                 THEN DrainFits(c) /\ Emit(c, << >>)
                 ELSE UNCHANGED <<output, queue>>
         ELSE UNCHANGED <<output, queue>>
      /\ Goto(return)
      /\ UNCHANGED <<peerVars, state, input, written, sequence, resume, closing,
                     finished, registered, grab, terminate, waiting, priority>>

(* A packet of setup, which "op" and the state it must come in select. *)
SetupPacket(c, stage, op) ==
  /\ pc = "process" /\ Continues(c)
  /\ state[c] = stage
  /\ Complete(input[c]) /\ FirstPacket(input[c]).op = op

SetupPrefix ==
  LET c == Visited
  IN  /\ SetupPacket(c, "setup_prefix", "prefix")
      /\ input' = [input EXCEPT ![c] = AfterFirst(@)]
      /\ state' = [state EXCEPT ![c] = "setup_authentication"]
      /\ UNCHANGED <<peerVars, output, written, sequence, resume, closing, finished,
                     sharedVars, loopVars>>

(* A setup that is malformed: the byte order or the lengths. *)
SetupMalformed ==
  LET c == Visited
  IN  /\ SetupPacket(c, "setup_prefix", "bad_order")
      /\ Fail
      /\ UNCHANGED <<peerVars, connVars, sharedVars>>

(* The wrong protocol version, or a cookie that is not the server's. *)
SetupRefused ==
  LET c == Visited
  IN  /\ \/ SetupPacket(c, "setup_prefix", "bad_version")
         \/ SetupPacket(c, "setup_authentication", "bad_cookie")
      /\ IF Len(output[c]) < MaxOutput
         THEN /\ output' = [output EXCEPT ![c] =
                             Append(@, [type |-> "refused", sequence |-> 0])]
              /\ input' = [input EXCEPT ![c] = << >>]
              /\ close_after_output(c, output'[c])
              /\ UNCHANGED loopVars
         ELSE /\ input' = [input EXCEPT ![c] = AfterFirst(@)]
              /\ Fail
              /\ UNCHANGED <<output, closing, finished>>
      /\ UNCHANGED <<peerVars, state, written, sequence, resume, sharedVars>>

(* process_setup_authentication with the right cookie: the client exists. *)
SetupAuthenticated ==
  LET c == Visited
  IN  /\ SetupPacket(c, "setup_authentication", "cookie")
      /\ input' = [input EXCEPT ![c] = AfterFirst(@)]
      /\ registered' = registered \cup {c}
      /\ IF Len(output[c]) < MaxOutput
         THEN /\ output' = [output EXCEPT ![c] =
                             Append(@, [type |-> "setup", sequence |-> 0])]
              /\ state' = [state EXCEPT ![c] = "requests"]
              /\ UNCHANGED loopVars
         ELSE /\ Fail
              /\ UNCHANGED <<output, state>>
      /\ UNCHANGED <<peerVars, written, sequence, resume, closing, finished,
                     queue, grab, terminate, waiting, priority>>
-----------------------------------------------------------------------------
(* Connection::process_request: the events queued so far are drained, the  *)
(* packet is consumed and numbered, and its handler runs.                  *)

Request(c, op) ==
  /\ pc = "process" /\ Continues(c)
  /\ state[c] = "requests" /\ DrainFits(c)
  /\ Complete(input[c]) /\ FirstPacket(input[c]).op = op

Number(c) == sequence[c] + 1

Consume(c) ==
  /\ input' = [input EXCEPT ![c] = AfterFirst(@)]
  /\ sequence' = [sequence EXCEPT ![c] = Number(c)]

(* One reply or error is queued, or the output buffer is full. *)
Answer(c, type) ==
  IF Len(Drained(c)) < MaxOutput
  THEN /\ Emit(c, <<[type |-> type, sequence |-> Number(c)]>>)
       /\ UNCHANGED loopVars
  ELSE /\ Emit(c, << >>)
       /\ Fail

(* No answer. *)
Silent(c) == Emit(c, << >>) /\ UNCHANGED loopVars

(* The queues once those of c are drained. *)
QueueAfterDrain(c) == [queue EXCEPT ![c] = << >>]

(* A request that is answered, or refused by an error. *)
Query ==
  LET c == Visited
  IN  /\ Request(c, "query") /\ Consume(c)
      /\ \E type \in {"reply", "error"} : Answer(c, type)
      /\ UNCHANGED <<peerVars, state, written, resume, closing, finished,
                     registered, grab, terminate, waiting, priority>>

(* A length no request may have: an error, and the connection closes. *)
Oversize ==
  LET c == Visited
  IN  /\ Request(c, "oversize")
      /\ sequence' = [sequence EXCEPT ![c] = Number(c)]
      /\ Answer(c, "error")
      /\ IF Len(Drained(c)) < MaxOutput
         THEN /\ input' = [input EXCEPT ![c] = << >>]
              /\ close_after_output(c, output'[c])
         ELSE UNCHANGED <<input, closing, finished>>
      /\ UNCHANGED <<peerVars, state, written, resume,
                     registered, grab, terminate, waiting, priority>>

(* A handler that cannot read its request fails the connection. *)
Malformed ==
  LET c == Visited
  IN  /\ Request(c, "malformed") /\ Consume(c)
      /\ Emit(c, << >>)
      /\ Fail
      /\ UNCHANGED <<peerVars, state, written, resume, closing, finished,
                     registered, grab, terminate, waiting, priority>>

(***************************************************************************)
(* A request that changes the state and tells a client of it: the events   *)
(* are all queued, or the request is refused with BadAlloc.                *)
(***************************************************************************)
Notify ==
  LET c == Visited
      others == QueueAfterDrain(c)
      plan == PlanForAll({FirstPacket(input[c]).to} \cap registered, "event")
  IN  /\ Request(c, "notify") /\ Consume(c)
      /\ IF Fits(others, TotalEvents(others), plan)
         THEN /\ output' = [output EXCEPT ![c] = Drained(c)]
              /\ queue' = Deliver(others, plan, sequence')
              /\ UNCHANGED loopVars
         ELSE Answer(c, "error")
      /\ UNCHANGED <<peerVars, state, written, resume, closing, finished,
                     registered, grab, terminate, waiting, priority>>

GrabServer ==
  LET c == Visited
  IN  /\ Request(c, "grab") /\ Consume(c) /\ Silent(c)
      /\ grab' = IF grab \in {NoClient, c} THEN c ELSE grab
      /\ UNCHANGED <<peerVars, state, written, resume, closing, finished,
                     registered, terminate, waiting, priority>>

UngrabServer ==
  LET c == Visited
  IN  /\ Request(c, "ungrab") /\ Consume(c) /\ Silent(c)
      /\ grab' = IF grab = c THEN NoClient ELSE grab
      /\ UNCHANGED <<peerVars, state, written, resume, closing, finished,
                     registered, terminate, waiting, priority>>

(* ServerState::request_client_termination: whom KillClient marks. *)
request_client_termination(target) ==
  IF target \in registered THEN terminate \cup {target} ELSE terminate

(* KillClient: the owner of the resource is removed when next visited; the *)
(* resource 0 stands for what no client owns any more, which is nothing.   *)
KillClient ==
  LET c == Visited
      target == FirstPacket(input[c]).to
  IN  /\ Request(c, "kill") /\ Consume(c)
      /\ terminate' = request_client_termination(target)
      /\ IF target \in registered \cup {NoClient} THEN Silent(c) ELSE Answer(c, "error")
      /\ UNCHANGED <<peerVars, state, written, resume, closing, finished,
                     registered, grab, waiting, priority>>

(***************************************************************************)
(* SYNC Await and AwaitFence suspend the client, whose further input is    *)
(* held back, unless the wait is over already; Await then reports this     *)
(* with an event, which is drained at once, if the client wants one.       *)
(***************************************************************************)
AwaitSuspends ==
  LET c == Visited
  IN  /\ \/ /\ Request(c, "await_counter")
            /\ waiting' = [waiting EXCEPT ![c] = "counter"]
         \/ /\ Request(c, "await_fence")
            /\ waiting' = [waiting EXCEPT ![c] = "fence"]
      /\ Consume(c) /\ Silent(c)
      /\ resume' = [resume EXCEPT ![c] = TRUE]
      /\ UNCHANGED <<peerVars, state, written, closing, finished,
                     registered, grab, terminate, priority>>

AwaitSatisfied ==
  LET c == Visited
      others == QueueAfterDrain(c)
      plan == PlanFor(c, "event")
  IN  /\ \/ (Request(c, "await_fence") \/ Request(c, "await_counter")) /\ Silent(c)
         \/ /\ Request(c, "await_counter")
            /\ IF Fits(others, TotalEvents(others), plan)
               THEN Answer(c, "event")
               ELSE Answer(c, "error")
      /\ Consume(c)
      /\ UNCHANGED <<peerVars, state, written, resume, closing, finished,
                     registered, grab, terminate, waiting, priority>>

(***************************************************************************)
(* A counter changes or is destroyed: alarms and ended waits send events,  *)
(* and if these do not all fit nothing happens.  The requesting client's   *)
(* own events are drained at once.                                         *)
(***************************************************************************)
SetCounter ==
  LET c == Visited
      others == QueueAfterDrain(c)
  IN  /\ Request(c, "set_counter") /\ Consume(c)
      /\ \E C \in SUBSET registered,
           W \in SUBSET {d \in Client : waiting[d] = "counter"} :
           LET plan == PlanForAll(C, "event")
           IN  IF Fits(others, TotalEvents(others), plan)
               THEN /\ waiting' = [d \in Client |->
                                    IF d \in W THEN "none" ELSE waiting[d]]
                    /\ LET delivered == Deliver(others, plan, sequence')
                           drained == Drained(c) \o delivered[c]
                       IN  IF Len(drained) <= MaxOutput
                           THEN /\ output' = [output EXCEPT ![c] = drained]
                                /\ queue' = [delivered EXCEPT ![c] = << >>]
                                /\ UNCHANGED loopVars
                           ELSE /\ output' = [output EXCEPT ![c] = Drained(c)]
                                /\ queue' = delivered
                                /\ Fail
               ELSE /\ Answer(c, "error")
                    /\ UNCHANGED waiting
      /\ UNCHANGED <<peerVars, state, written, resume, closing, finished,
                     registered, grab, terminate, priority>>

(* A fence is triggered or destroyed: the waits on it just end. *)
TriggerFence ==
  LET c == Visited
  IN  /\ Request(c, "trigger_fence") /\ Consume(c) /\ Silent(c)
      /\ \E W \in SUBSET {d \in Client : waiting[d] = "fence"} :
           waiting' = [d \in Client |-> IF d \in W THEN "none" ELSE waiting[d]]
      /\ UNCHANGED <<peerVars, state, written, resume, closing, finished,
                     registered, grab, terminate, priority>>

(* SYNC SetPriority, for the owner of any resource. *)
SetPriority ==
  LET c == Visited
  IN  /\ Request(c, "priority") /\ Consume(c) /\ Silent(c)
      /\ \E d \in registered :
           priority' = [priority EXCEPT ![d] = FirstPacket(input[c]).to]
      /\ UNCHANGED <<peerVars, state, written, resume, closing, finished,
                     registered, grab, terminate, waiting>>
-----------------------------------------------------------------------------
(* The end of a turn.                                                      *)

(* What the loop itself asks of a client is dropped with the client. *)
Forget_KeepsPriority(c) ==
  /\ terminate' = terminate \ {c}
  /\ registered' = registered \ {c}
  /\ grab' = IF grab = c THEN NoClient ELSE grab
  /\ UNCHANGED priority
Forget(c) ==
  /\ terminate' = terminate \ {c}
  /\ registered' = registered \ {c}
  /\ grab' = IF grab = c THEN NoClient ELSE grab
  /\ priority' = [priority EXCEPT ![c] = 0]

(***************************************************************************)
(* ~Connection and ServerState::disconnect_client: the slot is freed and   *)
(* all state kept for the client is dropped.  Its selections, windows and  *)
(* SYNC resources go too, which sends events to others where all of them   *)
(* fit and ends waits on its counters and fences in any case.              *)
(***************************************************************************)
disconnect_client(c) ==
  /\ Forget(c)
  /\ \E C \in SUBSET (registered \ {c}), W \in SUBSET {d \in Client : sync_waiting(d)} :
       LET rest == QueueAfterDrain(c)
           plan == PlanForAll(C, "event")
       IN  /\ queue' = IF Fits(rest, TotalEvents(rest), plan)
                       THEN Deliver(rest, plan, sequence)
                       ELSE rest
           /\ waiting' = [d \in Client |->
                           IF d = c \/ d \in W THEN "none" ELSE waiting[d]]

(* The last marked connection of the vector is erased first. *)
Reap ==
  /\ pc = "reap"
  /\ \E i \in DOMAIN clients :
       LET c == clients[i]
       IN  /\ c \in remove
           /\ \A j \in DOMAIN clients : j > i => clients[j] \notin remove
           /\ disconnect_client(c)
           /\ clients' = RemoveAt(clients, i)
           /\ remove' = remove \ {c}
           /\ pc' = Onward(order, remove')
           /\ peer' = [peer EXCEPT ![c] = "none"]
           /\ sent' = [sent EXCEPT ![c] = 0]
           /\ inbox' = [inbox EXCEPT ![c] = << >>]
           /\ unread' = [unread EXCEPT ![c] = 0]
           /\ state' = [state EXCEPT ![c] = "free"]
           /\ input' = [input EXCEPT ![c] = << >>]
           /\ output' = [output EXCEPT ![c] = << >>]
           /\ written' = [written EXCEPT ![c] = 0]
           /\ sequence' = [sequence EXCEPT ![c] = 0]
           /\ resume' = [resume EXCEPT ![c] = FALSE]
           /\ closing' = [closing EXCEPT ![c] = FALSE]
           /\ finished' = [finished EXCEPT ![c] = FALSE]
  /\ UNCHANGED <<backlog, connects, packets, ticks, return, ready, order>>
-----------------------------------------------------------------------------
PeerStep ==
  \/ PeerConnect
  \/ \E c \in Client :
       \/ \E p \in Sendable : PeerSend(c, p)
       \/ PeerSetup(c)
       \/ "read" \in PeerMoves /\ PeerRead(c)
       \/ \E how \in PeerMoves \ {"read"} : PeerHangUp(c, how)

WritableStep ==
  \/ OnWritable \/ FlushDone \/ FlushWrite \/ FlushBlocked \/ FlushBroken

ReadableStep ==
  \/ ReadableHeld \/ Receive \/ ReceiveOverflow \/ ReadableDone
  \/ EndOfStream \/ BrokenStream

SetupStep ==
  \/ SetupPrefix \/ SetupMalformed \/ SetupRefused \/ SetupAuthenticated

RequestStep ==
  \/ Query \/ Oversize \/ Malformed \/ Notify
  \/ GrabServer \/ UngrabServer \/ KillClient
  \/ AwaitSuspends \/ AwaitSatisfied \/ SetCounter \/ TriggerFence
  \/ SetPriority

LoopStep ==
  \/ ProcessTimers \/ Poll \/ Accept \/ AcceptDropped
  \/ VisitHungUp \/ VisitIdle \/ VisitReady
  \/ Reap

ServerStep ==
  \/ LoopStep \/ DrainOverflow \/ WritableStep \/ ReadableStep
  \/ ProcessReturn \/ SetupStep \/ RequestStep

Next == PeerStep \/ ServerStep

Spec == Init /\ [][Next]_vars

(* The loop takes its next step whenever it can; the peers owe nothing. *)
FairSpec == Spec /\ WF_vars(ServerStep)
-----------------------------------------------------------------------------
(* Properties.                                                             *)

(***************************************************************************)
(* After a message numbered w, the messages of out and then those of q     *)
(* come in non-decreasing order, and none of them is ahead of n.           *)
(***************************************************************************)
InOrder(w, out, q, n) ==
  /\ w <= n
  /\ \A i \in 1..Len(out) : w <= out[i].sequence /\ out[i].sequence <= n
  /\ \A i \in 1..Len(q) : w <= q[i].sequence /\ q[i].sequence <= n
  /\ \A i, j \in 1..Len(out) : i <= j => out[i].sequence <= out[j].sequence
  /\ \A i, j \in 1..Len(q) : i <= j => q[i].sequence <= q[j].sequence
  /\ \A i \in 1..Len(out), j \in 1..Len(q) : out[i].sequence <= q[j].sequence

(***************************************************************************)
(* Sequence numbers never go back on the wire: what was written, what is   *)
(* in output_ and what is still in the event queue of a client come in     *)
(* non-decreasing order and none is ahead of the last request read.  An    *)
(* event drained after the reply to a newer request would break this; it   *)
(* is what the comment in process_input is about.                          *)
(***************************************************************************)
WireOrder ==
  \A c \in Client : InOrder(written[c], output[c], queue[c], sequence[c])

(***************************************************************************)
(* A slot can be given to a new client at any time it is free: ServerState *)
(* keeps nothing under the resource base of a connection that does not     *)
(* exist or has not completed setup.  In particular the server is never    *)
(* left grabbed by, and no event queued for, a client that is gone, and no *)
(* event or termination meant for a former client reaches the next one.    *)
(***************************************************************************)
NoResidue ==
  \A c \in Client : state[c] # "requests" =>
    /\ c \notin registered /\ c \notin terminate /\ grab # c
    /\ waiting[c] = "none" /\ queue[c] = << >> /\ priority[c] = 0

(***************************************************************************)
(* The slot table and the vector of connections agree, so that every       *)
(* connection is polled, visited and reaped once: each used slot occurs    *)
(* exactly once in clients, no free slot is dispatched or reaped.          *)
(***************************************************************************)
SlotsAgree ==
  /\ \A i, j \in DOMAIN clients : clients[i] = clients[j] => i = j
  /\ Range(clients) = {c \in Client : state[c] # "free"}
  /\ \A i, j \in DOMAIN order : order[i] = order[j] => i = j
  /\ Range(order) \cup remove \subseteq Range(clients)
  /\ HasVisited

(***************************************************************************)
(* A peer that did not present the cookie gets a refusal and nothing else: *)
(* no request of it is read, and no reply or event is produced for it.     *)
(***************************************************************************)
SetupGate ==
  \A c \in Client : state[c] # "requests" =>
    /\ sequence[c] = 0
    /\ \A i \in 1..Len(output[c]) : output[c][i].type = "refused"
    /\ ~closing[c] => output[c] = << >>

(***************************************************************************)
(* No lost wake-up: when the loop is about to poll, a connection with a    *)
(* complete request in input_ is either suspended by a SYNC wait, or is    *)
(* polled for output, the one event that makes on_writable process it.     *)
(***************************************************************************)
NoStrandedInput ==
  pc \in {"timers", "poll"} =>
    \A c \in Client : Complete(input[c]) =>
      \/ sync_waiting(c) /\ resume[c]
      \/ "out" \in PolledFor(c) /\ ~sync_waiting(c)

(***************************************************************************)
(* While a client holds the server grab no request of another is read.     *)
(***************************************************************************)
GrabExclusion ==
  [][\A c \in Client : grab \notin {NoClient, c} => sequence'[c] \in {sequence[c], 0}]_vars

(***************************************************************************)
(* Another client holds the grab and c has output to send or input to      *)
(* resume: c is polled for output all the same and its visit does nothing. *)
(***************************************************************************)
Excluded(c) == grab \notin {NoClient, c} /\ "out" \in poll_events(c)

(***************************************************************************)
(* A SYNC wait suspends its client, and nothing else.  As long as the wait *)
(* lasts, what the peer sent before and during it stays where it is, in    *)
(* input_ and in the socket: it is neither run nor received, nor is its    *)
(* end taken for the end of the stream while input_ still holds requests,  *)
(* even if the connection was polled before it was suspended.  And the     *)
(* loop sleeps meanwhile: poll is not asked for the input nobody will      *)
(* read, which it would report for ever, so that once the peers are silent *)
(* only a client excluded by a grab can keep it from blocking.             *)
(***************************************************************************)
WaitSuspends ==
  /\ [][\A c \in Client : sync_waiting(c) /\ sync_waiting(c)' =>
         /\ UNCHANGED <<input[c], sequence[c], closing[c], finished[c]>>
         /\ IsPrefix(inbox[c], inbox'[c])]_vars
  /\ <>[](pc = "poll" \/ \E c \in Client : Excluded(c))

(* The output buffer of a connection stays within its limit. *)
OutputBounded == \A c \in Client : Len(output[c]) <= MaxOutput

(***************************************************************************)
(* A peer that hung up does not keep its slot: whatever the connection is  *)
(* doing (suspended by a wait, excluded by a grab, stuck with output it    *)
(* cannot write), it is destroyed.                                         *)
(***************************************************************************)
HangUpFrees == \A c \in Client : peer[c] = "closed" ~> state[c] = "free"

(***************************************************************************)
(* A client that KillClient marked before the loop visited it is gone by   *)
(* the end of the turn.                                                    *)
(***************************************************************************)
KilledIsRemoved ==
  \A c \in Client :
    (pc = "visit" /\ c \in terminate /\ c \in Range(order)) ~> c \notin terminate
=============================================================================
