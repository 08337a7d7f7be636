---------------------------- MODULE Server_proofs ----------------------------
(***************************************************************************)
(* Proofs about the event loop, for every number of clients, every limit   *)
(* and every choice of what the peers send: types; the server grab holds   *)
(* requests back, slots are clean when they are reused, the vector of      *)
(* connections agrees with the slots, no received request is               *)
(* forgotten, and sequence numbers never go back on the wire.              *)
(***************************************************************************)
EXTENDS Server, SequenceTheorems, TLAPS
-----------------------------------------------------------------------------
(* Facts about the operators the steps are built from.                     *)

(* The rest of a sequence that is not empty. *)
LEMMA TailType ==
  ASSUME NEW S, NEW s \in Seq(S), s # << >>
  PROVE  Tail(s) \in Seq(S) /\ Len(Tail(s)) = Len(s) - 1
  OBVIOUS

LEMMA HeadType ==
  ASSUME NEW S, NEW s \in Seq(S), s # << >>
  PROVE  Head(s) \in S
  OBVIOUS

(* What lies beyond the first of two concatenated sequences is the second's. *)
LEMMA BeyondFirstType ==
  ASSUME NEW S, NEW T, NEW a \in Seq(T), NEW b \in Seq(S), NEW k \in Nat,
         Len(a) <= k, k <= Len(a \o b)
  PROVE  SubSeq(a \o b, k + 1, Len(a \o b)) \in Seq(S)
<1>1. Len(a \o b) = Len(a) + Len(b) /\ Len(a) \in Nat /\ Len(b) \in Nat
  OBVIOUS
<1>2. SubSeq(a \o b, k + 1, Len(a \o b))
        = [i \in 1..(Len(a) + Len(b) - k) |-> (a \o b)[k + i]]
  BY <1>1
<1>3. \A i \in 1..(Len(a) + Len(b) - k) : (a \o b)[k + i] = b[k + i - Len(a)]
  BY <1>1, SMTT(40)
<1>4. \A i \in 1..(Len(a) + Len(b) - k) : b[k + i - Len(a)] \in S
  BY <1>1
<1>5. [i \in 1..(Len(a) + Len(b) - k) |-> b[k + i - Len(a)]] \in Seq(S)
  BY <1>1, <1>4
<1> QED
  BY <1>2, <1>3, <1>5

(* Removing a complete packet from the input leaves a sequence of packets. *)
LEMMA ConsumeType ==
  ASSUME NEW in \in Seq(Packet), Complete(in)
  PROVE  AfterFirst(in) \in Seq(Packet) /\ FirstPacket(in) \in Packet
<1>1. Len(in) > 0 /\ in[1] \in Packet /\ (in[1].op = "part" => Len(in) > 1)
  BY DEF Complete
<1>2. FirstPacket(in) \in Packet
  BY <1>1 DEF FirstPacket
<1>3. \A k \in {2, 3} : SubSeq(in, k, Len(in)) \in Seq(Packet)
  OBVIOUS
<1> QED
  BY <1>2, <1>3 DEF AfterFirst

(* Delivering one event to each client of a set keeps the queues typed. *)
LEMMA DeliverType ==
  ASSUME NEW queues \in [Client -> Seq(Event)], NEW C,
         NEW seq \in [Client -> Nat]
  PROVE  Deliver(queues, PlanForAll(C, "event"), seq) \in [Client -> Seq(Event)]
<1> DEFINE plan == PlanForAll(C, "event")
<1> SUFFICES ASSUME NEW c \in Client
             PROVE  Deliver(queues, plan, seq)[c] \in Seq(Event)
  BY DEF Deliver
<1>1. plan[c] = IF c \in C THEN <<"event">> ELSE << >>
  BY DEF PlanForAll
<1>2. Stamped(plan[c], seq[c]) \in Seq(Event)
  BY <1>1 DEF Stamped, Event
<1> QED
  BY <1>2 DEF Deliver

(* A client that is sent nothing keeps its queue. *)
LEMMA DeliverOutside ==
  ASSUME NEW queues \in [Client -> Seq(Event)], NEW C,
         NEW seq \in [Client -> Nat], NEW d \in Client, d \notin C
  PROVE  Deliver(queues, PlanForAll(C, "event"), seq)[d] = queues[d]
<1> DEFINE plan == PlanForAll(C, "event")
           new(p) == Stamped(p, seq[d])
<1>1. Deliver(queues, plan, seq)[d] = queues[d] \o new(plan[d])
  BY DEF Deliver
<1>2. new(<< >>) = << >>
  BY DEF Stamped
<1>3. plan[d] = << >>
  BY DEF PlanForAll
<1> HIDE DEF new
<1>4. Deliver(queues, plan, seq)[d] = queues[d] \o << >>
  BY <1>1, <1>2, <1>3
<1>5. queues[d] \o << >> = queues[d]
  OBVIOUS
<1> QED
  BY <1>4, <1>5

(* A client that is sent the event has it appended, with its own number. *)
LEMMA DeliverInside ==
  ASSUME NEW queues \in [Client -> Seq(Event)], NEW C,
         NEW seq \in [Client -> Nat], NEW d \in Client, d \in C
  PROVE  Deliver(queues, PlanForAll(C, "event"), seq)[d]
           = Append(queues[d], [type |-> "event", sequence |-> seq[d]])
<1> DEFINE plan == PlanForAll(C, "event")
           e == [type |-> "event", sequence |-> seq[d]]
           new(p) == Stamped(p, seq[d])
<1>1. Deliver(queues, plan, seq)[d] = queues[d] \o new(plan[d])
  BY DEF Deliver
<1>2. new(<<"event">>) = <<e>>
  <2>1. new(<<"event">>) = [i \in 1..1 |-> e]
    BY DEF Stamped
  <2> QED
    BY <2>1
<1>3. plan[d] = <<"event">>
  BY DEF PlanForAll
<1>4. queues[d] \in Seq(Event) /\ e \in Event
  BY DEF Event
<1> HIDE DEF new
<1>5. Deliver(queues, plan, seq)[d] = queues[d] \o <<e>>
  BY <1>1, <1>2, <1>3
<1>6. queues[d] \o <<e>> = Append(queues[d], e)
  BY <1>4
<1> QED
  BY <1>5, <1>6

(* The messages of a drained queue are messages of the output. *)
LEMMA DrainedType ==
  ASSUME TypeOK, NEW c \in Client
  PROVE  Drained(c) \in Seq(Message)
<1>1. output[c] \in Seq(Message) /\ queue[c] \in Seq(Event)
  BY DEF TypeOK, ConnTypeOK, SharedTypeOK
<1>2. Event \subseteq Message
  BY DEF Event, Message
<1>3. queue[c] \in Seq(Message)
  BY <1>1, <1>2
<1> QED
  BY <1>1, <1>3 DEF Drained
-----------------------------------------------------------------------------
(* Type correctness.                                                       *)

(* The ways a step ends leave the variables of the loop well typed. *)
LEMMA EndVisitType ==
  ASSUME LoopTypeOK, order # << >>, NEW gone, EndVisit(gone)
  PROVE  LoopTypeOK' /\ HasVisited'
<1>1. Visited \in Client /\ Tail(order) \in Seq(Client)
  BY DEF LoopTypeOK, Visited
<1>2. pc' \in {"visit", "reap", "timers"} /\ (pc' = "visit" => order' # << >>)
  BY DEF EndVisit, Onward
<1> QED
  BY <1>1, <1>2 DEF LoopTypeOK, EndVisit, HasVisited

LEMMA GotoType ==
  ASSUME LoopTypeOK, order # << >>,
         NEW place \in {"writable", "process", "flush", "readable"}, Goto(place)
  PROVE  LoopTypeOK' /\ HasVisited'
  BY DEF LoopTypeOK, Goto, HasVisited

(* What is queued by an answer, or by an answer that does not fit. *)
LEMMA EmitType ==
  ASSUME TypeOK, NEW c \in Client, NEW messages \in Seq(Message), Emit(c, messages)
  PROVE  output' \in [Client -> Seq(Message)] /\ queue' \in [Client -> Seq(Event)]
<1>1. Drained(c) \o messages \in Seq(Message)
  BY DrainedType
<1> QED
  BY <1>1 DEF Emit, TypeOK, ConnTypeOK, SharedTypeOK

LEMMA AnswerType ==
  ASSUME TypeOK, HasVisited, pc = "process", NEW c \in Client,
         NEW type \in {"reply", "error", "event"}, Answer(c, type)
  PROVE  /\ output' \in [Client -> Seq(Message)] /\ queue' \in [Client -> Seq(Event)]
         /\ LoopTypeOK' /\ HasVisited'
<1>1. <<[type |-> type, sequence |-> Number(c)]>> \in Seq(Message)
  BY DEF TypeOK, ConnTypeOK, Number, Message
<1>2. << >> \in Seq(Message)
  OBVIOUS
<1>3. order # << >> /\ LoopTypeOK
  BY DEF HasVisited, TypeOK
<1>4. CASE Len(Drained(c)) < MaxOutput
  <2>1. Emit(c, <<[type |-> type, sequence |-> Number(c)]>>) /\ UNCHANGED loopVars
    BY <1>4 DEF Answer
  <2>2. LoopTypeOK' /\ HasVisited'
    BY <1>3, <2>1 DEF loopVars, LoopTypeOK, HasVisited
  <2> QED
    BY <1>1, <2>1, <2>2, EmitType
<1>5. CASE ~(Len(Drained(c)) < MaxOutput)
  <2>1. Emit(c, << >>) /\ Fail
    BY <1>5 DEF Answer
  <2>2. LoopTypeOK' /\ HasVisited'
    BY <1>3, <2>1, EndVisitType DEF Fail
  <2> QED
    BY <1>2, <2>1, <2>2, EmitType
<1> QED
  BY <1>4, <1>5

LEMMA SilentType ==
  ASSUME TypeOK, HasVisited, NEW c \in Client, Silent(c)
  PROVE  /\ output' \in [Client -> Seq(Message)] /\ queue' \in [Client -> Seq(Event)]
         /\ LoopTypeOK' /\ HasVisited'
<1>1. << >> \in Seq(Message)
  OBVIOUS
<1>2. LoopTypeOK' /\ HasVisited'
  BY DEF Silent, loopVars, TypeOK, LoopTypeOK, HasVisited
<1> QED
  BY <1>1, <1>2, EmitType DEF Silent

(* A request is numbered and taken from the input. *)
LEMMA ConsumeKeepsType ==
  ASSUME TypeOK, NEW c \in Client, Complete(input[c]), Consume(c)
  PROVE  input' \in [Client -> Seq(Packet)] /\ sequence' \in [Client -> Nat]
<1>1. AfterFirst(input[c]) \in Seq(Packet)
  BY ConsumeType DEF TypeOK, ConnTypeOK
<1> QED
  BY <1>1 DEF Consume, Number, TypeOK, ConnTypeOK

(* Parts of the state a step leaves alone stay well typed. *)
LEMMA UnchangedType ==
  ASSUME TypeOK
  PROVE  /\ UNCHANGED peerVars => PeerTypeOK'
         /\ UNCHANGED connVars => ConnTypeOK'
         /\ UNCHANGED sharedVars => SharedTypeOK'
         /\ UNCHANGED loopVars /\ HasVisited => LoopTypeOK' /\ HasVisited'
  BY ZenonT(60) DEF TypeOK, PeerTypeOK, ConnTypeOK, SharedTypeOK, LoopTypeOK, HasVisited,
         peerVars, connVars, sharedVars, loopVars

(* What peers do changes nothing of the server. *)
LEMMA PeerStepType ==
  ASSUME TypeOK, HasVisited, PeerStep
  PROVE  TypeOK' /\ HasVisited'
<1>1. UNCHANGED connVars /\ UNCHANGED sharedVars /\ UNCHANGED loopVars
  BY DEF PeerStep, PeerConnect, PeerSend, PeerSetup, PeerRead, PeerHangUp
<1>2. PeerTypeOK'
  <2> USE DEF TypeOK, PeerTypeOK
  <2>1. CASE PeerConnect
    BY <2>1 DEF PeerConnect
  <2>2. ASSUME NEW c \in Client, NEW p \in Sendable, PeerSend(c, p)
        PROVE  PeerTypeOK'
    <3>1. p \in Packet
      <4>1. Ops \subseteq AllOps /\ Priorities \subseteq Int /\ Client \subseteq Int
        BY LimitsAssumption, ServerAssumption
      <4>2. NoClient \in Int
        BY DEF NoClient
      <4> QED
        BY <4>1, <4>2, ZenonT(60) DEF Sendable, Packet
    <3> QED
      BY <2>2, <3>1, SMTT(40) DEF PeerSend
  <2>3. ASSUME NEW c \in Client, PeerSetup(c)
        PROVE  PeerTypeOK'
    <3>1. <<[op |-> "prefix", to |-> NoClient], [op |-> "cookie", to |-> NoClient]>>
            \in Seq(Packet)
      BY DEF Packet, NoClient, AllOps, PrefixOps, AuthenticationOps
    <3> QED
      BY <2>3, <3>1 DEF PeerSetup
  <2>4. ASSUME NEW c \in Client, PeerRead(c)
        PROVE  PeerTypeOK'
    BY <2>4 DEF PeerRead
  <2>5. ASSUME NEW c \in Client, NEW how \in PeerMoves \ {"read"}, PeerHangUp(c, how)
        PROVE  PeerTypeOK'
    BY <2>5, ServerAssumption DEF PeerHangUp
  <2> QED
    BY <2>1, <2>2, <2>3, <2>4, <2>5 DEF PeerStep
<1> QED
  BY <1>1, <1>2, UnchangedType DEF TypeOK

(* The loop around the connections. *)
LEMMA LoopStepType ==
  ASSUME TypeOK, HasVisited, LoopStep
  PROVE  TypeOK' /\ HasVisited'
<1>1. CASE ProcessTimers
  <2>1. PeerTypeOK' /\ ConnTypeOK' /\ LoopTypeOK' /\ HasVisited'
    <3>1. PeerTypeOK' /\ ConnTypeOK'
      BY <1>1, UnchangedType DEF ProcessTimers, TypeOK, PeerTypeOK
    <3>2. Goto("poll") \/ UNCHANGED loopVars
      BY <1>1 DEF ProcessTimers
    <3> QED
      BY <3>1, <3>2, UnchangedType DEF Goto, TypeOK, LoopTypeOK, HasVisited
  <2>2. queue' \in [Client -> Seq(Event)]
    <3>1. CASE UNCHANGED queue
      BY <3>1 DEF TypeOK, SharedTypeOK
    <3>2. ASSUME NEW C, queue' = Deliver(queue, PlanForAll(C, "event"), sequence)
          PROVE  queue' \in [Client -> Seq(Event)]
      BY <3>2, DeliverType DEF TypeOK, ConnTypeOK, SharedTypeOK
    <3> QED
      BY <1>1, <3>1, <3>2 DEF ProcessTimers
  <2>3. waiting' \in [Client -> {"none", "counter", "fence"}]
    BY <1>1 DEF ProcessTimers, TypeOK, SharedTypeOK
  <2> QED
    BY <1>1, <2>1, <2>2, <2>3 DEF ProcessTimers, TypeOK, SharedTypeOK
<1>2. CASE Poll
  <2>1. PICK o \in [1..Len(clients) -> Range(clients)] : order' = o
    BY <1>2 DEF Poll
  <2>2. order' \in Seq(Client)
    BY <2>1 DEF TypeOK, LoopTypeOK, Range
  <2>3. ready' \in [Client -> SUBSET {"in", "out", "hup"}]
    BY <1>2 DEF Poll, Revents, PolledFor, poll_events
  <2>4. pc' \in {"accept", "visit", "reap", "timers"} /\ (pc' = "visit" => order' # << >>)
    BY <1>2 DEF Poll, Onward
  <2>5. LoopTypeOK' /\ HasVisited'
    BY <1>2, <2>2, <2>3, <2>4 DEF Poll, TypeOK, LoopTypeOK, HasVisited
  <2> QED
    BY <1>2, <2>5, UnchangedType DEF Poll, TypeOK
<1>3. CASE Accept
  <2>1. PICK c \in Client :
          /\ state' = [state EXCEPT ![c] = "setup_prefix"]
          /\ peer' = [peer EXCEPT ![c] = "open"]
          /\ clients' = Append(clients, c)
    BY <1>3 DEF Accept
  <2>2. PeerTypeOK'
    BY <1>3, <2>1 DEF Accept, TypeOK, PeerTypeOK
  <2>3. ConnTypeOK' /\ SharedTypeOK'
    BY <1>3, <2>1, UnchangedType DEF Accept, TypeOK, ConnTypeOK
  <2>4. LoopTypeOK' /\ HasVisited'
    BY <1>3, <2>1 DEF Accept, Onward, TypeOK, LoopTypeOK, HasVisited
  <2> QED
    BY <2>2, <2>3, <2>4 DEF TypeOK
<1>4. CASE AcceptDropped
  <2>1. PeerTypeOK' /\ ConnTypeOK' /\ SharedTypeOK'
    BY <1>4, UnchangedType DEF AcceptDropped, TypeOK, PeerTypeOK
  <2>2. LoopTypeOK' /\ HasVisited'
    BY <1>4 DEF AcceptDropped, Goto, Onward, TypeOK, LoopTypeOK, HasVisited
  <2> QED
    BY <2>1, <2>2 DEF TypeOK
<1>5. CASE VisitHungUp
  BY <1>5, EndVisitType, UnchangedType DEF VisitHungUp, Fail, HasVisited, TypeOK
<1>6. CASE VisitIdle
  BY <1>6, EndVisitType, UnchangedType DEF VisitIdle, HasVisited, TypeOK
<1>7. CASE VisitReady
  <2>1. order # << >>
    BY <1>7 DEF VisitReady, HasVisited
  <2> QED
    BY <1>7, <2>1, GotoType, UnchangedType DEF VisitReady, TypeOK
<1>8. CASE Reap
  <2>1. PICK i \in DOMAIN clients :
          /\ disconnect_client(clients[i])
          /\ clients' = RemoveAt(clients, i)
          /\ remove' = remove \ {clients[i]}
          /\ pc' = Onward(order, remove')
          /\ peer' = [peer EXCEPT ![clients[i]] = "none"]
          /\ sent' = [sent EXCEPT ![clients[i]] = 0]
          /\ inbox' = [inbox EXCEPT ![clients[i]] = << >>]
          /\ unread' = [unread EXCEPT ![clients[i]] = 0]
          /\ state' = [state EXCEPT ![clients[i]] = "free"]
          /\ input' = [input EXCEPT ![clients[i]] = << >>]
          /\ output' = [output EXCEPT ![clients[i]] = << >>]
          /\ written' = [written EXCEPT ![clients[i]] = 0]
          /\ sequence' = [sequence EXCEPT ![clients[i]] = 0]
          /\ resume' = [resume EXCEPT ![clients[i]] = FALSE]
          /\ closing' = [closing EXCEPT ![clients[i]] = FALSE]
          /\ finished' = [finished EXCEPT ![clients[i]] = FALSE]
    BY <1>8 DEF Reap
  <2> DEFINE c == clients[i]
  <2>2. c \in Client
    BY DEF TypeOK, LoopTypeOK
  <2>3. PeerTypeOK'
    BY <1>8, <2>1, <2>2 DEF Reap, TypeOK, PeerTypeOK
  <2>4. ConnTypeOK'
    BY <2>1, <2>2 DEF TypeOK, ConnTypeOK
  <2>5. SharedTypeOK'
    <3>1. QueueAfterDrain(c) \in [Client -> Seq(Event)]
      BY <2>2 DEF QueueAfterDrain, TypeOK, SharedTypeOK
    <3>2. ASSUME NEW C
          PROVE  Deliver(QueueAfterDrain(c), PlanForAll(C, "event"), sequence)
                   \in [Client -> Seq(Event)]
      BY <3>1, DeliverType DEF TypeOK, ConnTypeOK
    <3>4. queue' \in [Client -> Seq(Event)]
      <4>1. PICK C \in SUBSET (registered \ {c}) :
              queue' = IF Fits(QueueAfterDrain(c), TotalEvents(QueueAfterDrain(c)),
                               PlanForAll(C, "event"))
                       THEN Deliver(QueueAfterDrain(c), PlanForAll(C, "event"), sequence)
                       ELSE QueueAfterDrain(c)
        BY <2>1 DEF disconnect_client
      <4> QED
        BY <3>1, <3>2, <4>1
    <3>3. waiting' \in [Client -> {"none", "counter", "fence"}]
      BY <2>1 DEF disconnect_client, TypeOK, SharedTypeOK
    <3> QED
      BY <2>1, <2>2, <3>4, <3>3 DEF disconnect_client, Forget, TypeOK, SharedTypeOK
  <2>6. clients' \in Seq(Client)
    BY <2>1 DEF RemoveAt, TypeOK, LoopTypeOK
  <2>7. LoopTypeOK' /\ HasVisited'
    BY <1>8, <2>1, <2>6 DEF Reap, Onward, TypeOK, LoopTypeOK, HasVisited
  <2> QED
    BY <2>3, <2>4, <2>5, <2>7 DEF TypeOK
<1> QED
  BY <1>1, <1>2, <1>3, <1>4, <1>5, <1>6, <1>7, <1>8 DEF LoopStep

(* Events that do not fit are left in the queue, in the types of both. *)
LEMMA DrainOverflowType ==
  ASSUME TypeOK, HasVisited, OutputBounded, DrainOverflow
  PROVE  TypeOK' /\ HasVisited'
<1> DEFINE c == Visited
<1>1. order # << >> /\ c \in Client
  BY DEF DrainOverflow, HasVisited, Visited, TypeOK, LoopTypeOK
<1>2. LoopTypeOK' /\ HasVisited'
  BY <1>1, EndVisitType DEF DrainOverflow, Fail, TypeOK
<1>3. Drained(c) \in Seq(Message) /\ MaxOutput \in Nat
  BY <1>1, DrainedType, ServerAssumption
<1>4. SubSeq(Drained(c), 1, MaxOutput) \in Seq(Message)
  <2>1. MaxOutput <= Len(Drained(c))
    BY <1>3 DEF DrainOverflow, DrainFits
  <2> QED
    BY <1>3, <2>1
<1>5. SubSeq(Drained(c), MaxOutput + 1, Len(Drained(c))) \in Seq(Event)
  <2>1. output[c] \in Seq(Message) /\ queue[c] \in Seq(Event)
    BY <1>1 DEF TypeOK, ConnTypeOK, SharedTypeOK
  <2>2. Len(output[c]) <= MaxOutput
    BY <1>1 DEF OutputBounded
  <2>3. MaxOutput <= Len(Drained(c))
    BY <1>3 DEF DrainOverflow, DrainFits
  <2> QED
    BY <2>1, <2>2, <2>3, <1>3, BeyondFirstType DEF Drained
<1> QED
  BY <1>1, <1>2, <1>4, <1>5, UnchangedType
  DEF DrainOverflow, TypeOK, ConnTypeOK, SharedTypeOK

(* The handlers succeeded, and the visit ends. *)
LEMMA LeaveType ==
  ASSUME LoopTypeOK, order # << >>, NEW done, Leave(done)
  PROVE  LoopTypeOK' /\ HasVisited'
  BY EndVisitType DEF Leave

LEMMA AfterWritableType ==
  ASSUME LoopTypeOK, order # << >>, NEW c, NEW done, AfterWritable(c, done)
  PROVE  LoopTypeOK' /\ HasVisited'
<1>1. CASE Goto("readable")
  BY <1>1, GotoType
<1>2. CASE Leave(done)
  BY <1>2, LeaveType
<1> QED
  BY <1>1, <1>2 DEF AfterWritable

LEMMA ResumeType ==
  ASSUME TypeOK, NEW c \in Client, ResumeOnEntry(c)
  PROVE  resume' \in [Client -> BOOLEAN]
  BY DEF ResumeOnEntry, TypeOK, ConnTypeOK

(* on_writable. *)
LEMMA WritableStepType ==
  ASSUME TypeOK, HasVisited, WritableStep
  PROVE  TypeOK' /\ HasVisited'
<1> DEFINE c == Visited
<1>1. order # << >> /\ c \in Client
  BY DEF WritableStep, OnWritable, FlushDone, FlushWrite, FlushBlocked, FlushBroken,
         HasVisited, Visited, TypeOK, LoopTypeOK
<1>2. LoopTypeOK /\ << >> \in Seq(Message)
  BY DEF TypeOK
<1>3. CASE OnWritable
  <2>1. Emit(c, << >>)
    BY <1>3 DEF OnWritable
  <2>2. output' \in [Client -> Seq(Message)] /\ queue' \in [Client -> Seq(Event)]
    BY <1>1, <1>2, <2>1, EmitType
  <2>3. resume' \in [Client -> BOOLEAN]
    BY <1>1, <1>3, ResumeType DEF OnWritable, TypeOK, ConnTypeOK
  <2>4. LoopTypeOK' /\ HasVisited'
    BY <1>1, <1>3 DEF OnWritable, TypeOK, LoopTypeOK, HasVisited
  <2> QED
    BY <1>3, <2>2, <2>3, <2>4, UnchangedType
    DEF OnWritable, TypeOK, ConnTypeOK, SharedTypeOK
<1>4. CASE FlushDone
  <2>1. LoopTypeOK' /\ HasVisited'
    BY <1>1, <1>2, <1>4, AfterWritableType DEF FlushDone
  <2> QED
    BY <1>1, <1>4, <2>1, UnchangedType DEF FlushDone, TypeOK, ConnTypeOK
<1>5. CASE FlushWrite
  <2>1. Drained(c) \in Seq(Message) /\ Drained(c) # << >>
    BY <1>1, <1>5, DrainedType DEF FlushWrite
  <2>2. Tail(Drained(c)) \in Seq(Message) /\ Head(Drained(c)).sequence \in Nat
    <3>1. Head(Drained(c)) \in Message
      BY <2>1, HeadType
    <3> QED
      BY <2>1, <3>1, TailType DEF Message
  <2>3. PeerTypeOK'
    BY <1>1, <1>5 DEF FlushWrite, TypeOK, PeerTypeOK
  <2>4. ConnTypeOK' /\ SharedTypeOK'
    BY <1>1, <1>5, <2>2, SMTT(40) DEF FlushWrite, TypeOK, ConnTypeOK, SharedTypeOK
  <2> QED
    BY <1>5, <2>3, <2>4, UnchangedType DEF FlushWrite, TypeOK
<1>6. CASE FlushBlocked
  <2>1. LoopTypeOK' /\ HasVisited'
    BY <1>1, <1>2, <1>6, AfterWritableType DEF FlushBlocked
  <2>2. output' \in [Client -> Seq(Message)] /\ queue' \in [Client -> Seq(Event)]
    BY <1>1, <1>2, <1>6, EmitType DEF FlushBlocked
  <2> QED
    BY <1>6, <2>1, <2>2, UnchangedType
    DEF FlushBlocked, TypeOK, ConnTypeOK, SharedTypeOK
<1>7. CASE FlushBroken
  <2>1. LoopTypeOK' /\ HasVisited'
    BY <1>1, <1>2, <1>7, EndVisitType DEF FlushBroken, Fail
  <2>2. output' \in [Client -> Seq(Message)] /\ queue' \in [Client -> Seq(Event)]
    BY <1>1, <1>2, <1>7, EmitType DEF FlushBroken
  <2> QED
    BY <1>7, <2>1, <2>2, UnchangedType
    DEF FlushBroken, TypeOK, ConnTypeOK, SharedTypeOK
<1> QED
  BY <1>3, <1>4, <1>5, <1>6, <1>7 DEF WritableStep

(* on_readable. *)
LEMMA ReadableStepType ==
  ASSUME TypeOK, HasVisited, ReadableStep
  PROVE  TypeOK' /\ HasVisited'
<1> DEFINE c == Visited
<1>1. order # << >> /\ c \in Client
  <2>1. pc = "readable"
    BY DEF ReadableStep, ReadableHeld, Receive, ReceiveOverflow, ReadableDone,
           EndOfStream, BrokenStream
  <2> QED
    BY <2>1 DEF HasVisited, Visited, TypeOK, LoopTypeOK
<1>2. LoopTypeOK
  BY DEF TypeOK
<1>3. CASE ReadableHeld
  BY <1>1, <1>2, <1>3, LeaveType, UnchangedType DEF ReadableHeld, TypeOK
<1>4. CASE Receive
  <2>1. resume' \in [Client -> BOOLEAN]
    BY <1>1, <1>4, ResumeType DEF Receive
  <2>2. LoopTypeOK' /\ HasVisited'
    BY <1>1, <1>4 DEF Receive, TypeOK, LoopTypeOK, HasVisited
  <2>3. PeerTypeOK'
    BY <1>1, <1>4 DEF Receive, TypeOK, PeerTypeOK
  <2>4. ConnTypeOK'
    <3>1. input[c] \o inbox[c] \in Seq(Packet)
      BY <1>1 DEF TypeOK, PeerTypeOK, ConnTypeOK
    <3> QED
      BY <1>1, <1>4, <2>1, <3>1 DEF Receive, TypeOK, ConnTypeOK
  <2> QED
    BY <1>4, <2>2, <2>3, <2>4, UnchangedType DEF Receive, TypeOK
<1>5. CASE ReceiveOverflow
  <2>1. PeerTypeOK'
    BY <1>1, <1>5 DEF ReceiveOverflow, TypeOK, PeerTypeOK
  <2> QED
    BY <1>1, <1>2, <1>5, <2>1, EndVisitType, UnchangedType
    DEF ReceiveOverflow, Fail, TypeOK
<1>6. CASE ReadableDone
  BY <1>1, <1>2, <1>6, LeaveType, UnchangedType DEF ReadableDone, TypeOK
<1>7. CASE EndOfStream
  <2>1. ConnTypeOK'
    BY <1>1, <1>7 DEF EndOfStream, close_after_output, TypeOK, ConnTypeOK
  <2> QED
    BY <1>1, <1>2, <1>7, <2>1, LeaveType, UnchangedType DEF EndOfStream, TypeOK
<1>8. CASE BrokenStream
  BY <1>1, <1>2, <1>8, EndVisitType, UnchangedType DEF BrokenStream, Fail, TypeOK
<1> QED
  BY <1>3, <1>4, <1>5, <1>6, <1>7, <1>8 DEF ReadableStep

(* The end of process_input. *)
LEMMA ProcessReturnType ==
  ASSUME TypeOK, HasVisited, ProcessReturn
  PROVE  TypeOK' /\ HasVisited'
<1> DEFINE c == Visited
<1>1. order # << >> /\ c \in Client
  BY DEF ProcessReturn, HasVisited, Visited, TypeOK, LoopTypeOK
<1>2. return \in {"writable", "process", "flush", "readable"} /\ LoopTypeOK
  BY DEF TypeOK, LoopTypeOK
<1>3. LoopTypeOK' /\ HasVisited'
  BY <1>1, <1>2, GotoType DEF ProcessReturn
<1>4. output' \in [Client -> Seq(Message)] /\ queue' \in [Client -> Seq(Event)]
  <2>1. CASE UNCHANGED <<output, queue>>
    BY <2>1 DEF TypeOK, ConnTypeOK, SharedTypeOK
  <2>2. CASE Emit(c, << >>)
    <3>1. << >> \in Seq(Message)
      OBVIOUS
    <3> QED
      BY <1>1, <2>2, <3>1, EmitType
  <2> QED
    BY <2>1, <2>2 DEF ProcessReturn
<1> QED
  BY <1>3, <1>4, UnchangedType DEF ProcessReturn, TypeOK, ConnTypeOK, SharedTypeOK

(* The packets of connection setup. *)
LEMMA SetupStepType ==
  ASSUME TypeOK, HasVisited, SetupStep
  PROVE  TypeOK' /\ HasVisited'
<1> DEFINE c == Visited
<1>1. pc = "process" /\ Complete(input[c])
  BY DEF SetupStep, SetupPrefix, SetupMalformed, SetupRefused, SetupAuthenticated,
         SetupPacket
<1>2. order # << >> /\ c \in Client /\ LoopTypeOK
  BY <1>1 DEF HasVisited, Visited, TypeOK, LoopTypeOK
<1>3. AfterFirst(input[c]) \in Seq(Packet) /\ << >> \in Seq(Packet)
  BY <1>1, <1>2, ConsumeType DEF TypeOK, ConnTypeOK
<1>4. \A type \in {"setup", "refused"} :
        Append(output[c], [type |-> type, sequence |-> 0]) \in Seq(Message)
  BY <1>2 DEF TypeOK, ConnTypeOK, Message
<1>5. CASE SetupPrefix
  BY <1>2, <1>3, <1>5, UnchangedType DEF SetupPrefix, TypeOK, ConnTypeOK
<1>6. CASE SetupMalformed
  BY <1>2, <1>6, EndVisitType, UnchangedType DEF SetupMalformed, Fail, TypeOK
<1>7. CASE SetupRefused
  <2>1. LoopTypeOK' /\ HasVisited'
    BY <1>2, <1>7, EndVisitType, UnchangedType DEF SetupRefused, Fail
  <2>2. ConnTypeOK'
    BY <1>2, <1>3, <1>4, <1>7, ZenonT(60) DEF SetupRefused, close_after_output, TypeOK, ConnTypeOK
  <2> QED
    BY <1>7, <2>1, <2>2, UnchangedType DEF SetupRefused, TypeOK
<1>8. CASE SetupAuthenticated
  <2>1. LoopTypeOK' /\ HasVisited'
    BY <1>2, <1>8, EndVisitType, UnchangedType DEF SetupAuthenticated, Fail
  <2>2. ConnTypeOK'
    BY <1>2, <1>3, <1>4, <1>8 DEF SetupAuthenticated, TypeOK, ConnTypeOK
  <2>3. SharedTypeOK'
    BY <1>2, <1>8 DEF SetupAuthenticated, TypeOK, SharedTypeOK
  <2> QED
    BY <1>8, <2>1, <2>2, <2>3, UnchangedType DEF SetupAuthenticated, TypeOK
<1> QED
  BY <1>5, <1>6, <1>7, <1>8 DEF SetupStep

(* Requests. *)
LEMMA RequestStepType ==
  ASSUME TypeOK, HasVisited, RequestStep
  PROVE  TypeOK' /\ HasVisited'
<1> DEFINE c == Visited
<1>1. pc = "process" /\ Complete(input[c])
  BY DEF RequestStep, Query, Oversize, Malformed, Notify, GrabServer, UngrabServer,
         KillClient, AwaitSuspends, AwaitSatisfied, SetCounter, TriggerFence,
         SetPriority, Request
<1>2. order # << >> /\ c \in Client /\ LoopTypeOK
  BY <1>1 DEF HasVisited, Visited, TypeOK, LoopTypeOK
<1>3. PeerTypeOK'
  BY UnchangedType
  DEF RequestStep, Query, Oversize, Malformed, Notify, GrabServer, UngrabServer,
      KillClient, AwaitSuspends, AwaitSatisfied, SetCounter, TriggerFence, SetPriority
<1>4. Consume(c) => input' \in [Client -> Seq(Packet)] /\ sequence' \in [Client -> Nat]
  BY <1>1, <1>2, ConsumeKeepsType
<1>5. \A type \in {"reply", "error", "event"} : Answer(c, type) =>
        /\ output' \in [Client -> Seq(Message)] /\ queue' \in [Client -> Seq(Event)]
        /\ LoopTypeOK' /\ HasVisited'
  BY <1>1, <1>2, AnswerType
<1>6. Silent(c) =>
        /\ output' \in [Client -> Seq(Message)] /\ queue' \in [Client -> Seq(Event)]
        /\ LoopTypeOK' /\ HasVisited'
  BY <1>2, SilentType
<1>7. Drained(c) \in Seq(Message) /\ FirstPacket(input[c]) \in Packet
  BY <1>1, <1>2, DrainedType, ConsumeType DEF TypeOK, ConnTypeOK
<1>8. QueueAfterDrain(c) \in [Client -> Seq(Event)]
  BY <1>2 DEF QueueAfterDrain, TypeOK, SharedTypeOK
<1> USE DEF TypeOK, ConnTypeOK, SharedTypeOK
<1>9. CASE Query
  BY <1>2, <1>3, <1>4, <1>5, <1>9 DEF Query
<1>10. CASE Oversize
  <2>1. /\ input' \in [Client -> Seq(Packet)]
        /\ closing' \in [Client -> BOOLEAN] /\ finished' \in [Client -> BOOLEAN]
    <3>1. CASE UNCHANGED <<input, closing, finished>>
      BY <3>1
    <3>2. CASE input' = [input EXCEPT ![c] = << >>] /\ close_after_output(c, output'[c])
      <4>1. input' \in [Client -> Seq(Packet)]
        BY <1>2, <3>2
      <4> QED
        BY <1>2, <3>2, <4>1 DEF close_after_output
    <3> QED
      BY <1>10, <3>1, <3>2 DEF Oversize
  <2>2. sequence' \in [Client -> Nat]
    BY <1>2, <1>10 DEF Oversize, Number
  <2>3. /\ output' \in [Client -> Seq(Message)] /\ queue' \in [Client -> Seq(Event)]
        /\ LoopTypeOK' /\ HasVisited'
    BY <1>5, <1>10 DEF Oversize
  <2> QED
    BY <1>3, <1>10, <2>1, <2>2, <2>3 DEF Oversize
<1>11. CASE Malformed
  <2>1. output' \in [Client -> Seq(Message)] /\ queue' \in [Client -> Seq(Event)]
    <3>1. << >> \in Seq(Message)
      OBVIOUS
    <3> QED
      BY <1>2, <1>11, <3>1, EmitType DEF Malformed
  <2>2. LoopTypeOK' /\ HasVisited'
    BY <1>2, <1>11, EndVisitType DEF Malformed, Fail
  <2> QED
    BY <1>3, <1>4, <1>11, <2>1, <2>2 DEF Malformed
<1>12. CASE Notify
  <2> DEFINE C == {FirstPacket(input[c]).to} \cap registered
  <2>1. sequence' \in [Client -> Nat]
    BY <1>4, <1>12 DEF Notify
  <2>2. Deliver(QueueAfterDrain(c), PlanForAll(C, "event"), sequence')
          \in [Client -> Seq(Event)]
    BY <1>8, <2>1, DeliverType
  <2>3. /\ output' \in [Client -> Seq(Message)] /\ queue' \in [Client -> Seq(Event)]
        /\ LoopTypeOK' /\ HasVisited'
    BY <1>2, <1>5, <1>7, <1>12, <2>2, UnchangedType, ZenonT(60) DEF Notify
  <2> QED
    BY <1>3, <1>4, <1>12, <2>3 DEF Notify
<1>13. CASE GrabServer
  BY <1>2, <1>3, <1>4, <1>6, <1>13 DEF GrabServer
<1>14. CASE UngrabServer
  BY <1>2, <1>3, <1>4, <1>6, <1>14 DEF UngrabServer
<1>15. CASE KillClient
  BY <1>2, <1>3, <1>4, <1>5, <1>6, <1>15, ZenonT(60) DEF KillClient, request_client_termination
<1>16. CASE AwaitSuspends
  BY <1>2, <1>3, <1>4, <1>6, <1>16 DEF AwaitSuspends
<1>17. CASE AwaitSatisfied
  BY <1>2, <1>3, <1>4, <1>5, <1>6, <1>17 DEF AwaitSatisfied
<1>18. CASE SetCounter
  <2>1. sequence' \in [Client -> Nat] /\ input' \in [Client -> Seq(Packet)]
    BY <1>4, <1>18 DEF SetCounter
  <2>2. PICK C \in SUBSET registered :
          IF Fits(QueueAfterDrain(c), TotalEvents(QueueAfterDrain(c)),
                  PlanForAll(C, "event"))
          THEN LET delivered == Deliver(QueueAfterDrain(c), PlanForAll(C, "event"),
                                        sequence')
                   drained == Drained(c) \o delivered[c]
               IN  IF Len(drained) <= MaxOutput
                   THEN /\ output' = [output EXCEPT ![c] = drained]
                        /\ queue' = [delivered EXCEPT ![c] = << >>]
                        /\ UNCHANGED loopVars
                   ELSE /\ output' = [output EXCEPT ![c] = Drained(c)]
                        /\ queue' = delivered
                        /\ Fail
          ELSE Answer(c, "error")
    BY <1>18 DEF SetCounter
  <2> DEFINE delivered == Deliver(QueueAfterDrain(c), PlanForAll(C, "event"), sequence')
  <2>3. delivered \in [Client -> Seq(Event)]
    BY <1>8, <2>1, DeliverType
  <2>4. Drained(c) \o delivered[c] \in Seq(Message)
    <3>1. Event \subseteq Message
      BY DEF Event, Message
    <3>2. delivered[c] \in Seq(Message)
      BY <1>2, <2>3, <3>1
    <3> QED
      BY <1>7, <3>2
  <2> HIDE DEF delivered
  <2>5. output' \in [Client -> Seq(Message)] /\ queue' \in [Client -> Seq(Event)]
    <3>1. CASE /\ output' = [output EXCEPT ![c] = Drained(c) \o delivered[c]]
               /\ queue' = [delivered EXCEPT ![c] = << >>]
      <4>1. queue' \in [Client -> Seq(Event)]
        BY <1>2, <2>3, <3>1
      <4> QED
        BY <1>2, <2>4, <3>1, <4>1
    <3>2. CASE output' = [output EXCEPT ![c] = Drained(c)] /\ queue' = delivered
      BY <1>2, <1>7, <2>3, <3>2
    <3>3. CASE Answer(c, "error")
      BY <1>5, <3>3
    <3> QED
      BY <2>2, <3>1, <3>2, <3>3 DEF delivered
  <2>6. LoopTypeOK' /\ HasVisited'
    <3>1. UNCHANGED loopVars \/ Fail \/ Answer(c, "error")
      BY <2>2
    <3> QED
      BY <1>2, <1>5, <3>1, UnchangedType, EndVisitType DEF Fail
  <2>7. waiting' \in [Client -> {"none", "counter", "fence"}]
    BY <1>18 DEF SetCounter
  <2> QED
    BY <1>3, <1>18, <2>1, <2>5, <2>6, <2>7 DEF SetCounter
<1>19. CASE TriggerFence
  BY <1>2, <1>3, <1>4, <1>6, <1>19 DEF TriggerFence
<1>20. CASE SetPriority
  BY <1>2, <1>3, <1>4, <1>6, <1>7, <1>20 DEF SetPriority, Packet
<1> QED
  BY <1>9, <1>10, <1>11, <1>12, <1>13, <1>14, <1>15, <1>16, <1>17, <1>18, <1>19, <1>20
  DEF RequestStep

(* A step that replaces the output of one client. *)
LEMMA OneOutputBounded ==
  ASSUME TypeOK, OutputBounded, NEW c \in Client, NEW out, Len(out) <= MaxOutput,
         output' = [output EXCEPT ![c] = out]
  PROVE  OutputBounded'
  BY DEF OutputBounded, TypeOK, ConnTypeOK

LEMMA AnswerBounded ==
  ASSUME TypeOK, OutputBounded, NEW c \in Client, DrainFits(c),
         NEW type \in {"reply", "error", "event"}, Answer(c, type)
  PROVE  OutputBounded'
<1>1. Drained(c) \in Seq(Message) /\ MaxOutput \in Nat
  BY DrainedType, ServerAssumption
<1>2. CASE Len(Drained(c)) < MaxOutput
  <2>1. Len(Drained(c) \o <<[type |-> type, sequence |-> Number(c)]>>) <= MaxOutput
    BY <1>1, <1>2
  <2> QED
    BY <1>2, <2>1, OneOutputBounded DEF Answer, Emit
<1>3. CASE ~(Len(Drained(c)) < MaxOutput)
  <2>1. Len(Drained(c) \o << >>) <= MaxOutput
    BY <1>1 DEF DrainFits
  <2> QED
    BY <1>3, <2>1, OneOutputBounded DEF Answer, Emit
<1> QED
  BY <1>2, <1>3

(* Draining what fits stays within the limit. *)
LEMMA EmitBounded ==
  ASSUME TypeOK, OutputBounded, NEW c \in Client, DrainFits(c), Emit(c, << >>)
  PROVE  OutputBounded'
<1>1. Drained(c) \in Seq(Message)
  BY DrainedType
<1>2. Len(Drained(c) \o << >>) <= MaxOutput
  BY <1>1 DEF DrainFits
<1> QED
  BY <1>2, OneOutputBounded DEF Emit

(***************************************************************************)
(* The output buffer never exceeds its limit (maximum_buffered_output):    *)
(* every step of the loop that adds to it first checks the room.           *)
(***************************************************************************)
LEMMA OutputStaysBounded ==
  ASSUME TypeOK, HasVisited, OutputBounded, [Next]_vars
  PROVE  OutputBounded'
<1> DEFINE c == Visited
<1>1. CASE UNCHANGED output
  BY <1>1 DEF OutputBounded
<1>2. pc \in {"writable", "process", "flush", "readable"} => c \in Client
  BY DEF HasVisited, Visited, TypeOK, LoopTypeOK
<1>3. CASE DrainOverflow
  <2>1. c \in Client /\ MaxOutput \in Nat /\ Drained(c) \in Seq(Message)
    BY <1>2, <1>3, DrainedType, ServerAssumption DEF DrainOverflow
  <2>2. Len(SubSeq(Drained(c), 1, MaxOutput)) <= MaxOutput
    BY <2>1
  <2> QED
    BY <1>3, <2>1, <2>2, OneOutputBounded DEF DrainOverflow
<1>4. CASE WritableStep
  <2>1. c \in Client
    BY <1>2, <1>4
    DEF WritableStep, OnWritable, FlushDone, FlushWrite, FlushBlocked, FlushBroken
  <2>2. CASE FlushWrite
    <3>1. Drained(c) \in Seq(Message) /\ Drained(c) # << >> /\ MaxOutput \in Nat
      BY <2>1, <2>2, DrainedType, ServerAssumption DEF FlushWrite
    <3>2. Len(Tail(Drained(c))) <= MaxOutput
      BY <2>2, <3>1, TailType DEF FlushWrite, DrainFits
    <3> QED
      BY <2>1, <2>2, <3>2, OneOutputBounded DEF FlushWrite
  <2>3. CASE FlushDone
    BY <1>1, <2>3 DEF FlushDone
  <2>4. CASE OnWritable \/ FlushBlocked \/ FlushBroken
    BY <2>1, <2>4, EmitBounded DEF OnWritable, FlushBlocked, FlushBroken
  <2> QED
    BY <1>4, <2>2, <2>3, <2>4 DEF WritableStep
<1>5. CASE ProcessReturn
  BY <1>1, <1>2, <1>5, EmitBounded DEF ProcessReturn
<1>6. CASE SetupStep
  <2>1. c \in Client /\ output[c] \in Seq(Message) /\ MaxOutput \in Nat
    BY <1>2, <1>6, ServerAssumption
    DEF SetupStep, SetupPrefix, SetupMalformed, SetupRefused, SetupAuthenticated,
        SetupPacket, TypeOK, ConnTypeOK
  <2>2. \A m : Len(output[c]) < MaxOutput => Len(Append(output[c], m)) <= MaxOutput
    BY <2>1
  <2>3. \/ UNCHANGED output
        \/ \E m : /\ Len(output[c]) < MaxOutput
                  /\ output' = [output EXCEPT ![c] = Append(output[c], m)]
    BY <1>6, <2>1
    DEF SetupStep, SetupPrefix, SetupMalformed, SetupRefused, SetupAuthenticated,
        connVars, TypeOK, ConnTypeOK
  <2> QED
    BY <1>1, <2>1, <2>2, <2>3, OneOutputBounded
<1>7. CASE RequestStep
  <2>1. c \in Client /\ DrainFits(c)
    BY <1>2, <1>7
    DEF RequestStep, Query, Oversize, Malformed, Notify, GrabServer, UngrabServer,
        KillClient, AwaitSuspends, AwaitSatisfied, SetCounter, TriggerFence,
        SetPriority, Request
  <2>2. \/ \E type \in {"reply", "error", "event"} : Answer(c, type)
        \/ Emit(c, << >>)
        \/ \E out : Len(out) <= MaxOutput /\ output' = [output EXCEPT ![c] = out]
    BY <1>7, <2>1
    DEF RequestStep, Query, Oversize, Malformed, Notify, GrabServer, UngrabServer,
        KillClient, AwaitSuspends, AwaitSatisfied, SetCounter, TriggerFence,
        SetPriority, Silent, DrainFits
  <2> QED
    BY <2>1, <2>2, AnswerBounded, EmitBounded, OneOutputBounded
<1>8. CASE Reap
  <2>1. PICK d \in Client : output' = [output EXCEPT ![d] = << >>]
    BY <1>8 DEF Reap, TypeOK, LoopTypeOK
  <2>2. Len(<< >>) <= MaxOutput
    BY ServerAssumption
  <2> QED
    BY <2>1, <2>2, OneOutputBounded
<1>9. CASE PeerStep \/ ReadableStep \/ (LoopStep /\ ~Reap) \/ UNCHANGED vars
  <2>1. UNCHANGED output
    BY <1>9
    DEF PeerStep, PeerConnect, PeerSend, PeerSetup, PeerRead, PeerHangUp,
        ReadableStep, ReadableHeld, Receive, ReceiveOverflow, ReadableDone,
        EndOfStream, BrokenStream, LoopStep, ProcessTimers, Poll, Accept,
        AcceptDropped, VisitHungUp, VisitIdle, VisitReady, connVars, vars
  <2> QED
    BY <1>1, <2>1
<1> QED
  BY <1>3, <1>4, <1>5, <1>6, <1>7, <1>8, <1>9 DEF Next, ServerStep, LoopStep
-----------------------------------------------------------------------------
(* The invariants that come with type correctness. *)
TypeInv == TypeOK /\ HasVisited /\ OutputBounded

LEMMA InitTypeInv ==
  ASSUME Init
  PROVE  TypeInv
<1>1. TypeOK
  BY DEF Init, TypeOK, PeerTypeOK, ConnTypeOK, SharedTypeOK, LoopTypeOK, NoClient
<1>2. HasVisited /\ OutputBounded
  BY ServerAssumption DEF Init, HasVisited, OutputBounded
<1> QED
  BY <1>1, <1>2 DEF TypeInv

LEMMA NextTypeInv ==
  ASSUME TypeInv, [Next]_vars
  PROVE  TypeInv'
<1>1. TypeOK /\ HasVisited /\ OutputBounded
  BY DEF TypeInv
<1>2. OutputBounded'
  BY <1>1, OutputStaysBounded
<1>3. TypeOK' /\ HasVisited'
  <2>1. CASE Next
    BY <1>1, <2>1, PeerStepType, LoopStepType, DrainOverflowType, WritableStepType,
       ReadableStepType, ProcessReturnType, SetupStepType, RequestStepType
    DEF Next, ServerStep
  <2>2. CASE UNCHANGED vars
    BY <1>1, <2>2, UnchangedType
    DEF vars, peerVars, connVars, sharedVars, loopVars, TypeOK
  <2> QED
    BY <2>1, <2>2
<1> QED
  BY <1>2, <1>3 DEF TypeInv

(***************************************************************************)
(* Type correctness of the event loop, with the limit on output buffers,   *)
(* for every number of clients and every limit.                            *)
(***************************************************************************)
THEOREM TypeCorrect == Spec => [](TypeOK /\ OutputBounded)
<1>1. TypeInv /\ [Next]_vars => TypeInv'
  BY NextTypeInv
<1>2. TypeInv => TypeOK /\ OutputBounded
  BY DEF TypeInv
<1> QED
  BY InitTypeInv, <1>1, <1>2, PTL DEF Spec
-----------------------------------------------------------------------------
(* Safety. *)

(* The steps a handler called by Server::run is made of. *)
HandlerStep ==
  \/ DrainOverflow \/ WritableStep \/ ReadableStep \/ ProcessReturn
  \/ SetupStep \/ RequestStep

(* Every handler step runs for the visited connection. *)
LEMMA HandlerVisits ==
  ASSUME TypeOK, HasVisited, HandlerStep
  PROVE  /\ pc \in {"writable", "process", "flush", "readable"}
         /\ order # << >> /\ Visited \in Client
<1>1. pc \in {"writable", "process", "flush", "readable"}
  BY DEF HandlerStep, DrainOverflow,
         WritableStep, OnWritable, FlushDone, FlushWrite, FlushBlocked, FlushBroken,
         ReadableStep, ReadableHeld, Receive, ReceiveOverflow, ReadableDone,
         EndOfStream, BrokenStream, ProcessReturn,
         SetupStep, SetupPrefix, SetupMalformed, SetupRefused, SetupAuthenticated,
         SetupPacket, RequestStep, Query, Oversize, Malformed, Notify, GrabServer,
         UngrabServer, KillClient, AwaitSuspends, AwaitSatisfied, SetCounter,
         TriggerFence, SetPriority, Request
<1> QED
  BY <1>1 DEF HasVisited, Visited, TypeOK, LoopTypeOK

(* A handler step either stays with the connection or ends the visit. *)
LEMMA HandlerStays ==
  ASSUME HandlerStep
  PROVE  order' = order \/ pc' \in {"visit", "reap", "timers"}
<1>1. \A gone : EndVisit(gone) => pc' \in {"visit", "reap", "timers"}
  BY DEF EndVisit, Onward
<1>2. CASE DrainOverflow
  BY <1>1, <1>2 DEF DrainOverflow, Fail
<1>3. CASE WritableStep
  BY <1>1, <1>3
  DEF WritableStep, OnWritable, FlushDone, FlushWrite, FlushBlocked, FlushBroken,
      AfterWritable, Goto, Leave, Fail, loopVars
<1>4. CASE ReadableStep
  BY <1>1, <1>4
  DEF ReadableStep, ReadableHeld, Receive, ReceiveOverflow, ReadableDone,
      EndOfStream, BrokenStream, Leave, Fail
<1>5. CASE ProcessReturn
  BY <1>5 DEF ProcessReturn, Goto
<1>6. CASE SetupStep
  BY <1>1, <1>6
  DEF SetupStep, SetupPrefix, SetupMalformed, SetupRefused, SetupAuthenticated,
      Fail, loopVars
<1>7. CASE RequestStep
  <2>1. \A c, type : Answer(c, type) => order' = order \/ pc' \in {"visit", "reap", "timers"}
    BY <1>1 DEF Answer, Fail, loopVars
  <2>2. \A c : Silent(c) => order' = order
    BY DEF Silent, loopVars
  <2> QED
    BY <1>1, <1>7, <2>1, <2>2
    DEF RequestStep, Query, Oversize, Malformed, Notify, GrabServer, UngrabServer,
        KillClient, AwaitSuspends, AwaitSatisfied, SetCounter, TriggerFence,
        SetPriority, Fail, loopVars
<1> QED
  BY <1>2, <1>3, <1>4, <1>5, <1>6, <1>7 DEF HandlerStep
-----------------------------------------------------------------------------
(* The server grab.                                                        *)

(***************************************************************************)
(* While a handler runs, the grab allows it.  This is what makes checking  *)
(* the current owner once per visit enough: a visit of several steps can   *)
(* change the owner only by requests of the visited client itself.         *)
(***************************************************************************)
GrabRespected ==
  pc \in {"writable", "process", "flush", "readable"} => MayProcess(Visited)

LEMMA NextGrabRespected ==
  ASSUME TypeOK, HasVisited, GrabRespected, [Next]_vars
  PROVE  GrabRespected'
<1>1. CASE UNCHANGED <<pc, order, grab>>
  BY <1>1 DEF GrabRespected, MayProcess, Visited
<1>2. CASE PeerStep \/ UNCHANGED vars
  <2>1. UNCHANGED <<pc, order, grab>>
    BY <1>2 DEF PeerStep, PeerConnect, PeerSend, PeerSetup, PeerRead, PeerHangUp,
                loopVars, sharedVars, vars
  <2> QED
    BY <1>1, <2>1
<1>3. CASE VisitReady
  BY <1>3 DEF VisitReady, GrabRespected, Goto, MayProcess, Visited, sharedVars
<1>4. CASE LoopStep /\ ~VisitReady
  <2>1. pc' \in {"timers", "poll", "accept", "visit", "reap"}
    BY <1>4 DEF LoopStep, ProcessTimers, Poll, Accept, AcceptDropped, VisitHungUp,
                VisitIdle, Reap, Goto, Onward, EndVisit, Fail, loopVars
  <2> QED
    BY <2>1 DEF GrabRespected
<1>5. CASE HandlerStep
  <2>1. MayProcess(Visited)
    BY <1>5, HandlerVisits DEF GrabRespected
  <2>2. grab' \in {grab, NoClient, Visited}
    BY <1>5
    DEF HandlerStep, DrainOverflow,
        WritableStep, OnWritable, FlushDone, FlushWrite, FlushBlocked, FlushBroken,
        ReadableStep, ReadableHeld, Receive, ReceiveOverflow, ReadableDone,
        EndOfStream, BrokenStream, ProcessReturn,
        SetupStep, SetupPrefix, SetupMalformed, SetupRefused, SetupAuthenticated,
        RequestStep, Query, Oversize, Malformed, Notify, GrabServer,
        UngrabServer, KillClient, AwaitSuspends, AwaitSatisfied, SetCounter,
        TriggerFence, SetPriority, sharedVars
  <2> QED
    BY <1>5, <2>1, <2>2, HandlerStays DEF GrabRespected, MayProcess, Visited
<1> QED
  BY <1>2, <1>3, <1>4, <1>5 DEF Next, ServerStep, HandlerStep

(* Sequence numbers change by requests of the visited client and by Reap. *)
LEMMA SequenceSteps ==
  ASSUME TypeOK, HasVisited, [Next]_vars
  PROVE  \/ UNCHANGED sequence
         \/ /\ RequestStep /\ Visited \in Client
            /\ sequence' = [sequence EXCEPT ![Visited] = sequence[Visited] + 1]
         \/ \E c \in Client : sequence' = [sequence EXCEPT ![c] = 0]
<1>1. CASE RequestStep
  <2>1. Visited \in Client
    BY <1>1, HandlerVisits DEF HandlerStep
  <2>2. sequence' = [sequence EXCEPT ![Visited] = sequence[Visited] + 1]
    BY <1>1
    DEF RequestStep, Query, Oversize, Malformed, Notify, GrabServer, UngrabServer,
        KillClient, AwaitSuspends, AwaitSatisfied, SetCounter, TriggerFence,
        SetPriority, Consume, Number
  <2> QED
    BY <1>1, <2>1, <2>2
<1>2. CASE Reap
  <2>1. PICK c \in Client : sequence' = [sequence EXCEPT ![c] = 0]
    BY <1>2 DEF Reap, TypeOK, LoopTypeOK
  <2> QED
    BY <2>1
<1>3. CASE PeerStep \/ (LoopStep /\ ~Reap) \/ UNCHANGED vars
  BY <1>3
  DEF PeerStep, PeerConnect, PeerSend, PeerSetup, PeerRead, PeerHangUp,
      LoopStep, ProcessTimers, Poll, Accept, AcceptDropped, VisitHungUp, VisitIdle,
      VisitReady, connVars, vars
<1>4. CASE HandlerStep /\ ~RequestStep
  BY <1>4
  DEF HandlerStep, DrainOverflow,
      WritableStep, OnWritable, FlushDone, FlushWrite, FlushBlocked, FlushBroken,
      ReadableStep, ReadableHeld, Receive, ReceiveOverflow, ReadableDone,
      EndOfStream, BrokenStream, ProcessReturn,
      SetupStep, SetupPrefix, SetupMalformed, SetupRefused, SetupAuthenticated,
      connVars
<1> QED
  BY <1>1, <1>2, <1>3, <1>4 DEF Next, ServerStep, HandlerStep

(***************************************************************************)
(* While a client holds the server grab, Server::run reads no request of   *)
(* any other client.                                                       *)
(***************************************************************************)
THEOREM GrabExcludesOthers == Spec => GrabExclusion
<1> DEFINE Inv == TypeInv /\ GrabRespected
           GrabKeepsOthers ==
             \A c \in Client : grab \notin {NoClient, c} => sequence'[c] \in {sequence[c], 0}
<1>1. Init => Inv
  BY InitTypeInv DEF Init, GrabRespected
<1>2. Inv /\ [Next]_vars => Inv'
  BY NextTypeInv, NextGrabRespected DEF TypeInv
<1>3. Inv /\ [Next]_vars => [GrabKeepsOthers]_vars
  <2> SUFFICES ASSUME Inv, [Next]_vars, NEW c \in Client, grab \notin {NoClient, c}
               PROVE  sequence'[c] \in {sequence[c], 0}
    OBVIOUS
  <2>1. sequence \in [Client -> Nat] /\ TypeOK /\ HasVisited
    BY DEF TypeInv, TypeOK, ConnTypeOK
  <2>2. CASE RequestStep
    <3>1. MayProcess(Visited)
      BY <2>1, <2>2, HandlerVisits DEF HandlerStep, GrabRespected
    <3>2. c # Visited
      BY <3>1 DEF MayProcess
    <3> QED
      BY <2>1, <3>2, SequenceSteps
  <2>3. CASE ~RequestStep
    BY <2>1, <2>3, SequenceSteps
  <2> QED
    BY <2>2, <2>3
<1> QED
  BY <1>1, <1>2, <1>3, PTL DEF Spec, GrabExclusion
-----------------------------------------------------------------------------
(* Free slots and unfinished setups.                                       *)

(* What NoResidue and SetupGate say of one client. *)
Clean(c) ==
  /\ c \notin registered /\ c \notin terminate /\ grab # c
  /\ waiting[c] = "none" /\ queue[c] = << >> /\ priority[c] = 0

Gated(c) ==
  /\ sequence[c] = 0
  /\ \A i \in 1..Len(output[c]) : output[c][i].type = "refused"
  /\ ~closing[c] => output[c] = << >>

Unauthenticated(c) == state[c] # "requests" => Clean(c) /\ Gated(c)

(* A client is left alone when nothing kept about it changes. *)
LEMMA LeftAlone ==
  ASSUME NEW d \in Client, Unauthenticated(d),
         state'[d] # "requests" => state[d] # "requests",
         registered' = registered, terminate' = terminate, grab' = grab,
         waiting'[d] = waiting[d], queue'[d] = queue[d], priority'[d] = priority[d],
         sequence'[d] = sequence[d], output'[d] = output[d], closing'[d] = closing[d]
  PROVE  Unauthenticated(d)'
  BY DEF Unauthenticated, Clean, Gated

(* Without a queue there is nothing to drain. *)
LEMMA NothingToDrain ==
  ASSUME TypeOK, NEW d \in Client, queue[d] = << >>
  PROVE  Drained(d) = output[d]
<1>1. output[d] \in Seq(Message)
  BY DEF TypeOK, ConnTypeOK
<1> QED
  BY <1>1 DEF Drained

(* A client that is not among the recipients has its queue left alone. *)
LEMMA NotARecipient ==
  ASSUME TypeOK, NEW C, NEW d \in Client, d \notin C
  PROVE  Deliver(queue, PlanForAll(C, "event"), sequence)[d] = queue[d]
<1>1. queue \in [Client -> Seq(Event)]
  BY DEF TypeOK, SharedTypeOK
<1>2. sequence \in [Client -> Nat]
  BY DEF TypeOK, ConnTypeOK
<1> QED
  BY <1>1, <1>2, DeliverOutside

LEMMA NotARecipientAfterDrain ==
  ASSUME TypeOK, NEW c, NEW C, NEW d \in Client, d \notin C
  PROVE  Deliver(QueueAfterDrain(c), PlanForAll(C, "event"), sequence)[d]
           = QueueAfterDrain(c)[d]
<1> DEFINE q == QueueAfterDrain(c)
<1>1. q \in [Client -> Seq(Event)]
  <2>1. << >> \in Seq(Event) /\ queue \in [Client -> Seq(Event)]
    BY DEF TypeOK, SharedTypeOK
  <2> QED
    BY <2>1 DEF QueueAfterDrain
<1>2. sequence \in [Client -> Nat]
  BY DEF TypeOK, ConnTypeOK
<1> HIDE DEF q
<1>3. Deliver(q, PlanForAll(C, "event"), sequence)[d] = q[d]
  BY <1>1, <1>2, DeliverOutside
<1> QED
  BY <1>3 DEF q

LEMMA LoopUnauthenticated ==
  ASSUME TypeInv, \A c \in Client : Unauthenticated(c), LoopStep, NEW d \in Client
  PROVE  Unauthenticated(d)'
<1>1. TypeOK /\ Unauthenticated(d)
  BY DEF TypeInv
<1>2. queue \in [Client -> Seq(Event)]
  BY <1>1 DEF TypeOK, SharedTypeOK
<1>3. CASE ProcessTimers
  <2>1. UNCHANGED <<state, registered, terminate, grab, priority, sequence, output, closing>>
    BY <1>3 DEF ProcessTimers, connVars
  <2>2. CASE state[d] = "requests"
    BY <2>1, <2>2 DEF Unauthenticated
  <2>3. CASE state[d] # "requests"
    <3>1. d \notin registered /\ waiting[d] = "none"
      BY <1>1, <2>3 DEF Unauthenticated, Clean
    <3>2. waiting'[d] = waiting[d]
      BY <1>3, <3>1 DEF ProcessTimers, TypeOK, SharedTypeOK
    <3>3. queue'[d] = queue[d]
      <4>1. ASSUME NEW C \in SUBSET registered
            PROVE  Deliver(queue, PlanForAll(C, "event"), sequence)[d] = queue[d]
        BY <1>1, <3>1, NotARecipient
      <4> QED
        BY <1>3, <4>1 DEF ProcessTimers
    <3> QED
      BY <1>1, <2>1, <3>2, <3>3, LeftAlone
  <2> QED
    BY <2>2, <2>3
<1>4. CASE Accept
  <2>1. PICK c \in Client : state[c] = "free" /\ state' = [state EXCEPT ![c] = "setup_prefix"]
    BY <1>4 DEF Accept, free_slot
  <2>2. state'[d] # "requests" => state[d] # "requests"
    BY <1>1, <2>1 DEF TypeOK, ConnTypeOK
  <2> QED
    BY <1>1, <1>4, <2>2, LeftAlone DEF Accept, sharedVars
<1>5. CASE Poll \/ AcceptDropped \/ VisitHungUp \/ VisitIdle \/ VisitReady
  <2>1. UNCHANGED connVars /\ UNCHANGED sharedVars
    BY <1>5 DEF Poll, AcceptDropped, VisitHungUp, VisitIdle, VisitReady
  <2> QED
    BY <1>1, <2>1, LeftAlone DEF connVars, sharedVars
<1>6. CASE Reap
  <2>1. PICK c \in Client :
          /\ disconnect_client(c)
          /\ state' = [state EXCEPT ![c] = "free"]
          /\ output' = [output EXCEPT ![c] = << >>]
          /\ sequence' = [sequence EXCEPT ![c] = 0]
          /\ closing' = [closing EXCEPT ![c] = FALSE]
    BY <1>1, <1>6 DEF Reap, TypeOK, LoopTypeOK
  <2>2. QueueAfterDrain(c) \in [Client -> Seq(Event)] /\ QueueAfterDrain(c)[c] = << >>
    BY <1>2 DEF QueueAfterDrain
  <2>3. ASSUME d = c \/ d \notin registered
        PROVE  queue'[d] = QueueAfterDrain(c)[d]
    <3>1. ASSUME NEW C \in SUBSET (registered \ {c})
          PROVE  Deliver(QueueAfterDrain(c), PlanForAll(C, "event"), sequence)[d]
                   = QueueAfterDrain(c)[d]
      BY <1>1, <2>3, NotARecipientAfterDrain
    <3> QED
      BY <2>1, <3>1 DEF disconnect_client
  <2>4. CASE d = c
    <3>1. Clean(d)'
      <4>1. d \notin registered' /\ d \notin terminate' /\ grab' # d
        BY <2>1, <2>4, LimitsAssumption DEF disconnect_client, Forget, NoClient
      <4>2. waiting'[d] = "none" /\ priority'[d] = 0
        BY <1>1, <2>1, <2>4 DEF disconnect_client, Forget, TypeOK, SharedTypeOK
      <4>3. queue'[d] = << >>
        BY <2>2, <2>3, <2>4
      <4> QED
        BY <4>1, <4>2, <4>3 DEF Clean
    <3>2. Gated(d)'
      BY <1>1, <2>1, <2>4 DEF Gated, TypeOK, ConnTypeOK
    <3> QED
      BY <3>1, <3>2 DEF Unauthenticated
  <2>5. CASE d # c /\ state[d] = "requests"
    BY <1>1, <2>1, <2>5 DEF Unauthenticated, TypeOK, ConnTypeOK
  <2>6. CASE d # c /\ state[d] # "requests"
    <3>1. Clean(d) /\ Gated(d)
      BY <1>1, <2>6 DEF Unauthenticated
    <3>2. queue'[d] = << >>
      BY <1>2, <2>3, <2>6, <3>1 DEF Clean, QueueAfterDrain
    <3>3. Clean(d)'
      <4>1. d \notin registered' /\ d \notin terminate' /\ grab' # d
        BY <2>1, <3>1, LimitsAssumption DEF disconnect_client, Forget, NoClient, Clean
      <4>2. waiting'[d] = "none" /\ priority'[d] = 0
        BY <1>1, <2>1, <2>6, <3>1 DEF disconnect_client, Forget, TypeOK, SharedTypeOK, Clean
      <4> QED
        BY <3>2, <4>1, <4>2 DEF Clean
    <3>4. Gated(d)'
      BY <1>1, <2>1, <2>6, <3>1 DEF Gated, TypeOK, ConnTypeOK
    <3> QED
      BY <3>3, <3>4 DEF Unauthenticated
  <2> QED
    BY <2>4, <2>5, <2>6
<1> QED
  BY <1>3, <1>4, <1>5, <1>6 DEF LoopStep
(* The event that a request of the visited client queues for client d. *)
Told(d) == Append(queue[d], [type |-> "event", sequence |-> sequence[d]])

(* Requests of c that tell a set of clients: the queue of another client d. *)
LEMMA DeliverToOther ==
  ASSUME TypeOK, NEW c \in Client, NEW C, NEW d \in Client, d # c,
         NEW n \in Nat
  PROVE  LET q == Deliver(QueueAfterDrain(c), PlanForAll(C, "event"),
                          [sequence EXCEPT ![c] = n])
         IN  IF d \in C THEN q[d] = Told(d) ELSE q[d] = queue[d]
<1> DEFINE rest == QueueAfterDrain(c)
           seq == [sequence EXCEPT ![c] = n]
<1>1. rest \in [Client -> Seq(Event)] /\ rest[d] = queue[d]
  <2>1. << >> \in Seq(Event) /\ queue \in [Client -> Seq(Event)]
    BY DEF TypeOK, SharedTypeOK
  <2> QED
    BY <2>1 DEF QueueAfterDrain
<1>2. seq \in [Client -> Nat] /\ seq[d] = sequence[d]
  BY DEF TypeOK, ConnTypeOK
<1> HIDE DEF rest, seq
<1>3. rest \in [Client -> Seq(Event)]
  BY <1>1
<1>4. seq \in [Client -> Nat]
  BY <1>2
<1>5. CASE d \in C
  <2>1. Deliver(rest, PlanForAll(C, "event"), seq)[d]
          = Append(rest[d], [type |-> "event", sequence |-> seq[d]])
    BY <1>3, <1>4, <1>5, DeliverInside
  <2> QED
    BY <1>1, <1>2, <1>5, <2>1 DEF Told, rest, seq
<1>6. CASE d \notin C
  <2>1. Deliver(rest, PlanForAll(C, "event"), seq)[d] = rest[d]
    BY <1>3, <1>4, <1>6, DeliverOutside, ZenonT(60)
  <2> QED
    BY <1>1, <1>6, <2>1 DEF rest, seq
<1> QED
  BY <1>5, <1>6

(* What a handler leaves alone of a connection other than the visited one. *)
LEMMA OtherConnection ==
  ASSUME TypeOK, HasVisited, HandlerStep, NEW d \in Client, d # Visited
  PROVE  /\ state'[d] = state[d] /\ output'[d] = output[d]
         /\ sequence'[d] = sequence[d] /\ closing'[d] = closing[d]
         /\ written'[d] = written[d] /\ input'[d] = input[d]
         /\ resume'[d] = resume[d] /\ finished'[d] = finished[d]
<1>1. Visited \in Client
  BY HandlerVisits
<1> USE DEF TypeOK, ConnTypeOK, connVars
<1>2. CASE DrainOverflow
  BY <1>1, <1>2 DEF DrainOverflow
<1>3. CASE WritableStep
  BY <1>1, <1>3
  DEF WritableStep, OnWritable, FlushDone, FlushWrite, FlushBlocked, FlushBroken, Emit,
      ResumeOnEntry
<1>4. CASE ReadableStep
  BY <1>1, <1>4
  DEF ReadableStep, ReadableHeld, Receive, ReceiveOverflow, ReadableDone,
      EndOfStream, BrokenStream, close_after_output, ResumeOnEntry
<1>5. CASE ProcessReturn
  BY <1>1, <1>5 DEF ProcessReturn, Emit
<1>6. CASE SetupStep
  BY <1>1, <1>6
  DEF SetupStep, SetupPrefix, SetupMalformed, SetupRefused, SetupAuthenticated,
      close_after_output
<1>7. CASE RequestStep
  <2>1. \A type : Answer(Visited, type) => output'[d] = output[d]
    BY <1>1 DEF Answer, Emit
  <2>2. Silent(Visited) => output'[d] = output[d]
    BY <1>1 DEF Silent, Emit
  <2>3. output'[d] = output[d]
    BY <1>1, <1>7, <2>1, <2>2
    DEF RequestStep, Query, Oversize, Malformed, Notify, GrabServer, UngrabServer,
        KillClient, AwaitSuspends, AwaitSatisfied, SetCounter, TriggerFence,
        SetPriority, Emit
  <2>4. /\ state' = state /\ written' = written
        /\ sequence' = [sequence EXCEPT ![Visited] = Number(Visited)]
        /\ closing'[d] = closing[d] /\ input'[d] = input[d]
        /\ resume'[d] = resume[d] /\ finished'[d] = finished[d]
    BY <1>1, <1>7, SMTT(40)
    DEF RequestStep, Query, Oversize, Malformed, Notify, GrabServer, UngrabServer,
        KillClient, AwaitSuspends, AwaitSatisfied, SetCounter, TriggerFence,
        SetPriority, Consume, close_after_output
  <2> QED
    BY <1>1, <2>3, <2>4
<1> QED
  BY <1>2, <1>3, <1>4, <1>5, <1>6, <1>7 DEF HandlerStep

(* What a handler may change of the state shared with another client. *)
LEMMA OtherShared ==
  ASSUME TypeOK, HasVisited, HandlerStep, NEW d \in Client, d # Visited
  PROVE  /\ registered' \subseteq registered \cup {Visited}
         /\ terminate' \subseteq terminate \cup registered
         /\ grab' \in {grab, NoClient, Visited}
         /\ waiting'[d] \in {waiting[d], "none"}
         /\ priority'[d] # priority[d] => d \in registered
         /\ queue'[d] # queue[d] => d \in registered /\ queue'[d] = Told(d)
<1>1. Visited \in Client
  BY HandlerVisits
<1>2. CASE ~RequestStep
  <2>1. /\ registered' \subseteq registered \cup {Visited} /\ terminate' = terminate
        /\ grab' = grab /\ waiting' = waiting /\ priority' = priority
    BY <1>2
    DEF HandlerStep, DrainOverflow,
        WritableStep, OnWritable, FlushDone, FlushWrite, FlushBlocked, FlushBroken,
        ReadableStep, ReadableHeld, Receive, ReceiveOverflow, ReadableDone,
        EndOfStream, BrokenStream, ProcessReturn,
        SetupStep, SetupPrefix, SetupMalformed, SetupRefused, SetupAuthenticated,
        sharedVars
  <2>2. queue'[d] = queue[d]
    BY <1>1, <1>2
    DEF HandlerStep, DrainOverflow, Emit,
        WritableStep, OnWritable, FlushDone, FlushWrite, FlushBlocked, FlushBroken,
        ReadableStep, ReadableHeld, Receive, ReceiveOverflow, ReadableDone,
        EndOfStream, BrokenStream, ProcessReturn,
        SetupStep, SetupPrefix, SetupMalformed, SetupRefused, SetupAuthenticated,
        sharedVars, TypeOK, SharedTypeOK
  <2> QED
    BY <2>1, <2>2
<1>3. CASE RequestStep
  <2>1. /\ registered' = registered
        /\ terminate' \subseteq terminate \cup registered
        /\ grab' \in {grab, NoClient, Visited}
    BY <1>3
    DEF RequestStep, Query, Oversize, Malformed, Notify, GrabServer, UngrabServer,
        KillClient, AwaitSuspends, AwaitSatisfied, SetCounter, TriggerFence,
        SetPriority, request_client_termination
  <2>2. waiting'[d] \in {waiting[d], "none"}
    BY <1>1, <1>3
    DEF RequestStep, Query, Oversize, Malformed, Notify, GrabServer, UngrabServer,
        KillClient, AwaitSuspends, AwaitSatisfied, SetCounter, TriggerFence,
        SetPriority, TypeOK, SharedTypeOK
  <2>3. priority'[d] # priority[d] => d \in registered
    BY <1>1, <1>3
    DEF RequestStep, Query, Oversize, Malformed, Notify, GrabServer, UngrabServer,
        KillClient, AwaitSuspends, AwaitSatisfied, SetCounter, TriggerFence,
        SetPriority, TypeOK, SharedTypeOK
  <2>4. \A type : Answer(Visited, type) => queue'[d] = queue[d]
    BY <1>1 DEF Answer, Emit, TypeOK, SharedTypeOK
  <2>5. Silent(Visited) => queue'[d] = queue[d]
    BY <1>1 DEF Silent, Emit, TypeOK, SharedTypeOK
  <2>6. ASSUME NEW C \in SUBSET registered,
               NEW q, q = Deliver(QueueAfterDrain(Visited), PlanForAll(C, "event"), sequence'),
               sequence' = [sequence EXCEPT ![Visited] = Number(Visited)]
        PROVE  q[d] # queue[d] => d \in registered /\ q[d] = Told(d)
    <3>1. Number(Visited) \in Nat
      BY <1>1 DEF Number, TypeOK, ConnTypeOK
    <3>2. q = Deliver(QueueAfterDrain(Visited), PlanForAll(C, "event"),
                      [sequence EXCEPT ![Visited] = Number(Visited)])
      BY <2>6
    <3>3. IF d \in C THEN q[d] = Told(d) ELSE q[d] = queue[d]
      BY <1>1, <3>1, <3>2, DeliverToOther
    <3> QED
      BY <3>3
  <2>7. CASE Notify
    <3>1. \/ queue'[d] = queue[d]
          \/ queue' = Deliver(QueueAfterDrain(Visited),
                              PlanForAll({FirstPacket(input[Visited]).to} \cap registered,
                                         "event"), sequence')
      BY <2>4, <2>7 DEF Notify
    <3> QED
      BY <2>1, <2>2, <2>3, <2>6, <2>7, <3>1 DEF Notify, Consume
  <2>8. CASE SetCounter
    <3>1. PICK C \in SUBSET registered :
            \/ queue'[d] = queue[d]
            \/ LET q == Deliver(QueueAfterDrain(Visited), PlanForAll(C, "event"), sequence')
               IN  queue' = q \/ queue' = [q EXCEPT ![Visited] = << >>]
      BY <2>4, <2>8 DEF SetCounter
    <3>2. LET q == Deliver(QueueAfterDrain(Visited), PlanForAll(C, "event"), sequence')
          IN  [q EXCEPT ![Visited] = << >>][d] = q[d]
      BY DEF Deliver
    <3>3. LET q == Deliver(QueueAfterDrain(Visited), PlanForAll(C, "event"), sequence')
          IN  q[d] # queue[d] => d \in registered /\ q[d] = Told(d)
      BY <2>6, <2>8 DEF SetCounter, Consume
    <3> QED
      BY <2>1, <2>2, <2>3, <3>1, <3>2, <3>3
  <2>9. CASE ~Notify /\ ~SetCounter
    <3>1. queue'[d] = queue[d]
      BY <1>1, <1>3, <2>4, <2>5, <2>9
      DEF RequestStep, Query, Oversize, Malformed, GrabServer, UngrabServer,
          KillClient, AwaitSuspends, AwaitSatisfied, TriggerFence,
          SetPriority, Emit, TypeOK, SharedTypeOK
    <3> QED
      BY <2>1, <2>2, <2>3, <3>1
  <2> QED
    BY <2>7, <2>8, <2>9
<1> QED
  BY <1>2, <1>3

(* A handler never turns an authenticated connection back. *)
LEMMA RequestsStays ==
  ASSUME TypeOK, HasVisited, HandlerStep, state[Visited] = "requests"
  PROVE  state'[Visited] = "requests"
<1>1. Visited \in Client
  BY HandlerVisits
<1> QED
  BY <1>1
  DEF HandlerStep, DrainOverflow,
      WritableStep, OnWritable, FlushDone, FlushWrite, FlushBlocked, FlushBroken,
      ReadableStep, ReadableHeld, Receive, ReceiveOverflow, ReadableDone,
      EndOfStream, BrokenStream, ProcessReturn,
      SetupStep, SetupPrefix, SetupMalformed, SetupRefused, SetupAuthenticated,
      SetupPacket,
      RequestStep, Query, Oversize, Malformed, Notify, GrabServer, UngrabServer,
      KillClient, AwaitSuspends, AwaitSatisfied, SetCounter, TriggerFence,
      SetPriority, connVars, TypeOK, ConnTypeOK

(* The visited connection, while it has not completed setup. *)
LEMMA VisitedUnauthenticated ==
  ASSUME TypeInv, HandlerStep, NEW c \in Client, c = Visited,
         Unauthenticated(c), state[c] # "requests"
  PROVE  Unauthenticated(c)'
<1>1. TypeOK
  BY DEF TypeInv
<1>2. Clean(c) /\ Gated(c) /\ Drained(c) = output[c]
  BY <1>1, NothingToDrain DEF Unauthenticated, Clean
<1>3. output[c] \in Seq(Message) /\ Len(output[c]) <= MaxOutput
  BY <1>1 DEF TypeInv, OutputBounded, TypeOK, ConnTypeOK
<1>4. ~DrainOverflow /\ ~RequestStep
  BY <1>2, <1>3
  DEF DrainOverflow, DrainFits, RequestStep, Query, Oversize, Malformed, Notify,
      GrabServer, UngrabServer, KillClient, AwaitSuspends, AwaitSatisfied, SetCounter,
      TriggerFence, SetPriority, Request
<1>5. CASE WritableStep
  <2>1. UNCHANGED <<state, registered, terminate, grab, waiting, priority, sequence, closing>>
    BY <1>5
    DEF WritableStep, OnWritable, FlushDone, FlushWrite, FlushBlocked, FlushBroken,
        sharedVars
  <2>2. queue'[c] = << >>
    BY <1>1, <1>2, <1>5
    DEF WritableStep, OnWritable, FlushDone, FlushWrite, FlushBlocked, FlushBroken,
        sharedVars, Emit, Clean, TypeOK, SharedTypeOK
  <2>3. output'[c] = output[c] \/ (output[c] # << >> /\ output'[c] = Tail(output[c]))
    <3>1. output[c] \o << >> = output[c]
      BY <1>3
    <3> QED
      BY <1>1, <1>2, <1>5, <3>1
      DEF WritableStep, OnWritable, FlushDone, FlushWrite, FlushBlocked, FlushBroken,
          Emit, TypeOK, ConnTypeOK
  <2>4. \A i \in 1..Len(Tail(output[c])) :
          output[c] # << >> => Tail(output[c])[i] = output[c][i + 1] /\ i + 1 \in 1..Len(output[c])
    BY <1>3
  <2>5. Gated(c)'
    <3>1. CASE output'[c] = output[c]
      BY <1>2, <2>1, <3>1 DEF Gated
    <3>2. CASE output[c] # << >> /\ output'[c] = Tail(output[c])
      BY <1>2, <2>1, <2>4, <3>2 DEF Gated
    <3> QED
      BY <2>3, <3>1, <3>2
  <2> QED
    BY <1>2, <2>1, <2>2, <2>5 DEF Unauthenticated, Clean
<1>6. CASE ReadableStep
  <2>1. UNCHANGED <<state, output, sequence, closing>> /\ UNCHANGED sharedVars
    BY <1>2, <1>6
    DEF ReadableStep, ReadableHeld, Receive, ReceiveOverflow, ReadableDone,
        EndOfStream, BrokenStream, connVars
  <2> QED
    BY <2>1, LeftAlone DEF sharedVars
<1>7. CASE ProcessReturn
  <2>1. UNCHANGED <<state, output, sequence, closing>> /\ UNCHANGED sharedVars
    BY <1>2, <1>7 DEF ProcessReturn, sharedVars
  <2> QED
    BY <2>1, LeftAlone DEF sharedVars
<1>8. CASE SetupPrefix \/ SetupMalformed
  <2>1. state'[c] # "requests" /\ UNCHANGED <<output, sequence, closing>>
        /\ UNCHANGED sharedVars
    BY <1>1, <1>8 DEF SetupPrefix, SetupMalformed, connVars, TypeOK, ConnTypeOK
  <2> QED
    BY <2>1, LeftAlone DEF sharedVars
<1>9. CASE SetupRefused
  <2>1. UNCHANGED <<state, sequence>> /\ UNCHANGED sharedVars /\ ~closing[c]
    BY <1>9 DEF SetupRefused, SetupPacket, Continues, HoldsInput
  <2>2. output[c] = << >>
    BY <1>2, <2>1 DEF Gated
  <2>3. \/ UNCHANGED <<output, closing>>
        \/ closing'[c] /\ output'[c] = <<[type |-> "refused", sequence |-> 0]>>
    BY <1>1, <1>9, <2>2 DEF SetupRefused, close_after_output, TypeOK, ConnTypeOK
  <2>4. Gated(c)'
    BY <1>2, <2>1, <2>3 DEF Gated
  <2> QED
    BY <1>2, <2>1, <2>4 DEF Unauthenticated, Clean, sharedVars
<1>10. CASE SetupAuthenticated
  <2>1. output[c] = << >> /\ Len(output[c]) < MaxOutput
    BY <1>2, <1>10, ServerAssumption
    DEF SetupAuthenticated, SetupPacket, Continues, HoldsInput, Gated
  <2>2. state'[c] = "requests"
    BY <1>1, <1>10, <2>1 DEF SetupAuthenticated, TypeOK, ConnTypeOK
  <2> QED
    BY <2>2 DEF Unauthenticated
<1> QED
  BY <1>4, <1>5, <1>6, <1>7, <1>8, <1>9, <1>10 DEF HandlerStep, SetupStep

AllUnauthenticated == \A c \in Client : Unauthenticated(c)

LEMMA NextUnauthenticated ==
  ASSUME TypeInv, AllUnauthenticated, [Next]_vars
  PROVE  AllUnauthenticated'
<1> SUFFICES ASSUME NEW d \in Client
             PROVE  Unauthenticated(d)'
  BY DEF AllUnauthenticated
<1>1. TypeOK /\ HasVisited /\ Unauthenticated(d)
  BY DEF TypeInv, AllUnauthenticated
<1>2. CASE PeerStep \/ UNCHANGED vars
  <2>1. UNCHANGED connVars /\ UNCHANGED sharedVars
    BY <1>2 DEF PeerStep, PeerConnect, PeerSend, PeerSetup, PeerRead, PeerHangUp,
                vars, connVars, sharedVars
  <2> QED
    BY <1>1, <2>1, LeftAlone DEF connVars, sharedVars
<1>3. CASE LoopStep
  BY <1>3, LoopUnauthenticated DEF AllUnauthenticated
<1>4. CASE HandlerStep
  <2>1. CASE d = Visited
    <3>1. CASE state[d] = "requests"
      BY <1>1, <1>4, <2>1, <3>1, RequestsStays DEF Unauthenticated
    <3> QED
      BY <1>1, <1>4, <2>1, <3>1, VisitedUnauthenticated
  <2>2. CASE d # Visited /\ state[d] = "requests"
    BY <1>1, <1>4, <2>2, OtherConnection DEF Unauthenticated
  <2>3. CASE d # Visited /\ state[d] # "requests"
    <3>1. Clean(d) /\ Gated(d)
      BY <1>1, <2>3 DEF Unauthenticated
    <3>2. Clean(d)'
      BY <1>1, <1>4, <2>3, <3>1, OtherShared, LimitsAssumption DEF Clean, NoClient
    <3>3. Gated(d)'
      BY <1>1, <1>4, <2>3, <3>1, OtherConnection DEF Gated
    <3> QED
      BY <3>2, <3>3 DEF Unauthenticated
  <2> QED
    BY <2>1, <2>2, <2>3
<1> QED
  BY <1>2, <1>3, <1>4 DEF Next, ServerStep, HandlerStep

(***************************************************************************)
(* ServerState keeps nothing for a slot whose connection does not exist or *)
(* has not completed setup, and such a connection is sent nothing but a    *)
(* refusal.                                                                *)
(***************************************************************************)
THEOREM SlotsAreClean == Spec => [](NoResidue /\ SetupGate)
<1> DEFINE Inv == TypeInv /\ AllUnauthenticated
<1>1. Init => Inv
  BY InitTypeInv, LimitsAssumption
  DEF Init, AllUnauthenticated, Unauthenticated, Clean, Gated, NoClient
<1>2. Inv /\ [Next]_vars => Inv'
  BY NextTypeInv, NextUnauthenticated
<1>3. Inv => NoResidue /\ SetupGate
  BY DEF AllUnauthenticated, Unauthenticated, Clean, Gated, NoResidue, SetupGate
<1> QED
  BY <1>1, <1>2, <1>3, PTL DEF Spec

(***************************************************************************)
(* Before setup is complete no request is read, and a peer whose setup was *)
(* refused is told so and nothing else.                                    *)
(***************************************************************************)
THEOREM SetupGuardsRequests == Spec => []SetupGate
  BY SlotsAreClean, PTL
-----------------------------------------------------------------------------
(* The slots and the vector of connections.                                *)

(* Nobody is left to visit or to remove where the loop starts a turn. *)
Phases ==
  /\ pc \in {"timers", "poll", "reap"} => order = << >>
  /\ pc \in {"timers", "poll", "accept"} => remove = {}

(* A step of a visit goes on with it, or ends it. *)
Visiting ==
  /\ clients' = clients
  /\ \/ /\ order' = order /\ remove' = remove
        /\ pc' \in {"writable", "process", "flush", "readable"}
     \/ /\ order' = Tail(order) /\ remove' \in {remove, remove \cup {Visited}}
        /\ pc' = Onward(order', remove')

LEMMA EndVisits ==
  ASSUME NEW gone, EndVisit(gone)
  PROVE  Visiting
BY DEF EndVisit, Visiting

LEMMA VisitMoves ==
  ASSUME TypeOK, HasVisited, HandlerStep \/ VisitHungUp \/ VisitIdle \/ VisitReady
  PROVE  Visiting
<1>1. \A place \in {"writable", "process", "flush", "readable"} : Goto(place) => Visiting
  BY DEF Goto, Visiting
<1>2. /\ Fail => Visiting
      /\ \A done : Leave(done) => Visiting
  BY EndVisits DEF Fail, Leave
<1>3. pc \in {"writable", "process", "flush", "readable"} /\ UNCHANGED loopVars => Visiting
  BY DEF loopVars, Visiting
<1>4. CASE DrainOverflow
  BY <1>2, <1>4 DEF DrainOverflow
<1>5. CASE WritableStep
  <2>1. CASE OnWritable
    BY <2>1 DEF OnWritable, Visiting
  <2>2. CASE FlushDone \/ FlushBlocked
    <3>1. PICK done : AfterWritable(Visited, done)
      BY <2>2 DEF FlushDone, FlushBlocked
    <3> QED BY <1>1, <1>2, <3>1 DEF AfterWritable
  <2>3. CASE FlushWrite
    BY <1>3, <2>3 DEF FlushWrite
  <2>4. CASE FlushBroken
    BY <1>2, <2>4 DEF FlushBroken
  <2> QED BY <1>5, <2>1, <2>2, <2>3, <2>4 DEF WritableStep
<1>6. CASE ReadableStep
  <2>1. CASE Receive
    BY <2>1 DEF Receive, Visiting
  <2>2. CASE ~Receive
    BY <1>2, <1>6, <2>2 DEF ReadableStep, ReadableHeld, ReceiveOverflow, ReadableDone,
                            EndOfStream, BrokenStream
  <2> QED BY <2>1, <2>2
<1>7. CASE ProcessReturn
  <2>1. return \in {"flush", "readable"} /\ Goto(return)
    BY <1>7 DEF ProcessReturn, TypeOK, LoopTypeOK
  <2> QED BY <1>1, <2>1
<1>8. CASE SetupStep
  BY <1>2, <1>3, <1>8
  DEF SetupStep, SetupPrefix, SetupMalformed, SetupRefused, SetupAuthenticated, SetupPacket
<1>9. CASE RequestStep
  <2>1. pc = "process"
    BY <1>9
    DEF RequestStep, Query, Oversize, Malformed, Notify, GrabServer, UngrabServer,
        KillClient, AwaitSuspends, AwaitSatisfied, SetCounter, TriggerFence,
        SetPriority, Request
  <2>2. \A c, type : Answer(c, type) => Visiting
    BY <1>2, <1>3, <2>1 DEF Answer
  <2>3. \A c : Silent(c) => Visiting
    BY <1>3, <2>1 DEF Silent
  <2> QED
    BY <1>2, <1>3, <1>9, <2>1, <2>2, <2>3
    DEF RequestStep, Query, Oversize, Malformed, Notify, GrabServer, UngrabServer,
        KillClient, AwaitSuspends, AwaitSatisfied, SetCounter, TriggerFence,
        SetPriority
<1>10. CASE VisitHungUp \/ VisitIdle
  BY <1>10, EndVisits DEF VisitHungUp, VisitIdle, Fail
<1>11. CASE VisitReady
  BY <1>1, <1>11 DEF VisitReady
<1> QED BY <1>4, <1>5, <1>6, <1>7, <1>8, <1>9, <1>10, <1>11 DEF HandlerStep

(* A handler neither takes nor frees a slot. *)
LEMMA SlotsStay ==
  ASSUME TypeOK, HasVisited, HandlerStep, NEW d \in Client
  PROVE  state'[d] = "free" <=> state[d] = "free"
<1>1. CASE d # Visited
  BY <1>1, OtherConnection
<1>2. CASE d = Visited
  <2>1. CASE ~SetupStep
    BY <2>1
    DEF HandlerStep, DrainOverflow,
        WritableStep, OnWritable, FlushDone, FlushWrite, FlushBlocked, FlushBroken,
        ReadableStep, ReadableHeld, Receive, ReceiveOverflow, ReadableDone,
        EndOfStream, BrokenStream, ProcessReturn,
        RequestStep, Query, Oversize, Malformed, Notify, GrabServer, UngrabServer,
        KillClient, AwaitSuspends, AwaitSatisfied, SetCounter, TriggerFence,
        SetPriority, connVars
  <2>2. CASE SetupStep
    BY <1>2, <2>2
    DEF SetupStep, SetupPrefix, SetupMalformed, SetupRefused, SetupAuthenticated, SetupPacket,
        connVars, TypeOK, ConnTypeOK
  <2> QED BY <2>1, <2>2
<1> QED BY <1>1, <1>2

(* An order that sorts the connections names each of them once. *)
LEMMA OrderIsDistinct ==
  ASSUME TypeOK, NEW o \in [1..Len(clients) -> Range(clients)], IsDispatchOrder(o)
  PROVE  /\ o \in Seq(Client) /\ Range(o) \subseteq Range(clients)
         /\ \A i, j \in DOMAIN o : o[i] = o[j] => i = j
<1>1. clients \in Seq(Client) /\ priority \in [Client -> Int]
  BY DEF TypeOK, LoopTypeOK, SharedTypeOK
<1>2. Range(clients) \subseteq Client
  BY <1>1 DEF Range
<1>3. \A c \in Range(clients) : (CHOOSE k \in DOMAIN clients : clients[k] = c) \in Nat
  BY <1>1 DEF Range
<1>4. ASSUME NEW i \in DOMAIN o, NEW j \in DOMAIN o, o[i] = o[j], i < j
      PROVE  FALSE
  <2> DEFINE at(c) == CHOOSE k \in DOMAIN clients : clients[k] = c
  <2>1. o[i] \in Range(clients) /\ priority[o[i]] \in Int /\ at(o[i]) \in Nat
    BY <1>1, <1>2, <1>3
  <2>2. \/ priority[o[i]] > priority[o[j]]
        \/ priority[o[i]] = priority[o[j]] /\ at(o[i]) < at(o[j])
    BY <1>4 DEF IsDispatchOrder
  <2> HIDE DEF at
  <2> QED BY <1>4, <2>1, <2>2
<1>5. Len(clients) \in Nat /\ DOMAIN o = 1..Len(clients)
  BY <1>1
<1>6. o \in Seq(Client)
  BY <1>2, <1>5
<1> QED BY <1>4, <1>5, <1>6 DEF Range

(* Without one element the rest are the others. *)
LEMMA OthersRemain ==
  ASSUME NEW S, NEW s \in Seq(S), \A i, j \in DOMAIN s : s[i] = s[j] => i = j,
         NEW k \in DOMAIN s
  PROVE  /\ Range(RemoveAt(s, k)) = Range(s) \ {s[k]}
         /\ \A i, j \in DOMAIN RemoveAt(s, k) : RemoveAt(s, k)[i] = RemoveAt(s, k)[j] => i = j
<1> DEFINE r == RemoveAt(s, k)
<1>1. Len(s) \in Nat /\ DOMAIN s = 1..Len(s)
  OBVIOUS
<1>2. r = [i \in 1..(Len(s) - 1) |-> IF i < k THEN s[i] ELSE s[i + 1]]
  <2> DEFINE a == SubSeq(s, 1, k - 1)
             b == SubSeq(s, k + 1, Len(s))
  <2>1. a \in Seq(S) /\ Len(a) = k - 1 /\ \A i \in 1..(k - 1) : a[i] = s[i]
    BY <1>1
  <2>2. b \in Seq(S) /\ Len(b) = Len(s) - k /\ \A i \in 1..(Len(s) - k) : b[i] = s[k + i]
    <3>1. /\ k + 1 \in Int /\ Len(s) \in Int /\ k + 1 >= 1
          /\ \A i \in (k + 1)..Len(s) : s[i] \in S
      BY <1>1
    <3>2. /\ b \in Seq(S)
          /\ Len(b) = IF k + 1 <= Len(s) THEN Len(s) - (k + 1) + 1 ELSE 0
          /\ \A i \in 1..(Len(s) - (k + 1) + 1) : b[i] = s[k + 1 + i - 1]
      BY <3>1, SubSeqProperties
    <3> HIDE DEF b
    <3>3. Len(s) - (k + 1) + 1 = Len(s) - k /\ \A i \in Nat : k + 1 + i - 1 = k + i
      BY <1>1
    <3>4. Len(b) = Len(s) - k
      BY <1>1, <3>2
    <3>5. ASSUME NEW i \in 1..(Len(s) - k)
          PROVE  b[i] = s[k + i]
      <4>1. i \in 1..(Len(s) - (k + 1) + 1) /\ k + 1 + i - 1 = k + i
        BY <1>1, <3>3
      <4> QED BY <3>2, <4>1
    <3> QED BY <3>2, <3>4, <3>5
  <2>3. r = a \o b
    BY DEF RemoveAt
  <2> HIDE DEF a, b, r
  <2>4. /\ r \in Seq(S) /\ Len(r) = Len(a) + Len(b)
        /\ \A i \in 1..(Len(a) + Len(b)) : r[i] = IF i <= Len(a) THEN a[i] ELSE b[i - Len(a)]
    <3>1. a \in Seq(S) /\ b \in Seq(S)
      BY <2>1, <2>2
    <3>2. /\ a \o b \in Seq(S) /\ Len(a \o b) = Len(a) + Len(b)
          /\ \A i \in 1..Len(a) + Len(b) :
               (a \o b)[i] = IF i <= Len(a) THEN a[i] ELSE b[i - Len(a)]
      BY <3>1, ConcatProperties, ZenonT(60)
    <3> QED BY <2>3, <3>2
  <2>5. Len(r) = Len(s) - 1 /\ DOMAIN r = 1..(Len(s) - 1)
    BY <1>1, <2>1, <2>2, <2>4
  <2>6. ASSUME NEW i \in 1..(Len(s) - 1)
        PROVE  r[i] = IF i < k THEN s[i] ELSE s[i + 1]
    <3>1. CASE i < k
      BY <1>1, <2>1, <2>2, <2>4, <3>1, SMTT(40)
    <3>2. CASE ~(i < k)
      <4>1. /\ i - (k - 1) \in 1..(Len(s) - k) /\ k + (i - (k - 1)) = i + 1
            /\ ~(i <= k - 1) /\ i \in 1..((k - 1) + (Len(s) - k))
        BY <1>1, <3>2
      <4>2. r[i] = b[i - (k - 1)]
        BY <2>1, <2>2, <2>4, <4>1
      <4> QED BY <2>2, <3>2, <4>1, <4>2
    <3> QED BY <3>1, <3>2
  <2>7. r = [i \in DOMAIN r |-> r[i]]
    BY <2>4
  <2> QED BY <2>5, <2>6, <2>7
<1> HIDE DEF r
<1>3. DOMAIN r = 1..(Len(s) - 1)
  BY <1>2
<1>4. \A i \in DOMAIN r : /\ i < k => r[i] = s[i] /\ i \in DOMAIN s
                          /\ i >= k => r[i] = s[i + 1] /\ i + 1 \in DOMAIN s
  BY <1>1, <1>2, <1>3
<1>5. \A i, j \in DOMAIN r : r[i] = r[j] => i = j
  BY <1>1, <1>3, <1>4
<1>6. ASSUME NEW x
      PROVE  x \in Range(r) <=> x \in Range(s) /\ x # s[k]
  <2>1. ASSUME NEW i \in DOMAIN r
        PROVE  r[i] \in Range(s) /\ r[i] # s[k]
    BY <1>1, <1>3, <1>4 DEF Range
  <2>2. ASSUME NEW i \in DOMAIN s, i # k
        PROVE  s[i] \in Range(r)
    <3>1. CASE i < k
      <4>1. i \in DOMAIN r /\ r[i] = s[i]
        BY <1>1, <1>3, <1>4, <3>1
      <4> QED BY <4>1 DEF Range
    <3>2. CASE i > k
      <4>1. i - 1 \in DOMAIN r /\ r[i - 1] = s[i]
        BY <1>1, <1>2, <1>3, <3>2
      <4> QED BY <4>1 DEF Range
    <3> QED BY <1>1, <2>2, <3>1, <3>2
  <2> QED BY <2>1, <2>2 DEF Range
<1> QED BY <1>5, <1>6 DEF r

SlotsInv == SlotsAgree /\ Phases

(* The connections in the order, once the loop has gone on with it. *)
LEMMA RestOfOrder ==
  ASSUME NEW S, NEW s \in Seq(S), s # << >>, \A i, j \in DOMAIN s : s[i] = s[j] => i = j
  PROVE  /\ Head(s) \in Range(s) /\ Range(Tail(s)) \subseteq Range(s)
         /\ \A i, j \in DOMAIN Tail(s) : Tail(s)[i] = Tail(s)[j] => i = j
<1>1. Len(s) \in Nat \ {0} /\ DOMAIN s = 1..Len(s) /\ Head(s) = s[1]
  OBVIOUS
<1>2. DOMAIN Tail(s) = 1..(Len(s) - 1)
  BY <1>1
<1>3. \A i \in DOMAIN Tail(s) : Tail(s)[i] = s[i + 1] /\ i + 1 \in DOMAIN s
  BY <1>1, <1>2
<1>4. \A i, j \in DOMAIN Tail(s) : Tail(s)[i] = Tail(s)[j] => i = j
  BY <1>1, <1>2, <1>3
<1> QED BY <1>1, <1>3, <1>4 DEF Range

(* A visit leaves the slots as they are and the order no longer. *)
LEMMA VisitKeepsSlots ==
  ASSUME TypeOK, SlotsInv, Visiting, order # << >>,
         \A d \in Client : state'[d] = "free" <=> state[d] = "free", HasVisited'
  PROVE  SlotsInv'
<1>1. order \in Seq(Client)
  BY DEF TypeOK, LoopTypeOK
<1>2. \A i, j \in DOMAIN order : order[i] = order[j] => i = j
  BY DEF SlotsInv, SlotsAgree
<1>3. /\ Visited \in Range(order) /\ Range(Tail(order)) \subseteq Range(order)
      /\ \A i, j \in DOMAIN Tail(order) : Tail(order)[i] = Tail(order)[j] => i = j
  BY <1>1, <1>2, RestOfOrder DEF Visited
<1>4. Range(order') \cup remove' \subseteq Range(order) \cup remove
  BY <1>3 DEF Visiting
<1>5. \A i, j \in DOMAIN order' : order'[i] = order'[j] => i = j
  BY <1>2, <1>3 DEF Visiting
<1>6. /\ \A i, j \in DOMAIN clients' : clients'[i] = clients'[j] => i = j
      /\ Range(clients') = {c \in Client : state'[c] # "free"}
      /\ Range(clients') = Range(clients)
  BY DEF SlotsInv, SlotsAgree, Visiting
<1>7. Range(order') \cup remove' \subseteq Range(clients')
  BY <1>4, <1>6 DEF SlotsInv, SlotsAgree
<1>8. Phases'
  BY DEF Phases, Visiting, Onward
<1> QED BY <1>5, <1>6, <1>7, <1>8 DEF SlotsInv, SlotsAgree

LEMMA NextSlots ==
  ASSUME TypeInv, SlotsInv, [Next]_vars
  PROVE  SlotsInv'
<1>1. TypeOK /\ HasVisited /\ HasVisited'
  BY NextTypeInv DEF TypeInv
<1>2. /\ clients \in Seq(Client) /\ order \in Seq(Client) /\ remove \subseteq Client
      /\ DOMAIN state = Client
  BY <1>1 DEF TypeOK, LoopTypeOK, ConnTypeOK
<1>3. CASE PeerStep \/ UNCHANGED vars
  <2>1. UNCHANGED <<state, pc, clients, order, remove>>
    BY <1>3 DEF PeerStep, PeerConnect, PeerSend, PeerSetup, PeerRead, PeerHangUp,
                loopVars, connVars, vars
  <2> QED BY <1>1, <2>1 DEF SlotsInv, SlotsAgree, Phases
<1>4. CASE HandlerStep
  BY <1>1, <1>4, HandlerVisits, VisitMoves, SlotsStay, VisitKeepsSlots
<1>5. CASE VisitHungUp \/ VisitIdle \/ VisitReady
  <2>1. pc = "visit" /\ state' = state
    BY <1>5 DEF VisitHungUp, VisitIdle, VisitReady, connVars
  <2>2. order # << >>
    BY <1>1, <2>1 DEF HasVisited
  <2> QED BY <1>1, <1>5, <2>1, <2>2, VisitMoves, VisitKeepsSlots
<1>6. CASE ProcessTimers
  <2>1. /\ UNCHANGED <<state, clients, order, remove>>
        /\ pc' \in {"timers", "poll"} /\ pc = "timers"
    BY <1>6 DEF ProcessTimers, Goto, loopVars, connVars
  <2> QED BY <1>1, <2>1 DEF SlotsInv, SlotsAgree, Phases
<1>7. CASE Poll
  <2>1. pc = "poll" /\ UNCHANGED <<state, clients, remove>>
        /\ pc' = IF backlog > 0 THEN "accept" ELSE Onward(order', {})
    BY <1>7 DEF Poll, connVars
  <2>2. order' \in [1..Len(clients) -> Range(clients)] /\ IsDispatchOrder(order')
    BY <1>7 DEF Poll
  <2>3. /\ Range(order') \subseteq Range(clients)
        /\ \A i, j \in DOMAIN order' : order'[i] = order'[j] => i = j
    BY <1>1, <2>2, OrderIsDistinct
  <2>4. remove = {}
    BY <2>1 DEF SlotsInv, Phases
  <2>5. Phases'
    BY <2>1, <2>4 DEF Phases, Onward
  <2> QED BY <1>1, <2>1, <2>3, <2>4, <2>5 DEF SlotsInv, SlotsAgree
<1>8. CASE AcceptDropped
  <2>1. pc = "accept" /\ UNCHANGED <<state, clients, order, remove>>
        /\ pc' \in {"accept", Onward(order, {})}
    BY <1>8 DEF AcceptDropped, Goto, connVars
  <2>2. Phases'
    BY <2>1 DEF SlotsInv, Phases, Onward
  <2> QED BY <1>1, <2>1, <2>2 DEF SlotsInv, SlotsAgree
<1>9. CASE Accept
  <2>1. pc = "accept" /\ UNCHANGED <<order, remove>>
        /\ pc' \in {"accept", Onward(order, {})}
    BY <1>9 DEF Accept
  <2>2. PICK c \in Client : /\ state[c] = "free"
                            /\ state' = [state EXCEPT ![c] = "setup_prefix"]
                            /\ clients' = Append(clients, c)
    BY <1>9 DEF Accept, free_slot
  <2>3. Phases'
    BY <2>1 DEF SlotsInv, Phases, Onward
  <2>4. c \notin Range(clients)
    BY <2>2 DEF SlotsInv, SlotsAgree
  <2>5. /\ Len(clients) \in Nat /\ DOMAIN clients = 1..Len(clients)
        /\ DOMAIN clients' = 1..(Len(clients) + 1)
        /\ \A i \in 1..Len(clients) : clients'[i] = clients[i]
        /\ clients'[Len(clients) + 1] = c
    BY <1>2, <2>2
  <2>6. \A i, j \in DOMAIN clients' : clients'[i] = clients'[j] => i = j
    <3>1. \A i \in 1..Len(clients) : clients[i] # c
      BY <2>4, <2>5 DEF Range
    <3>2. \A i, j \in 1..Len(clients) : clients[i] = clients[j] => i = j
      BY <2>5 DEF SlotsInv, SlotsAgree
    <3> QED BY <2>5, <3>1, <3>2
  <2>7. Range(clients') = Range(clients) \cup {c}
    <3>1. \A i \in DOMAIN clients' : i \in 1..Len(clients) \/ i = Len(clients) + 1
      BY <2>5
    <3>2. 1..Len(clients) \subseteq DOMAIN clients' /\ Len(clients) + 1 \in DOMAIN clients'
      BY <2>5
    <3> QED BY <2>5, <3>1, <3>2 DEF Range
  <2>8. Range(clients') = {d \in Client : state'[d] # "free"}
    BY <1>2, <2>2, <2>7 DEF SlotsInv, SlotsAgree
  <2> QED BY <1>1, <2>1, <2>3, <2>6, <2>7, <2>8 DEF SlotsInv, SlotsAgree
<1>10. CASE Reap
  <2>1. PICK k \in DOMAIN clients :
          /\ clients' = RemoveAt(clients, k)
          /\ remove' = remove \ {clients[k]}
          /\ pc' = Onward(order, remove')
          /\ state' = [state EXCEPT ![clients[k]] = "free"]
    BY <1>10 DEF Reap
  <2>2. pc = "reap" /\ order' = order
    BY <1>10 DEF Reap
  <2>3. order = << >>
    BY <2>2 DEF SlotsInv, Phases
  <2>4. /\ Range(clients') = Range(clients) \ {clients[k]}
        /\ \A i, j \in DOMAIN clients' : clients'[i] = clients'[j] => i = j
    BY <1>2, <2>1, OthersRemain DEF SlotsInv, SlotsAgree
  <2>5. Range(clients') = {d \in Client : state'[d] # "free"}
    BY <1>2, <2>1, <2>4 DEF SlotsInv, SlotsAgree
  <2>6. Range(order') = {}
    BY <2>2, <2>3 DEF Range
  <2>7. Phases'
    BY <2>1, <2>2, <2>3 DEF Phases, Onward
  <2>8. Range(order') \cup remove' \subseteq Range(clients')
    BY <2>1, <2>4, <2>6 DEF SlotsInv, SlotsAgree
  <2> QED BY <1>1, <2>2, <2>3, <2>4, <2>5, <2>7, <2>8 DEF SlotsInv, SlotsAgree
<1> QED
  BY <1>3, <1>4, <1>5, <1>6, <1>7, <1>8, <1>9, <1>10
  DEF Next, ServerStep, LoopStep, HandlerStep

(***************************************************************************)
(* The vector clients and the slots agree for any number of connections:   *)
(* Server::run polls, visits and destroys every connection once, and never *)
(* a slot that was freed or given to somebody else in between.             *)
(***************************************************************************)
THEOREM SlotsAndClientsAgree == Spec => []SlotsAgree
<1>1. Init => TypeInv /\ SlotsInv
  BY InitTypeInv DEF Init, TypeInv, SlotsInv, SlotsAgree, Phases, Range
<1>2. TypeInv /\ SlotsInv /\ [Next]_vars => (TypeInv /\ SlotsInv)'
  BY NextTypeInv, NextSlots
<1>3. SlotsInv => SlotsAgree
  BY DEF SlotsInv
<1> QED BY <1>1, <1>2, <1>3, PTL DEF Spec
-----------------------------------------------------------------------------
(* Requests that were received are not forgotten.                          *)

(***************************************************************************)
(* A complete request of c is left in input_ only while process_input is   *)
(* at it, the connection is to be removed, or resume_sync_input_ says that *)
(* the end of a wait must be followed up.                                  *)
(***************************************************************************)
Awake(c) ==
  /\ closing[c] => input[c] = << >>
  /\ finished[c] => closing[c]
  /\ sync_waiting(c) => resume[c]
  /\ Complete(input[c]) => resume[c] \/ c \in remove \/ (pc = "process" /\ c = Visited)

(* Nothing is asked of a connection that its own part of the state keeps. *)
LEMMA StaysAwake ==
  ASSUME NEW c \in Client, Awake(c), ~(pc = "process" /\ c = Visited),
         input'[c] = input[c], resume'[c] = resume[c], closing'[c] = closing[c],
         finished'[c] = finished[c], waiting'[c] \in {waiting[c], "none"},
         c \in remove => c \in remove'
  PROVE  Awake(c)'
  BY DEF Awake, sync_waiting, Complete

(* A turn of process_input goes round again, or the connection has failed. *)
LEMMA TurnEnds ==
  ASSUME RequestStep \/ SetupStep
  PROVE  pc = "process" /\ (Visited \in remove' \/ (pc' = "process" /\ Visited' = Visited))
<1>1. pc = "process"
  BY DEF RequestStep, Query, Oversize, Malformed, Notify, GrabServer, UngrabServer,
         KillClient, AwaitSuspends, AwaitSatisfied, SetCounter, TriggerFence,
         SetPriority, Request, SetupStep, SetupPrefix, SetupMalformed, SetupRefused,
         SetupAuthenticated, SetupPacket
<1> DEFINE Ends == Visited \in remove' \/ (pc' = "process" /\ Visited' = Visited)
<1>2. Fail => Ends
  BY DEF Fail, EndVisit
<1>3. UNCHANGED loopVars => Ends
  BY <1>1 DEF loopVars, Visited
<1>4. \A c, type : Answer(c, type) => Ends
  BY <1>2, <1>3 DEF Answer
<1>5. \A c : Silent(c) => Ends
  BY <1>3 DEF Silent
<1> HIDE DEF Ends
<1>6. Ends
  BY <1>2, <1>3, <1>4, <1>5
  DEF RequestStep, Query, Oversize, Malformed, Notify, GrabServer, UngrabServer,
      KillClient, AwaitSuspends, AwaitSatisfied, SetCounter, TriggerFence,
      SetPriority, SetupStep, SetupPrefix, SetupMalformed, SetupRefused,
      SetupAuthenticated
<1> QED BY <1>1, <1>6 DEF Ends

LEMMA VisitedStaysAwake ==
  ASSUME TypeOK, HasVisited, HandlerStep, NEW c \in Client, c = Visited, Awake(c)
  PROVE  Awake(c)'
<1>1. remove \subseteq remove'
  BY VisitMoves DEF Visiting
<1>2. /\ DOMAIN input = Client /\ DOMAIN resume = Client /\ DOMAIN closing = Client
      /\ DOMAIN finished = Client /\ DOMAIN waiting = Client
  BY DEF TypeOK, ConnTypeOK, SharedTypeOK
<1>3. CASE RequestStep \/ SetupStep
  <2>1. Visited \in remove' \/ (pc' = "process" /\ Visited' = Visited)
    BY <1>3, TurnEnds
  <2>2. ~closing[c] /\ ~finished[c]
    BY <1>3
    DEF RequestStep, Query, Oversize, Malformed, Notify, GrabServer, UngrabServer,
        KillClient, AwaitSuspends, AwaitSatisfied, SetCounter, TriggerFence,
        SetPriority, Request, SetupStep, SetupPrefix, SetupMalformed, SetupRefused,
        SetupAuthenticated, SetupPacket, Continues, HoldsInput
  <2>3. \/ closing'[c] = closing[c] /\ finished'[c] = finished[c]
        \/ closing'[c] /\ input'[c] = << >>
    <3>1. CASE SetupRefused \/ Oversize
      BY <1>2, <3>1 DEF SetupRefused, Oversize, close_after_output
    <3>2. CASE ~(SetupRefused \/ Oversize)
      BY <1>3, <3>2
      DEF RequestStep, Query, Malformed, Notify, GrabServer, UngrabServer,
          KillClient, AwaitSuspends, AwaitSatisfied, SetCounter, TriggerFence,
          SetPriority, SetupStep, SetupPrefix, SetupMalformed, SetupAuthenticated, connVars
    <3> QED BY <3>1, <3>2
  <2>4. sync_waiting(c)' => resume'[c]
    <3>1. CASE AwaitSuspends
      BY <1>2, <3>1 DEF AwaitSuspends
    <3>2. CASE ~AwaitSuspends
      BY <1>2, <1>3, <3>2
      DEF Awake, sync_waiting,
          RequestStep, Query, Oversize, Malformed, Notify, GrabServer, UngrabServer,
          KillClient, AwaitSatisfied, SetCounter, TriggerFence,
          SetPriority, SetupStep, SetupPrefix, SetupMalformed, SetupRefused,
          SetupAuthenticated, connVars, sharedVars
    <3> QED BY <3>1, <3>2
  <2> QED BY <2>1, <2>2, <2>3, <2>4 DEF Awake
<1>4. CASE ProcessReturn
  <2>1. Complete(input[c]) => resume[c]
    BY <1>4 DEF ProcessReturn, Continues, HoldsInput, Awake, Complete
  <2>2. UNCHANGED <<input, resume, closing, finished, waiting>>
    BY <1>4 DEF ProcessReturn
  <2> QED BY <2>1, <2>2 DEF Awake, sync_waiting
<1>5. CASE DrainOverflow
  <2>1. c \in remove'
    BY <1>5 DEF DrainOverflow, Fail, EndVisit
  <2> QED BY <1>5, <2>1 DEF DrainOverflow, Awake, sync_waiting
<1>6. CASE WritableStep
  <2>1. pc # "process" /\ UNCHANGED <<input, closing, waiting>>
    BY <1>6 DEF WritableStep, OnWritable, FlushDone, FlushWrite, FlushBlocked, FlushBroken,
                sharedVars
  <2>2. finished'[c] => closing[c]
    BY <1>2, <1>6
    DEF WritableStep, OnWritable, FlushDone, FlushWrite, FlushBlocked, FlushBroken, Awake
  <2>3. CASE resume'[c] = resume[c]
    BY <1>1, <2>1, <2>2, <2>3 DEF Awake, sync_waiting
  <2>4. CASE resume'[c] # resume[c]
    <3>1. OnWritable /\ ~sync_waiting(c) /\ pc' = "process" /\ order' = order
      BY <1>6, <2>4
      DEF WritableStep, OnWritable, FlushDone, FlushWrite, FlushBlocked, FlushBroken
    <3> QED BY <2>1, <2>2, <3>1 DEF Awake, sync_waiting, Visited
  <2> QED BY <2>3, <2>4
<1>7. CASE ReadableStep
  <2>1. pc # "process" /\ waiting' = waiting
    BY <1>7 DEF ReadableStep, ReadableHeld, Receive, ReceiveOverflow, ReadableDone,
                EndOfStream, BrokenStream, sharedVars
  <2>2. CASE Receive
    <3>1. ~closing[c] /\ UNCHANGED <<closing, finished>> /\ pc' = "process" /\ order' = order
      BY <2>2 DEF Receive, HoldsInput
    <3>2. sync_waiting(c) => resume'[c]
      BY <1>2, <2>2 DEF Receive, ResumeOnEntry, Awake
    <3> QED BY <2>1, <3>1, <3>2 DEF Awake, sync_waiting, Visited
  <2>3. CASE EndOfStream
    <3>1. input[c] = << >> /\ UNCHANGED <<input, resume>> /\ closing'[c]
      BY <1>2, <2>3 DEF EndOfStream, close_after_output
    <3> QED BY <2>1, <3>1 DEF Awake, sync_waiting, Complete
  <2>4. CASE ~Receive /\ ~EndOfStream
    <3>1. UNCHANGED <<input, resume, closing, finished>>
      BY <1>7, <2>4
      DEF ReadableStep, ReadableHeld, ReceiveOverflow, ReadableDone, BrokenStream, connVars
    <3> QED BY <1>1, <2>1, <3>1, StaysAwake
  <2> QED BY <2>2, <2>3, <2>4
<1> QED BY <1>3, <1>4, <1>5, <1>6, <1>7 DEF HandlerStep

AllAwake == \A c \in Client : Awake(c)

LEMMA NextAwake ==
  ASSUME TypeInv, AllAwake, [Next]_vars
  PROVE  AllAwake'
<1> SUFFICES ASSUME NEW c \in Client
             PROVE  Awake(c)'
  BY DEF AllAwake
<1>1. TypeOK /\ HasVisited /\ Awake(c)
  BY DEF TypeInv, AllAwake
<1>2. /\ DOMAIN input = Client /\ DOMAIN resume = Client /\ DOMAIN closing = Client
      /\ DOMAIN finished = Client /\ DOMAIN waiting = Client
  BY <1>1 DEF TypeOK, ConnTypeOK, SharedTypeOK
<1>3. CASE PeerStep \/ UNCHANGED vars
  <2>1. UNCHANGED <<input, resume, closing, finished, waiting, remove, pc, order>>
    BY <1>3 DEF PeerStep, PeerConnect, PeerSend, PeerSetup, PeerRead, PeerHangUp,
                connVars, sharedVars, loopVars, vars
  <2> QED BY <1>1, <2>1 DEF Awake, sync_waiting, Visited
<1>4. CASE HandlerStep /\ c = Visited
  BY <1>1, <1>4, VisitedStaysAwake
<1>5. CASE HandlerStep /\ c # Visited
  <2>1. remove \subseteq remove'
    BY <1>1, <1>5, VisitMoves DEF Visiting
  <2> QED BY <1>1, <1>5, <2>1, OtherConnection, OtherShared, StaysAwake
<1>6. CASE LoopStep /\ ~Reap
  <2>1. pc # "process" /\ UNCHANGED <<input, resume, closing, finished>>
    BY <1>6 DEF LoopStep, ProcessTimers, Poll, Accept, AcceptDropped, VisitHungUp,
                VisitIdle, VisitReady, connVars
  <2>2. remove \subseteq remove'
    BY <1>6 DEF LoopStep, ProcessTimers, Poll, Accept, AcceptDropped, VisitHungUp,
                VisitIdle, VisitReady, Goto, Fail, EndVisit, loopVars
  <2>3. waiting'[c] \in {waiting[c], "none"}
    BY <1>2, <1>6
    DEF LoopStep, ProcessTimers, Poll, Accept, AcceptDropped, VisitHungUp,
        VisitIdle, VisitReady, sharedVars
  <2> QED BY <1>1, <2>1, <2>2, <2>3, StaysAwake
<1>7. CASE Reap
  <2>1. PICK d \in Client :
          /\ disconnect_client(d)
          /\ remove' = remove \ {d}
          /\ input' = [input EXCEPT ![d] = << >>]
          /\ resume' = [resume EXCEPT ![d] = FALSE]
          /\ closing' = [closing EXCEPT ![d] = FALSE]
          /\ finished' = [finished EXCEPT ![d] = FALSE]
    BY <1>1, <1>7 DEF Reap, TypeOK, LoopTypeOK
  <2>2. waiting'[c] = "none" \/ (c # d /\ waiting'[c] = waiting[c])
    BY <2>1 DEF disconnect_client
  <2>3. CASE c = d
    BY <1>2, <2>1, <2>2, <2>3 DEF Awake, sync_waiting, Complete
  <2>4. CASE c # d
    <3>1. pc # "process"
      BY <1>7 DEF Reap
    <3>2. /\ input'[c] = input[c] /\ resume'[c] = resume[c] /\ closing'[c] = closing[c]
          /\ finished'[c] = finished[c]
      BY <2>1, <2>4
    <3>3. waiting'[c] \in {waiting[c], "none"} /\ (c \in remove => c \in remove')
      BY <2>1, <2>2, <2>4
    <3> QED BY <1>1, <3>1, <3>2, <3>3, StaysAwake
  <2> QED BY <2>3, <2>4
<1> QED BY <1>3, <1>4, <1>5, <1>6, <1>7 DEF Next, ServerStep, HandlerStep

(***************************************************************************)
(* No wake-up is lost: whenever Server::run polls, a connection with a     *)
(* complete request in input_ is suspended by a wait that will be followed *)
(* up, or is polled for output, which makes on_writable process it.        *)
(***************************************************************************)
THEOREM InputIsFollowedUp == Spec => []NoStrandedInput
<1> DEFINE Inv == TypeInv /\ SlotsInv /\ AllAwake
<1>1. Init => Inv
  <2>1. Init => AllAwake
    BY DEF Init, AllAwake, Awake, sync_waiting, Complete
  <2> QED BY <2>1, InitTypeInv DEF Init, TypeInv, SlotsInv, SlotsAgree, Phases, Range
<1>2. Inv /\ [Next]_vars => Inv'
  BY NextTypeInv, NextSlots, NextAwake
<1>3. Inv => NoStrandedInput
  <2> SUFFICES ASSUME Inv, pc \in {"timers", "poll"}, NEW c \in Client, Complete(input[c])
               PROVE  \/ sync_waiting(c) /\ resume[c]
                      \/ "out" \in PolledFor(c) /\ ~sync_waiting(c)
    BY DEF NoStrandedInput
  <2>1. Awake(c) /\ remove = {}
    BY DEF AllAwake, SlotsInv, Phases
  <2>2. resume[c] /\ input[c] # << >> /\ ~closing[c] /\ ~finished[c]
    BY <2>1 DEF Awake, Complete
  <2>3. ASSUME ~sync_waiting(c)
        PROVE  "out" \in poll_events(c)
    BY <2>2, <2>3 DEF poll_events
  <2>4. "out" \in poll_events(c) => "out" \in PolledFor(c)
    BY DEF PolledFor
  <2> QED BY <2>2, <2>3, <2>4
<1> QED BY <1>1, <1>2, <1>3, PTL DEF Spec
-----------------------------------------------------------------------------
(* The order on the wire.                                                  *)

(* After a message numbered w, those of s are in order and not ahead of n. *)
Sorted(w, s, n) ==
  /\ w <= n
  /\ \A i \in 1..Len(s) : w <= s[i].sequence /\ s[i].sequence <= n
  /\ \A i, j \in 1..Len(s) : i <= j => s[i].sequence <= s[j].sequence

LEMMA NumbersAreNat ==
  ASSUME NEW s \in Seq(Message)
  PROVE  \A i \in 1..Len(s) : s[i] \in Message /\ s[i].sequence \in Nat
<1>1. \A m \in Message : m.sequence \in Nat
  BY DEF Message
<1>2. \A i \in 1..Len(s) : s[i] \in Message
  OBVIOUS
<1> QED
  BY <1>1, <1>2

(* Draining: the queue follows the output. *)
LEMMA SortedDrain ==
  ASSUME NEW w \in Nat, NEW n \in Nat, NEW out \in Seq(Message),
         NEW q \in Seq(Event), InOrder(w, out, q, n)
  PROVE  Sorted(w, out \o q, n)
<1> DEFINE s == out \o q
<1>1. Len(s) = Len(out) + Len(q) /\ Len(out) \in Nat /\ Len(q) \in Nat
  OBVIOUS
<1>2. \A i \in 1..Len(s) :
        \/ i \in 1..Len(out) /\ s[i] = out[i]
        \/ i > Len(out) /\ i - Len(out) \in 1..Len(q) /\ s[i] = q[i - Len(out)]
  BY <1>1
<1> HIDE DEF s
<1>3. \A i \in 1..Len(s) : w <= s[i].sequence /\ s[i].sequence <= n
  BY <1>2 DEF InOrder
<1>4. ASSUME NEW i \in 1..Len(s), NEW j \in 1..Len(s), i <= j
      PROVE  s[i].sequence <= s[j].sequence
  <2>1. CASE j \in 1..Len(out) /\ s[j] = out[j]
    <3>1. i \in 1..Len(out) /\ s[i] = out[i]
      BY <1>1, <1>2, <1>4, <2>1
    <3> QED
      BY <1>4, <2>1, <3>1 DEF InOrder
  <2>2. CASE /\ j > Len(out) /\ j - Len(out) \in 1..Len(q) /\ s[j] = q[j - Len(out)]
             /\ i \in 1..Len(out) /\ s[i] = out[i]
    BY <2>2 DEF InOrder
  <2>3. CASE /\ j > Len(out) /\ j - Len(out) \in 1..Len(q) /\ s[j] = q[j - Len(out)]
             /\ i > Len(out) /\ i - Len(out) \in 1..Len(q) /\ s[i] = q[i - Len(out)]
    <3>1. i - Len(out) <= j - Len(out)
      BY <1>1, <1>4
    <3> QED
      BY <2>3, <3>1 DEF InOrder
  <2> QED
    BY <1>2, <2>1, <2>2, <2>3
<1> QED
  BY <1>3, <1>4 DEF Sorted, InOrder, s

(* Nothing queued: the output alone has to be in order. *)
LEMMA SortedOutput ==
  ASSUME NEW w \in Nat, NEW n \in Nat, NEW s \in Seq(Message), Sorted(w, s, n)
  PROVE  InOrder(w, s, << >>, n)
  BY DEF Sorted, InOrder

(* A message with the newest number may follow. *)
LEMMA SortedAppend ==
  ASSUME NEW w \in Nat, NEW n \in Nat, NEW s \in Seq(Message), Sorted(w, s, n),
         NEW m \in Message, n <= m.sequence
  PROVE  Sorted(w, Append(s, m), m.sequence)
<1> DEFINE t == Append(s, m)
<1>1. m.sequence \in Nat /\ \A i \in 1..Len(s) : s[i].sequence \in Nat
  BY NumbersAreNat DEF Message
<1>2. \A i \in 1..Len(t) : \/ i \in 1..Len(s) /\ t[i] = s[i]
                           \/ i = Len(s) + 1 /\ t[i] = m
  OBVIOUS
<1> HIDE DEF t
<1>3. w <= m.sequence
  BY <1>1 DEF Sorted
<1>4. \A i \in 1..Len(t) : w <= t[i].sequence /\ t[i].sequence <= m.sequence
  BY <1>1, <1>2, <1>3 DEF Sorted
<1>5. ASSUME NEW i \in 1..Len(t), NEW j \in 1..Len(t), i <= j
      PROVE  t[i].sequence <= t[j].sequence
  <2>1. CASE j = Len(s) + 1 /\ t[j] = m
    BY <1>4, <2>1
  <2>2. CASE j \in 1..Len(s) /\ t[j] = s[j]
    <3>1. i \in 1..Len(s) /\ t[i] = s[i]
      BY <1>2, <1>5, <2>2
    <3> QED
      BY <1>5, <2>2, <3>1 DEF Sorted
  <2> QED
    BY <1>2, <2>1, <2>2
<1> QED
  BY <1>3, <1>4, <1>5 DEF Sorted, t

(* The client's sequence number only grows. *)
LEMMA SortedRaise ==
  ASSUME NEW w \in Nat, NEW n \in Nat, NEW s \in Seq(Message), Sorted(w, s, n),
         NEW n2 \in Nat, n <= n2
  PROVE  Sorted(w, s, n2)
<1>1. \A i \in 1..Len(s) : s[i].sequence \in Nat
  BY NumbersAreNat
<1> QED
  BY <1>1 DEF Sorted

(* Writing the first message. *)
LEMMA SortedWrite ==
  ASSUME NEW w \in Nat, NEW n \in Nat, NEW s \in Seq(Message), Sorted(w, s, n),
         s # << >>
  PROVE  Sorted(Head(s).sequence, Tail(s), n)
<1>1. /\ Head(s) = s[1] /\ 1 \in 1..Len(s) /\ Len(Tail(s)) = Len(s) - 1
      /\ \A i \in 1..Len(Tail(s)) : i + 1 \in 1..Len(s) /\ Tail(s)[i] = s[i + 1]
  OBVIOUS
<1> QED
  BY <1>1 DEF Sorted

(* A drain that stops half way. *)
LEMMA SortedSplit ==
  ASSUME NEW w \in Nat, NEW n \in Nat, NEW s \in Seq(Message), Sorted(w, s, n),
         NEW k \in Nat, k < Len(s)
  PROVE  InOrder(w, SubSeq(s, 1, k), SubSeq(s, k + 1, Len(s)), n)
<1> DEFINE a == SubSeq(s, 1, k)
           b == SubSeq(s, k + 1, Len(s))
<1>1. /\ Len(a) = k /\ Len(b) = Len(s) - k
      /\ \A i \in 1..Len(a) : i \in 1..Len(s) /\ a[i] = s[i]
      /\ \A i \in 1..Len(b) : i + k \in 1..Len(s) /\ b[i] = s[i + k]
  OBVIOUS
<1> HIDE DEF a, b
<1>2. /\ w <= n
      /\ \A i \in 1..Len(a) : w <= a[i].sequence /\ a[i].sequence <= n
      /\ \A i \in 1..Len(b) : w <= b[i].sequence /\ b[i].sequence <= n
  BY <1>1 DEF Sorted
<1>3. \A i, j \in 1..Len(a) : i <= j => a[i].sequence <= a[j].sequence
  BY <1>1 DEF Sorted
<1>4. \A i, j \in 1..Len(b) : i <= j => b[i].sequence <= b[j].sequence
  BY <1>1, SMTT(40) DEF Sorted
<1>5. \A i \in 1..Len(a), j \in 1..Len(b) : a[i].sequence <= b[j].sequence
  BY <1>1, SMTT(40) DEF Sorted
<1> QED
  BY <1>2, <1>3, <1>4, <1>5 DEF InOrder, a, b

(* An event stamped with the client's number joins its queue. *)
LEMMA InOrderTold ==
  ASSUME NEW w \in Nat, NEW n \in Nat, NEW out \in Seq(Message),
         NEW q \in Seq(Event), InOrder(w, out, q, n), NEW e \in Event, e.sequence = n
  PROVE  InOrder(w, out, Append(q, e), n)
<1> DEFINE t == Append(q, e)
<1>1. \A i \in 1..Len(t) : \/ i \in 1..Len(q) /\ t[i] = q[i]
                           \/ i = Len(q) + 1 /\ t[i] = e
  OBVIOUS
<1> HIDE DEF t
<1>2. \A i \in 1..Len(t) : w <= t[i].sequence /\ t[i].sequence <= n
  BY <1>1 DEF InOrder
<1>3. \A i, j \in 1..Len(t) : i <= j => t[i].sequence <= t[j].sequence
  BY <1>1 DEF InOrder
<1>4. \A i \in 1..Len(out), j \in 1..Len(t) : out[i].sequence <= t[j].sequence
  BY <1>1 DEF InOrder
<1> QED
  BY <1>2, <1>3, <1>4 DEF InOrder, t

-----------------------------------------------------------------------------
(* The steps.                                                              *)

Ordered(c) == InOrder(written[c], output[c], queue[c], sequence[c])

(* The types of what Ordered speaks of. *)
LEMMA OrderedTypes ==
  ASSUME TypeOK, NEW c \in Client
  PROVE  /\ written[c] \in Nat /\ sequence[c] \in Nat
         /\ output[c] \in Seq(Message) /\ queue[c] \in Seq(Event)
         /\ Drained(c) \in Seq(Message)
  BY DrainedType DEF TypeOK, ConnTypeOK, SharedTypeOK

LEMMA OrderedDrain ==
  ASSUME TypeOK, NEW c \in Client, Ordered(c)
  PROVE  Sorted(written[c], Drained(c), sequence[c])
  BY OrderedTypes, SortedDrain DEF Ordered, Drained

(* The ways a step changes what Ordered(c) speaks of: a drain, a drain     *)
(* followed by a message, or followed by an event left in the queue, all   *)
(* with the number the client then has.                                    *)
Drains(c) ==
  /\ written'[c] = written[c] /\ sequence'[c] \in {sequence[c], sequence[c] + 1}
  /\ output'[c] = Drained(c) /\ queue'[c] = << >>

Answers(c) ==
  /\ written'[c] = written[c] /\ sequence'[c] \in {sequence[c], sequence[c] + 1}
  /\ \E m \in Message : m.sequence = sequence'[c] /\ output'[c] = Append(Drained(c), m)
  /\ queue'[c] = << >>

Tells(c) ==
  /\ written'[c] = written[c] /\ sequence'[c] \in {sequence[c], sequence[c] + 1}
  /\ output'[c] = Drained(c)
  /\ \E e \in Event : e.sequence = sequence'[c] /\ queue'[c] = <<e>>

LEMMA EffectsOrdered ==
  ASSUME TypeOK, NEW c \in Client, Ordered(c), Drains(c) \/ Answers(c) \/ Tells(c)
  PROVE  Ordered(c)'
<1> DEFINE w == written[c]
           s == Drained(c)
           n == sequence[c]
           n2 == sequence'[c]
<1>1. w \in Nat /\ n \in Nat /\ s \in Seq(Message) /\ Sorted(w, s, n)
  BY OrderedTypes, OrderedDrain
<1>2. n2 \in Nat /\ n <= n2 /\ written'[c] = w
  BY <1>1 DEF Drains, Answers, Tells
<1> HIDE DEF w, s, n, n2
<1>3. Sorted(w, s, n2)
  BY <1>1, <1>2, SortedRaise
<1>4. InOrder(w, s, << >>, n2)
  BY <1>1, <1>2, <1>3, SortedOutput
<1>5. CASE Drains(c)
  BY <1>2, <1>4, <1>5 DEF Ordered, Drains, s, n2
<1>6. CASE Answers(c)
  <2>1. PICK m \in Message : m.sequence = n2 /\ output'[c] = Append(s, m)
    BY <1>6 DEF Answers, s, n2
  <2>2. Sorted(w, Append(s, m), n2)
    BY <1>1, <1>2, <2>1, SortedAppend
  <2>3. Append(s, m) \in Seq(Message)
    BY <1>1
  <2>4. InOrder(w, Append(s, m), << >>, n2)
    BY <1>1, <1>2, <2>2, <2>3, SortedOutput
  <2> QED
    BY <1>2, <1>6, <2>1, <2>4 DEF Ordered, Answers, n2
<1>7. CASE Tells(c)
  <2>1. PICK e \in Event : e.sequence = n2 /\ queue'[c] = <<e>>
    BY <1>7 DEF Tells, n2
  <2>2. << >> \in Seq(Event) /\ Append(<< >>, e) = <<e>>
    OBVIOUS
  <2>3. InOrder(w, s, <<e>>, n2)
    BY <1>1, <1>2, <1>4, <2>1, <2>2, InOrderTold
  <2> QED
    BY <1>2, <1>7, <2>1, <2>3 DEF Ordered, Tells, s, n2
<1> QED
  BY <1>5, <1>6, <1>7

(* Steps that leave all of it alone, or only tell the client. *)
LEMMA SameOrdered ==
  ASSUME NEW c, Ordered(c), written'[c] = written[c], output'[c] = output[c],
         queue'[c] = queue[c], sequence'[c] = sequence[c]
  PROVE  Ordered(c)'
  BY DEF Ordered

LEMMA ToldOrdered ==
  ASSUME TypeOK, NEW c \in Client, Ordered(c), written'[c] = written[c],
         output'[c] = output[c], sequence'[c] = sequence[c], queue'[c] = Told(c)
  PROVE  Ordered(c)'
<1> DEFINE e == [type |-> "event", sequence |-> sequence[c]]
<1>1. e \in Event /\ e.sequence = sequence[c]
  BY OrderedTypes DEF Event
<1>2. queue'[c] = Append(queue[c], e)
  BY DEF Told
<1> HIDE DEF e
<1>3. InOrder(written[c], output[c], Append(queue[c], e), sequence[c])
  BY <1>1, OrderedTypes, InOrderTold DEF Ordered
<1> QED
  BY <1>2, <1>3 DEF Ordered

(* A connection the handler does not run for. *)
LEMMA OtherOrdered ==
  ASSUME TypeOK, HasVisited, HandlerStep, NEW d \in Client, d # Visited, Ordered(d)
  PROVE  Ordered(d)'
  BY OtherConnection, OtherShared, SameOrdered, ToldOrdered

(* Requests of c that tell a set of clients: the queue of c itself. *)
LEMMA DeliverToSelf ==
  ASSUME TypeOK, NEW c \in Client, NEW C, NEW n \in Nat
  PROVE  LET q == Deliver(QueueAfterDrain(c), PlanForAll(C, "event"),
                          [sequence EXCEPT ![c] = n])
         IN  IF c \in C THEN q[c] = <<[type |-> "event", sequence |-> n]>>
                        ELSE q[c] = << >>
<1> DEFINE rest == QueueAfterDrain(c)
           seq == [sequence EXCEPT ![c] = n]
<1>1. rest \in [Client -> Seq(Event)] /\ rest[c] = << >>
  <2>1. << >> \in Seq(Event) /\ queue \in [Client -> Seq(Event)]
    BY DEF TypeOK, SharedTypeOK
  <2> QED
    BY <2>1 DEF QueueAfterDrain
<1>2. seq \in [Client -> Nat] /\ seq[c] = n
  BY DEF TypeOK, ConnTypeOK
<1> HIDE DEF rest, seq
<1>3. rest \in [Client -> Seq(Event)]
  BY <1>1
<1>4. seq \in [Client -> Nat]
  BY <1>2
<1>5. CASE c \in C
  <2>1. Deliver(rest, PlanForAll(C, "event"), seq)[c]
          = Append(rest[c], [type |-> "event", sequence |-> seq[c]])
    BY <1>3, <1>4, <1>5, DeliverInside
  <2>2. Append(<< >>, [type |-> "event", sequence |-> n])
          = <<[type |-> "event", sequence |-> n]>>
    OBVIOUS
  <2> QED
    BY <1>1, <1>2, <1>5, <2>1, <2>2 DEF rest, seq
<1>6. CASE c \notin C
  <2>1. Deliver(rest, PlanForAll(C, "event"), seq)[c] = rest[c]
    BY <1>3, <1>4, <1>6, DeliverOutside
  <2> QED
    BY <1>1, <1>6, <2>1 DEF rest, seq
<1> QED
  BY <1>5, <1>6

(* What Emit makes of the output and the queue of the connection. *)
LEMMA EmitDrains ==
  ASSUME TypeOK, NEW c \in Client
  PROVE  /\ Emit(c, << >>) => output'[c] = Drained(c) /\ queue'[c] = << >>
         /\ \A m \in Message : Emit(c, <<m>>) =>
              output'[c] = Append(Drained(c), m) /\ queue'[c] = << >>
<1>1. output \in [Client -> Seq(Message)] /\ queue \in [Client -> Seq(Event)]
  BY DEF TypeOK, ConnTypeOK, SharedTypeOK
<1> HIDE DEF TypeOK
<1>2. Drained(c) \in Seq(Message)
  BY OrderedTypes
<1>3. /\ Drained(c) \o << >> = Drained(c)
      /\ \A m \in Message : Drained(c) \o <<m>> = Append(Drained(c), m)
  BY <1>2
<1> QED
  BY <1>1, <1>3 DEF Emit

(* The requests. *)
LEMMA RequestEffects ==
  ASSUME TypeOK, RequestStep, NEW c \in Client, c = Visited
  PROVE  Drains(c) \/ Answers(c) \/ Tells(c)
<1> DEFINE n == sequence[c] + 1
           e == [type |-> "event", sequence |-> n]
<1>1. sequence' = [sequence EXCEPT ![c] = n] /\ written' = written
  BY DEF RequestStep, Query, Oversize, Malformed, Notify, GrabServer, UngrabServer,
         KillClient, AwaitSuspends, AwaitSatisfied, SetCounter, TriggerFence,
         SetPriority, Consume, Number
<1>2. sequence \in [Client -> Nat] /\ n \in Nat /\ sequence'[c] = n
  BY <1>1 DEF TypeOK, ConnTypeOK
<1>3. \A type \in {"reply", "error", "event"} : [type |-> type, sequence |-> n] \in Message
  BY <1>2 DEF Message
<1>4. e \in Event /\ e.sequence = n
  BY <1>2 DEF Event
<1>5. Emit(c, << >>) => Drains(c)
  BY <1>1, <1>2, EmitDrains DEF Drains
<1>6. ASSUME NEW type \in {"reply", "error", "event"}, Answer(c, type)
      PROVE  Drains(c) \/ Answers(c)
  <2> DEFINE m == [type |-> type, sequence |-> n]
  <2>1. m \in Message /\ m.sequence = n
    BY <1>3
  <2>2. CASE Emit(c, << >>)
    BY <1>5, <2>2
  <2>3. CASE Emit(c, <<m>>)
    <3> HIDE DEF m
    <3> QED
      BY <1>1, <1>2, <2>1, <2>3, EmitDrains DEF Answers
  <2> QED
    BY <1>6, <2>2, <2>3 DEF Answer, Number
<1>7. Silent(c) => Drains(c)
  BY <1>5 DEF Silent
<1>8. ASSUME NEW C, NEW q, q = Deliver(QueueAfterDrain(c), PlanForAll(C, "event"), sequence')
      PROVE  q[c] = <<e>> \/ q[c] = << >>
  <2>1. q = Deliver(QueueAfterDrain(c), PlanForAll(C, "event"), [sequence EXCEPT ![c] = n])
    BY <1>1, <1>8
  <2>2. n \in Nat
    BY <1>2
  <2> HIDE DEF n
  <2>3. IF c \in C THEN q[c] = <<[type |-> "event", sequence |-> n]>> ELSE q[c] = << >>
    BY <2>1, <2>2, DeliverToSelf
  <2> QED
    BY <2>3
<1>9. CASE Notify
  <2>1. CASE Answer(c, "error")
    BY <1>6, <2>1
  <2>2. CASE /\ output' = [output EXCEPT ![c] = Drained(c)]
             /\ queue' = Deliver(QueueAfterDrain(c),
                                 PlanForAll({FirstPacket(input[c]).to} \cap registered,
                                            "event"), sequence')
    <3>1. output'[c] = Drained(c)
      BY <2>2 DEF TypeOK, ConnTypeOK
    <3>2. queue'[c] = <<e>> \/ queue'[c] = << >>
      BY <1>8, <2>2
    <3> HIDE DEF e
    <3> QED
      BY <1>1, <1>2, <1>4, <3>1, <3>2 DEF Drains, Tells
  <2> QED
    BY <1>9, <2>1, <2>2 DEF Notify
<1>10. CASE SetCounter
  <2>1. CASE Answer(c, "error")
    BY <1>6, <2>1
  <2>2. CASE ~Answer(c, "error")
    <3>1. PICK C \in SUBSET registered :
            LET q == Deliver(QueueAfterDrain(c), PlanForAll(C, "event"), sequence')
            IN  \/ /\ output' = [output EXCEPT ![c] = Drained(c) \o q[c]]
                   /\ queue' = [q EXCEPT ![c] = << >>]
                \/ /\ output' = [output EXCEPT ![c] = Drained(c)]
                   /\ queue' = q
      BY <1>10, <2>2 DEF SetCounter
    <3> DEFINE q == Deliver(QueueAfterDrain(c), PlanForAll(C, "event"), sequence')
    <3>2. q[c] = <<e>> \/ q[c] = << >>
      BY <1>8
    <3>3. [q EXCEPT ![c] = << >>][c] = << >>
      BY DEF Deliver
    <3>4. output \in [Client -> Seq(Message)]
      BY DEF TypeOK, ConnTypeOK
    <3> HIDE DEF q
    <3>5. Drained(c) \in Seq(Message) /\ e \in Message
      BY <1>3, OrderedTypes
    <3> HIDE DEF e
    <3>6. Drained(c) \o << >> = Drained(c) /\ Drained(c) \o <<e>> = Append(Drained(c), e)
      BY <3>5
    <3>7. CASE /\ output' = [output EXCEPT ![c] = Drained(c) \o q[c]]
               /\ queue' = [q EXCEPT ![c] = << >>]
      BY <1>1, <1>2, <1>4, <3>2, <3>3, <3>4, <3>5, <3>6, <3>7 DEF Drains, Answers
    <3>8. CASE /\ output' = [output EXCEPT ![c] = Drained(c)]
               /\ queue' = q
      BY <1>1, <1>2, <1>4, <3>2, <3>4, <3>8 DEF Drains, Tells
    <3> QED
      BY <3>1, <3>7, <3>8 DEF q
  <2> QED
    BY <2>1, <2>2
<1>11. CASE ~Notify /\ ~SetCounter
  BY <1>5, <1>6, <1>7, <1>11
  DEF RequestStep, Query, Oversize, Malformed, GrabServer, UngrabServer,
      KillClient, AwaitSuspends, AwaitSatisfied, TriggerFence, SetPriority
<1> QED
  BY <1>9, <1>10, <1>11

(* The connection the handler runs for. *)
LEMMA VisitedOrdered ==
  ASSUME TypeInv, AllUnauthenticated, HandlerStep, NEW c \in Client, c = Visited, Ordered(c)
  PROVE  Ordered(c)'
<1>1. TypeOK
  BY DEF TypeInv
<1>2. /\ written \in [Client -> Nat] /\ sequence \in [Client -> Nat]
      /\ output \in [Client -> Seq(Message)] /\ queue \in [Client -> Seq(Event)]
  BY <1>1 DEF TypeOK, ConnTypeOK, SharedTypeOK
<1>3. Drained(c) \in Seq(Message) /\ Sorted(written[c], Drained(c), sequence[c])
  BY <1>1, OrderedTypes, OrderedDrain
<1>4. CASE DrainOverflow
  <2>1. MaxOutput \in Nat /\ MaxOutput < Len(Drained(c)) 
    BY <1>3, <1>4, ServerAssumption DEF DrainOverflow, DrainFits
  <2>2. /\ output'[c] = SubSeq(Drained(c), 1, MaxOutput)
        /\ queue'[c] = SubSeq(Drained(c), MaxOutput + 1, Len(Drained(c)))
        /\ written'[c] = written[c] /\ sequence'[c] = sequence[c]
    BY <1>2, <1>4 DEF DrainOverflow
  <2>3. written[c] \in Nat /\ sequence[c] \in Nat
    BY <1>2
  <2>4. InOrder(written[c], SubSeq(Drained(c), 1, MaxOutput),
                SubSeq(Drained(c), MaxOutput + 1, Len(Drained(c))), sequence[c])
    BY <1>3, <2>1, <2>3, SortedSplit
  <2> QED
    BY <2>2, <2>4 DEF Ordered
<1>5. CASE OnWritable \/ FlushBlocked \/ FlushBroken
  <2>1. Emit(c, << >>) /\ written' = written /\ sequence' = sequence
    BY <1>5 DEF OnWritable, FlushBlocked, FlushBroken
  <2> QED
    BY <1>1, <2>1, EmitDrains, EffectsOrdered DEF Drains
<1>6. CASE FlushWrite
  <2> DEFINE s == Drained(c)
  <2>1. /\ s # << >> /\ output'[c] = Tail(s) /\ queue'[c] = << >>
        /\ written'[c] = Head(s).sequence /\ sequence'[c] = sequence[c]
    BY <1>2, <1>6 DEF FlushWrite
  <2>2. /\ written[c] \in Nat /\ sequence[c] \in Nat /\ s \in Seq(Message)
        /\ Sorted(written[c], s, sequence[c])
    BY <1>2, <1>3
  <2> HIDE DEF s
  <2>3. Sorted(Head(s).sequence, Tail(s), sequence[c])
    BY <2>1, <2>2, SortedWrite
  <2>4. Head(s).sequence \in Nat /\ Tail(s) \in Seq(Message)
    <3>1. Head(s) = s[1] /\ 1 \in 1..Len(s) /\ Tail(s) \in Seq(Message)
      BY <2>1, <2>2
    <3> QED
      BY <2>2, <3>1, NumbersAreNat
  <2>5. InOrder(Head(s).sequence, Tail(s), << >>, sequence[c])
    BY <2>2, <2>3, <2>4, SortedOutput
  <2> QED
    BY <2>1, <2>5 DEF Ordered
<1>7. CASE FlushDone \/ ReadableStep \/ SetupPrefix \/ SetupMalformed
  <2>1. UNCHANGED <<written, output, sequence, queue>>
    BY <1>7
    DEF FlushDone, ReadableStep, ReadableHeld, Receive, ReceiveOverflow, ReadableDone,
        EndOfStream, BrokenStream, SetupPrefix, SetupMalformed, connVars, sharedVars
  <2> QED
    BY <2>1, SameOrdered
<1>8. CASE ProcessReturn
  <2>1. UNCHANGED <<written, sequence>> /\ (Emit(c, << >>) \/ UNCHANGED <<output, queue>>)
    BY <1>8 DEF ProcessReturn
  <2>2. CASE Emit(c, << >>)
    BY <1>1, <2>1, <2>2, EmitDrains, EffectsOrdered DEF Drains
  <2>3. CASE UNCHANGED <<output, queue>>
    BY <2>1, <2>3, SameOrdered
  <2> QED
    BY <2>1, <2>2, <2>3
<1>9. CASE SetupRefused \/ SetupAuthenticated
  <2>1. state[c] # "requests" /\ ~closing[c] /\ UNCHANGED <<written, sequence, queue>>
    BY <1>9 DEF SetupRefused, SetupAuthenticated, SetupPacket, Continues, HoldsInput,
                sharedVars
  <2>2. output[c] = << >> /\ queue[c] = << >> /\ sequence[c] = 0
    BY <2>1 DEF AllUnauthenticated, Unauthenticated, Clean, Gated
  <2>3. \/ UNCHANGED output
        \/ \E m \in Message : m.sequence = 0 /\ output'[c] = Append(output[c], m)
    <3>1. /\ [type |-> "refused", sequence |-> 0] \in Message
          /\ [type |-> "setup", sequence |-> 0] \in Message
      BY DEF Message
    <3>2. \/ UNCHANGED output
          \/ output'[c] = Append(output[c], [type |-> "refused", sequence |-> 0])
          \/ output'[c] = Append(output[c], [type |-> "setup", sequence |-> 0])
      BY <1>2, <1>9 DEF SetupRefused, SetupAuthenticated
    <3> QED
      BY <3>1, <3>2
  <2>4. CASE UNCHANGED output
    BY <2>1, <2>4, SameOrdered
  <2>5. CASE \E m \in Message : m.sequence = 0 /\ output'[c] = Append(output[c], m)
    <3>1. Drained(c) = output[c]
      BY <1>1, <2>2, NothingToDrain
    <3>2. Answers(c)
      BY <2>1, <2>2, <2>5, <3>1 DEF Answers
    <3> QED
      BY <1>1, <3>2, EffectsOrdered
  <2> QED
    BY <2>3, <2>4, <2>5
<1>10. CASE RequestStep
  BY <1>1, <1>10, RequestEffects, EffectsOrdered
<1> QED
  BY <1>4, <1>5, <1>6, <1>7, <1>8, <1>9, <1>10
  DEF HandlerStep, WritableStep, SetupStep

(* The loop around the connections. *)
LEMMA LoopOrdered ==
  ASSUME TypeOK, LoopStep, NEW d \in Client, Ordered(d)
  PROVE  Ordered(d)'
<1>1. queue \in [Client -> Seq(Event)]
  BY DEF TypeOK, SharedTypeOK
<1>2. sequence \in [Client -> Nat]
  BY DEF TypeOK, ConnTypeOK
<1>3. CASE ProcessTimers
  <2>1. UNCHANGED <<written, output, sequence>>
    BY <1>3 DEF ProcessTimers, connVars
  <2>2. PICK C \in SUBSET registered :
          \/ UNCHANGED queue
          \/ queue' = Deliver(queue, PlanForAll(C, "event"), sequence)
    BY <1>3 DEF ProcessTimers
  <2>3. CASE queue' = Deliver(queue, PlanForAll(C, "event"), sequence)
    <3>1. queue'[d] = queue[d] \/ queue'[d] = Told(d)
      BY <1>1, <1>2, <2>3, DeliverInside, DeliverOutside DEF Told
    <3> QED
      BY <2>1, <3>1, SameOrdered, ToldOrdered
  <2> QED
    BY <2>1, <2>2, <2>3, SameOrdered
<1>4. CASE LoopStep /\ ~ProcessTimers /\ ~Reap
  <2>1. UNCHANGED <<written, output, sequence, queue>>
    BY <1>4
    DEF LoopStep, Poll, Accept, AcceptDropped, VisitHungUp, VisitIdle, VisitReady,
        connVars, sharedVars
  <2> QED
    BY <2>1, SameOrdered
<1>5. CASE Reap
  <2>1. PICK c \in Client :
          /\ disconnect_client(c)
          /\ output' = [output EXCEPT ![c] = << >>]
          /\ written' = [written EXCEPT ![c] = 0]
          /\ sequence' = [sequence EXCEPT ![c] = 0]
    BY <1>5 DEF Reap, TypeOK, LoopTypeOK
  <2>2. PICK C \in SUBSET (registered \ {c}) :
          \/ queue' = QueueAfterDrain(c)
          \/ queue' = Deliver(QueueAfterDrain(c), PlanForAll(C, "event"), sequence)
    BY <2>1 DEF disconnect_client
  <2>3. [sequence EXCEPT ![c] = sequence[c]] = sequence /\ sequence[c] \in Nat
    BY <1>2
  <2>4. CASE d = c
    <3>1. c \notin C
      OBVIOUS
    <3>2. QueueAfterDrain(c)[c] = << >>
      BY <1>1 DEF QueueAfterDrain
    <3>3. queue'[c] = << >>
      BY <2>2, <3>1, <3>2, NotARecipientAfterDrain
    <3>4. output'[c] = << >> /\ written'[c] = 0 /\ sequence'[c] = 0
      BY <2>1 DEF TypeOK, ConnTypeOK
    <3> QED
      BY <2>4, <3>3, <3>4 DEF Ordered, InOrder
  <2>5. CASE d # c
    <3>1. UNCHANGED <<output[d], written[d], sequence[d]>>
      BY <2>1, <2>5 DEF TypeOK, ConnTypeOK
    <3>2. QueueAfterDrain(c)[d] = queue[d]
      BY <1>1, <2>5 DEF QueueAfterDrain
    <3>3. LET q == Deliver(QueueAfterDrain(c), PlanForAll(C, "event"), sequence)
          IN  q[d] = Told(d) \/ q[d] = queue[d]
      BY <2>3, <2>5, DeliverToOther
    <3>4. queue'[d] = Told(d) \/ queue'[d] = queue[d]
      BY <2>2, <3>2, <3>3
    <3> QED
      BY <3>1, <3>4, SameOrdered, ToldOrdered
  <2> QED
    BY <2>4, <2>5
<1> QED
  BY <1>3, <1>4, <1>5

(***************************************************************************)
(* What a client reads from the server never goes back to an earlier       *)
(* request: written messages, output_ and event queue are in order.        *)
(***************************************************************************)
THEOREM WireIsOrdered == Spec => []WireOrder
<1> DEFINE Inv == TypeInv /\ AllUnauthenticated /\ WireOrder
<1>1. Init => Inv
  <2>1. Init => WireOrder
    BY DEF Init, WireOrder, InOrder
  <2>2. Init => AllUnauthenticated
    BY LimitsAssumption
    DEF Init, AllUnauthenticated, Unauthenticated, Clean, Gated, NoClient
  <2> QED
    BY <2>1, <2>2, InitTypeInv
<1>2. Inv /\ [Next]_vars => Inv'
  <2> SUFFICES ASSUME Inv, [Next]_vars
               PROVE  WireOrder'
    BY NextTypeInv, NextUnauthenticated
  <2> SUFFICES ASSUME NEW d \in Client
               PROVE  Ordered(d)'
    BY DEF WireOrder, Ordered
  <2>1. TypeOK /\ HasVisited /\ Ordered(d)
    BY DEF TypeInv, WireOrder, Ordered
  <2>2. CASE PeerStep \/ UNCHANGED vars
    <3>1. UNCHANGED <<written, output, sequence, queue>>
      BY <2>2 DEF PeerStep, PeerConnect, PeerSend, PeerSetup, PeerRead, PeerHangUp,
                  vars, connVars, sharedVars
    <3> QED
      BY <2>1, <3>1, SameOrdered
  <2>3. CASE LoopStep
    BY <2>1, <2>3, LoopOrdered
  <2>4. CASE HandlerStep
    <3>1. CASE d = Visited
      BY <2>1, <2>4, <3>1, VisitedOrdered
    <3>2. CASE d # Visited
      BY <2>1, <2>4, <3>2, OtherOrdered
    <3> QED
      BY <3>1, <3>2
  <2> QED
    BY <2>2, <2>3, <2>4 DEF Next, ServerStep, HandlerStep
<1> QED
  BY <1>1, <1>2, PTL DEF Spec
=============================================================================
