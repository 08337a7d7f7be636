---------------------- MODULE ClientConnection_proofs ----------------------
(***************************************************************************)
(* Proof that no answer of the server is lost and that the application is  *)
(* told the truth, for any number of threads, requests and events and any  *)
(* Modulus.                                                                *)
(*                                                                         *)
(* The proof looks at a step through what it does to a part of the state:  *)
(* to the requests and those who send them (Kinds), to the packets on the  *)
(* wire (Views), to the tables and results (EveryEffect), to the calls and *)
(* cookies (CallViews), to the places of the threads (EveryPlace).  The    *)
(* parts of the invariant follow from these views.                         *)
(***************************************************************************)
EXTENDS ClientConnection, SequenceTheorems, TLAPS

(***************************************************************************)
(* Arithmetic: what the widening of sequence numbers computes.             *)
(***************************************************************************)
LEMMA Division ==
  ASSUME NEW n \in Nat
  PROVE  /\ n = Modulus * (n \div Modulus) + (n % Modulus)
         /\ n \div Modulus \in Nat /\ n % Modulus \in 0..(Modulus - 1)
BY ClientAssumption, SMT

(* Two numbers less than Modulus apart lie in the same multiple of it or in
   neighbouring ones. *)
LEMMA Neighbours ==
  ASSUME NEW q \in Nat, NEW r \in Nat, NEW d \in Nat, NEW e \in Nat, d < Modulus, e < Modulus,
         q * Modulus + d >= r * Modulus + e, (q * Modulus + d) - (r * Modulus + e) < Modulus
  PROVE  q = r \/ q = r + 1
BY ClientAssumption, SMT

(* A number that the last one sent is not Modulus ahead of is recognised by
   its remainder. *)
LEMMA Widened ==
  ASSUME sequence \in Nat, NEW s \in Nat, s <= sequence, sequence - s < Modulus
  PROVE  widen_sequence(s % Modulus) = s
<1> DEFINE q == sequence \div Modulus
           d == sequence % Modulus
           r == s \div Modulus
           e == s % Modulus
<1>1. /\ sequence = q * Modulus + d /\ s = r * Modulus + e
      /\ q \in Nat /\ r \in Nat /\ d \in 0..(Modulus - 1) /\ e \in 0..(Modulus - 1)
  BY ClientAssumption, Division
<1>2. widen_sequence(s % Modulus) =
        IF q * Modulus + e > sequence THEN (q * Modulus + e) - Modulus ELSE q * Modulus + e
  BY DEF widen_sequence
<1> HIDE DEF q, d, r, e
<1>3. q = r \/ q = r + 1
  BY ClientAssumption, <1>1, Neighbours
<1>4. CASE q = r
  BY ClientAssumption, <1>1, <1>2, <1>4
<1>5. CASE q = r + 1
  <2>1. q * Modulus = r * Modulus + Modulus
    BY ClientAssumption, <1>1, <1>5
  <2> DEFINE k == r * Modulus
  <2>2. k \in Nat
    BY ClientAssumption, <1>1
  <2>3. q * Modulus = k + Modulus /\ s = k + e /\ sequence = k + Modulus + d
    BY <1>1, <2>1
  <2> HIDE DEF k
  <2> QED BY ClientAssumption, <1>1, <1>2, <2>2, <2>3
<1> QED BY <1>3, <1>4, <1>5
-----------------------------------------------------------------------------
(* Sequences.                                                              *)

(* What Append makes of a sequence. *)
LEMMA Appended ==
  ASSUME NEW S, NEW q \in Seq(S), NEW e \in S
  PROVE  /\ Append(q, e) \in Seq(S) /\ Len(Append(q, e)) = Len(q) + 1
         /\ Len(q) \in Nat /\ DOMAIN q = 1..Len(q)
         /\ DOMAIN Append(q, e) = 1..(Len(q) + 1)
         /\ \A i \in DOMAIN q : Append(q, e)[i] = q[i]
         /\ Append(q, e)[Len(q) + 1] = e
<1>1. Append(q, e) \in Seq(S)
  BY AppendProperties
<1>2. DOMAIN q = 1..Len(q) /\ DOMAIN Append(q, e) = 1..Len(Append(q, e))
  BY <1>1, LenProperties
<1> QED BY <1>1, <1>2, AppendProperties, LenProperties

(* What Head and Tail make of a sequence. *)
LEMMA Popped ==
  ASSUME NEW S, NEW q \in Seq(S), q # <<>>
  PROVE  /\ Len(q) \in Nat \ {0} /\ DOMAIN q = 1..Len(q) /\ Head(q) = q[1] /\ q[1] \in S
         /\ Tail(q) \in Seq(S) /\ Len(Tail(q)) = Len(q) - 1
         /\ DOMAIN Tail(q) = 1..(Len(q) - 1)
         /\ \A i \in 1..(Len(q) - 1) : Tail(q)[i] = q[i + 1]
<1>1. Tail(q) \in Seq(S) /\ Len(Tail(q)) = Len(q) - 1
  BY HeadTailProperties
<1>2. DOMAIN q = 1..Len(q) /\ DOMAIN Tail(q) = 1..Len(Tail(q)) /\ Len(q) \in Nat \ {0}
  BY <1>1, LenProperties, EmptySeq
<1>3. Head(q) = q[1] /\ q[1] \in S
  BY <1>2, ElementOfSeq
<1> QED BY <1>1, <1>2, <1>3, HeadTailProperties

(* A function on 1..n is the list of its values. *)
LEMMA ListOf ==
  ASSUME NEW S, NEW n \in Nat, NEW f \in [1..n -> S]
  PROVE  f \in Seq(S) /\ Len(f) = n
<1>1. f \in Seq(S)
  BY SeqDef
<1> QED BY <1>1, LenProperties

(* One more answer leaves those before it alone. *)
LEMMA AnswersGrow ==
  ASSUME NEW S, NEW n \in Nat, NEW f \in [1..n -> S], NEW e \in S
  PROVE  /\ Append(f, e) \in [1..(n + 1) -> S] /\ Append(f, e)[n + 1] = e
         /\ \A i \in 1..n : Append(f, e)[i] = f[i]
<1>1. f \in Seq(S) /\ Len(f) = n
  BY ListOf
<1>2. Append(f, e) \in Seq(S) /\ Len(Append(f, e)) = n + 1
  BY <1>1, Appended
<1>3. Append(f, e) \in [1..(n + 1) -> S]
  BY <1>2, LenProperties
<1> QED BY <1>1, <1>3, Appended
-----------------------------------------------------------------------------
(* The inductive invariant.                                                *)

SentRecord == [seq : Number, kind : Kind \cup {"sync", "cut"}]

(* t has taken a number and has not written its request. *)
Begun(t) == pc[t] \in {"register", "write"}

(***************************************************************************)
(* The requests on their way to the server have consecutive numbers, from  *)
(* the one after the last request it handled to the last one taken; the    *)
(* one that was taken and is not written is the last.  Once a write failed *)
(* although the server was there, the server is behind.                    *)
(***************************************************************************)
Numbered ==
  /\ served + Len(toServer) <= sequence
  /\ \A i \in DOMAIN toServer : toServer[i].seq = served + i
  /\ broken => toServer = <<>>
  /\ \A t \in Thread : Begun(t) =>
       /\ call[t].seq = sequence /\ served + Len(toServer) < sequence
       /\ ~broken /\ ~skipped => served + Len(toServer) + 1 = sequence
  /\ ~broken /\ ~skipped /\ (\A t \in Thread : ~Begun(t)) => served + Len(toServer) = sequence
  /\ \A t \in Thread : pc[t] = "undo" => broken \/ skipped
  /\ \A t, u \in Thread : pc[t] \in Sending /\ pc[u] \in Sending => t = u

IsAnswer(p) == p.type # "event"
TrueOf(p) == p.seq <= served /\ (IsAnswer(p) => p.seq \in 1..served /\ answers[p.seq] = p.type)

(***************************************************************************)
(* What the server has written is true, within Modulus of the last request *)
(* sent, and its answers come in the order of the requests.                *)
(***************************************************************************)
InFlight ==
  /\ sequence - served < Modulus
  /\ \A i \in DOMAIN toClient :
       sequence - toClient[i].seq < Modulus /\ TrueOf(toClient[i])
  /\ reader = "queue" => TrueOf(packet)
  /\ \A i, j \in DOMAIN toClient :
       i < j /\ IsAnswer(toClient[i]) /\ IsAnswer(toClient[j]) => toClient[i].seq < toClient[j].seq
  /\ reader = "queue" /\ IsAnswer(packet) =>
       \A i \in DOMAIN toClient : IsAnswer(toClient[i]) => packet.seq < toClient[i].seq

(* The answers up to the one to s have all reached the tables. *)
Passed(s) ==
  /\ s <= served
  /\ \A i \in DOMAIN toClient : IsAnswer(toClient[i]) => s < toClient[i].seq
  /\ reader = "queue" /\ IsAnswer(packet) => s < packet.seq

Kept(s, answer) == s \in 1..served /\ answers[s] = answer /\ Passed(s)

(* What is kept in the tables and among the events is what was answered. *)
KeptTrue ==
  /\ \A s \in errors : Kept(s, "error")
  /\ \A s \in replies : Kept(s, "reply")
  /\ \A i \in DOMAIN events : events[i].type = "error" => Kept(events[i].seq, "error")
  /\ \A t \in Thread : pc[t] = "push_error" => Kept(call[t].seq, "error")

(* A number whose request was written, or given up. *)
Given(s) == s \in 1..sequence /\ \A u \in Thread : Begun(u) => s # sequence

(* A reply is thrown away only if the application said so. *)
Discards ==
  /\ \A s \in discarded :
       s \in 1..sequence /\ (s <= served + Len(toServer) => s \in DOMAIN results)
  /\ \A t \in Thread :
       /\ pc[t] = "register" => sequence \notin discarded
       /\ pc[t] = "write" /\ sequence \in discarded => call[t].kind = "discard"

Waiting(t) == pc[t] \in {"check_reply", "block_reply", "await_reply", "push_error"}
Checking(t) == call[t].kind = "sync"

(* What a call is about was sent before. *)
Calls ==
  \A t \in Thread :
    /\ pc[t] \in {"idle", "check_event", "block_event", "await_event"} => call[t] = NoCall
    /\ pc[t] = "look_up" => Checking(t)
    /\ pc[t] = "send" => ~Checking(t)
    /\ Checking(t) => call[t].target < call[t].seq /\ Given(call[t].target)
    /\ Waiting(t) => Given(call[t].seq)
    /\ \A c \in cookies[t] : Given(c[1])

(* A cookie has one owner, and no two calls are about one request. *)
OneOwner ==
  \A t, u \in Thread : \A c \in cookies[t], d \in cookies[u] : c[1] = d[1] => t = u /\ c = d
CookiesKept ==
  \A t, u \in Thread : \A c \in cookies[t] : /\ Waiting(u) => c[1] # call[u].seq
                                             /\ Checking(u) => c[1] # call[u].target
CallsApart ==
  \A t, u \in Thread :
    /\ Waiting(t) /\ Checking(u) => call[t].seq # call[u].target
    /\ Checking(t) /\ Checking(u) /\ t # u => call[t].target # call[u].target
Owned == OneOwner /\ CookiesKept /\ CallsApart

(* A checked request is known as such until it was looked up: an error it
   got is on its way to errors_ or there. *)
Followed(s) ==
  /\ s \in checked
  /\ \A i \in DOMAIN toServer : toServer[i].seq = s => toServer[i].kind = "checked"
  /\ s <= served => /\ answers[s] \in {"nothing", "error"}
                    /\ answers[s] = "error" => InTransit("error", s) \/ s \in errors

(***************************************************************************)
(* After the round trip of request_check the answers to all requests       *)
(* before it have arrived.                                                 *)
(***************************************************************************)
ChecksFollowed ==
  \A t \in Thread :
    /\ \A c \in cookies[t] : c[2] = "checked" => Followed(c[1])
    /\ Checking(t) => Followed(call[t].target)
    /\ pc[t] = "write" /\ call[t].kind = "checked" => sequence \in checked
    /\ pc[t] = "look_up" => failed \/ Passed(call[t].seq)

(* These two hold as long as the numbers of both sides agree. *)
Agreed == skipped \/ (Discards /\ ChecksFollowed)

IInv ==
  /\ TypeOK /\ Numbered /\ InFlight /\ KeptTrue /\ Calls /\ Owned /\ Agreed
  /\ NoAnswerLost /\ AnswersMatch
-----------------------------------------------------------------------------
(* Types.                                                                  *)

(* notify_all moves the threads that wait, and no other. *)
LEMMA WokenPlaces ==
  ASSUME NEW p \in [Thread -> Place]
  PROVE  /\ Woken(p) \in [Thread -> Place]
         /\ \A t \in Thread : \/ Woken(p)[t] = p[t]
                              \/ p[t] = "await_reply" /\ Woken(p)[t] = "check_reply"
                              \/ p[t] = "await_event" /\ Woken(p)[t] = "check_event"
BY DEF Woken, Place

(* The packet that is read is the packet that was sent. *)
LEMMA ReadsHead ==
  ASSUME TypeOK, InFlight, read_packet
  PROVE  packet' = toClient[1] /\ packet' \in Packet
<1>1. toClient # <<>> /\ toClient \in Seq(Packet) /\ sequence \in Nat
  BY DEF read_packet, TypeOK
<1>2. Head(toClient) = toClient[1] /\ toClient[1] \in Packet /\ 1 \in DOMAIN toClient
  BY <1>1, Popped
<1>3. toClient[1].seq \in Nat /\ toClient[1].seq <= sequence /\ sequence - toClient[1].seq < Modulus
  BY <1>2 DEF Packet, InFlight, TrueOf, TypeOK
<1>4. widen_sequence(toClient[1].seq % Modulus) = toClient[1].seq
  BY <1>1, <1>3, Widened
<1>5. packet' = [type |-> toClient[1].type, seq |-> toClient[1].seq]
  BY <1>2, <1>4 DEF read_packet
<1> QED BY <1>2, <1>5 DEF Packet

(* A request of the types is answered with the types. *)
LEMMA ServeTypes == ASSUME TypeOK, Numbered, Serve PROVE TypeOK'
<1> DEFINE R == SentRecord
<1>1. /\ toServer # <<>> /\ toServer \in Seq(R) /\ toClient \in Seq(Packet) /\ sequence \in Nat
      /\ served \in Nat /\ 2 * MaxRequests \in Nat
  <2>1. toServer # <<>>
    BY DEF Serve
  <2>2. toServer \in Seq(R)
    BY DEF TypeOK, SentRecord
  <2>3. toClient \in Seq(Packet)
    BY DEF TypeOK
  <2>4. 2 * MaxRequests \in Nat
    BY ClientAssumption
  <2>5. sequence \in Nat /\ served \in Nat
    BY <2>4 DEF TypeOK
  <2> QED BY <2>1, <2>2, <2>3, <2>4, <2>5
<1>2. /\ Head(toServer) = toServer[1] /\ 1 \in DOMAIN toServer /\ toServer[1] \in R
      /\ Tail(toServer) \in Seq(R) /\ Len(toServer) \in Nat \ {0}
  <2> HIDE DEF R
  <2> QED BY <1>1, Popped
<1>3. toServer[1].seq = served + 1 /\ served + 1 <= sequence
  BY <1>1, <1>2 DEF Numbered
<1>4. PICK answer \in {"reply", "error", "nothing"} : Answer(served + 1, answer) /\ served' = served + 1
  BY <1>2, <1>3 DEF Serve
<1>5. answers' \in [1..served' -> {"reply", "error", "nothing"}]
  BY <1>1, <1>4, AnswersGrow DEF Answer, TypeOK
<1>6. toClient' \in Seq(Packet)
  <2>1. answer # "nothing" => [type |-> answer, seq |-> served + 1] \in Packet
    BY <1>1, <1>3, <1>4, SMTT(40) DEF Packet, TypeOK
  <2> QED BY <1>1, <1>4, <2>1, Appended DEF Answer
<1> QED BY <1>1, <1>2, <1>3, <1>4, <1>5, <1>6, SMTT(40) DEF Serve, TypeOK, tables, queue

(* So is an event sent, *)
LEMMA EventTypes == ASSUME TypeOK, SendEvent PROVE TypeOK'
<1>1. [type |-> "event", seq |-> served] \in Packet
  BY ClientAssumption DEF Packet, TypeOK
<1>2. toClient' \in Seq(Packet)
  BY <1>1, Appended DEF TypeOK, SendEvent
<1> QED BY <1>2, ClientAssumption DEF SendEvent, TypeOK, tables, queue

(* and the connection closed. *)
LEMMA CloseTypes == ASSUME TypeOK, Close PROVE TypeOK'
BY DEF Close, TypeOK, tables, queue

(* The steps of the reader thread keep the types. *)
LEMMA ReaderTypes ==
  ASSUME TypeOK, InFlight, ReaderStep
  PROVE  TypeOK'
<1>1. CASE read_packet
  <2>1. packet' \in Packet
    BY <1>1, ReadsHead
  <2>2. toClient' \in Seq(Packet)
    BY <1>1, Popped DEF read_packet, TypeOK
  <2> QED BY <1>1, <2>1, <2>2 DEF read_packet, TypeOK, tables, queue
<1>2. CASE queue_packet
  <2>1. pc' \in [Thread -> Place]
    BY <1>2, WokenPlaces DEF queue_packet, TypeOK
  <2>2. NoPacket \in Packet
    BY ClientAssumption DEF NoPacket, Packet
  <2>3. packet \in Packet /\ (packet.type # "event" => packet.seq \in Number)
    BY <1>2, ClientAssumption DEF TypeOK, queue_packet, Packet, InFlight, TrueOf, IsAnswer, Number
  <2>4. Append(events, packet) \in Seq(Packet)
    BY <2>3, Appended DEF TypeOK
  <2> QED BY <1>2, <2>1, <2>2, <2>3, <2>4
          DEF queue_packet, queue_reply, queue_error, queue_event, signal_event_available, TypeOK,
              wire, tables, queue
<1>3. CASE EndOfStream \/ ReaderFails
  BY <1>3 DEF EndOfStream, ReaderFails, signal_event_available, TypeOK, wire, tables, queue
<1>4. CASE ReaderNotifies
  <2>1. pc' \in [Thread -> Place]
    BY <1>4, WokenPlaces DEF ReaderNotifies, TypeOK
  <2> QED BY <1>4, <2>1 DEF ReaderNotifies, TypeOK, wire, tables, queue
<1> QED BY <1>1, <1>2, <1>3, <1>4 DEF ReaderStep

(* The record of a call that begins. *)
LEMMA CallRecord ==
  ASSUME NEW s \in 0..(2 * MaxRequests), NEW kind \in Kind \cup {"sync"},
         NEW target \in 0..(2 * MaxRequests), NEW report \in BOOLEAN
  PROVE  [seq |-> s, kind |-> kind, target |-> target, report |-> report]
           \in [seq : 0..(2 * MaxRequests), kind : Kind \cup {"sync"},
                target : 0..(2 * MaxRequests), report : BOOLEAN]
OBVIOUS

(* No call has the type of a call. *)
LEMMA NoCallRecord ==
  NoCall \in [seq : 0..(2 * MaxRequests), kind : Kind \cup {"sync"},
              target : 0..(2 * MaxRequests), report : BOOLEAN]
BY ClientAssumption DEF NoCall, Kind

(* What a thread does to its own place and call keeps their types. *)
LEMMA ThreadTypes ==
  ASSUME TypeOK, NEW t \in Thread, NEW place \in Place,
         NEW c \in [seq : 0..(2 * MaxRequests), kind : Kind \cup {"sync"},
                    target : 0..(2 * MaxRequests), report : BOOLEAN]
  PROVE  /\ [pc EXCEPT ![t] = place] \in [Thread -> Place]
         /\ [call EXCEPT ![t] = c] \in
              [Thread -> [seq : 0..(2 * MaxRequests), kind : Kind \cup {"sync"},
                          target : 0..(2 * MaxRequests), report : BOOLEAN]]
BY DEF TypeOK

(* What is written has the type of what the server is sent. *)
LEMMA SentTypes ==
  ASSUME TypeOK, Numbered, NEW t \in Thread, Begun(t), NEW kind \in Kind \cup {"sync", "cut"}
  PROVE  /\ [seq |-> served + Len(toServer) + 1, kind |-> kind] \in SentRecord
         /\ toServer \in Seq(SentRecord) /\ Sent(kind) \in Seq(SentRecord)
<1>1. toServer \in Seq(SentRecord)
  BY DEF TypeOK, SentRecord
<1>2. Len(toServer) \in Nat
  BY <1>1, LenProperties
<1>3. served + Len(toServer) < sequence /\ served \in Nat /\ sequence \in 0..(2 * MaxRequests)
  BY ClientAssumption DEF Numbered, TypeOK
<1>4. served + Len(toServer) + 1 \in Number
  BY <1>2, <1>3, ClientAssumption DEF Number
<1>5. [seq |-> served + Len(toServer) + 1, kind |-> kind] \in SentRecord
  BY <1>4 DEF SentRecord
<1> QED BY <1>1, <1>5, Appended DEF Sent

(* The steps of send_bytes keep the types. *)
LEMMA SendTypes ==
  ASSUME TypeOK, Numbered, NEW t \in Thread,
         \/ \E kind \in Kind : send(t, kind)
         \/ SendRefused(t) \/ send_bytes(t)
         \/ Register(t) \/ Write(t) \/ WriteFails(t) \/ NotifyFailure(t)
  PROVE  TypeOK'
<1> USE ClientAssumption
<1> DEFINE R == [seq : 0..(2 * MaxRequests), kind : Kind \cup {"sync"},
                 target : 0..(2 * MaxRequests), report : BOOLEAN]
<1>1. ASSUME NEW kind \in Kind, send(t, kind) PROVE TypeOK'
  <2>1. call' \in [Thread -> R]
    <3>1. call \in [Thread -> R] /\ call' = [call EXCEPT ![t].kind = kind]
      BY <1>1 DEF send, TypeOK
    <3>2. [call[t] EXCEPT !.kind = kind] \in R
      BY <3>1
    <3> QED BY <3>1, <3>2
  <2>2. pc' \in [Thread -> Place]
    BY <1>1 DEF send, Goto, Place, TypeOK
  <2> QED BY <1>1, <2>1, <2>2 DEF send, TypeOK, wire, tables, queue
<1>6. CASE SendRefused(t)
  <2>1. call' \in [Thread -> R]
    BY <1>6, NoCallRecord DEF SendRefused, TypeOK
  <2>2. pc' \in [Thread -> Place]
    BY <1>6 DEF SendRefused, Goto, Place, TypeOK
  <2> QED BY <1>6, <2>1, <2>2 DEF SendRefused, TypeOK, wire, tables, queue
<1>7. CASE send_bytes(t)
  <2>1. sequence' \in 0..(2 * MaxRequests) /\ served \in 0..sequence'
    BY <1>7 DEF send_bytes, Begin, TypeOK, Number
  <2>2. call' = [call EXCEPT ![t] = [seq |-> sequence + 1, kind |-> call[t].kind, target |-> 0,
                                     report |-> FALSE]]
    BY <1>7 DEF send_bytes, Begin
  <2>3. [seq |-> sequence + 1, kind |-> call[t].kind, target |-> 0, report |-> FALSE] \in R
    BY <1>7, <2>1 DEF send_bytes, Begin, TypeOK
  <2>4. call' \in [Thread -> R]
    BY <2>2, <2>3 DEF TypeOK
  <2>5. pc' \in [Thread -> Place]
    BY <1>7 DEF send_bytes, Begin, Goto, Place, TypeOK
  <2> QED BY <1>7, <2>1, <2>4, <2>5 DEF send_bytes, Begin, TypeOK, wire, tables, queue
<1>2. CASE Register(t)
  <2>1. call[t].seq \in Number
    BY <1>2 DEF Register, Numbered, Begun, TypeOK, Number
  <2>2. pc' \in [Thread -> Place]
    BY <1>2 DEF Register, Goto, Place, TypeOK
  <2> QED BY <1>2, <2>1, <2>2 DEF Register, RegisterTables, TypeOK, wire, queue
<1>3. CASE Write(t)
  <2>1. call[t].seq \in Number /\ call[t].kind \in Kind \cup {"sync"}
    BY <1>3 DEF Write, Numbered, Begun, TypeOK, Number
  <2>2. toServer' \in Seq(SentRecord)
    BY <1>3, <2>1, SentTypes DEF Write, Begun
  <2>3. pc' \in [Thread -> Place]
    BY <1>3 DEF Write, Goto, Place, TypeOK
  <2>4. call' \in [Thread -> R]
    BY <1>3, NoCallRecord DEF Write, TypeOK
  <2>5. cookies' \in [Thread -> SUBSET (Number \X {"checked", "reply"})]
    BY <1>3, <2>1 DEF Write, TypeOK
  <2>6. DOMAIN results' \subseteq Number
    BY <1>3, <2>1, SMTT(40) DEF Write, Tell, TypeOK
  <2> QED BY <1>3, <2>2, <2>3, <2>4, <2>5, <2>6 DEF Write, TypeOK, SentRecord, tables, queue
<1>4. CASE WriteFails(t)
  <2>1. toServer' \in Seq(SentRecord) /\ skipped' \in BOOLEAN
    <3>1. Begun(t) /\ (toServer' = toServer \/ toServer' = Sent("cut")) /\ skipped' \in BOOLEAN
      BY <1>4 DEF WriteFails, Begun, TypeOK
    <3>2. toServer \in Seq(SentRecord) /\ Sent("cut") \in Seq(SentRecord)
      BY <3>1, SentTypes
    <3> QED BY <3>1, <3>2
  <2> QED BY <1>4, <2>1 DEF WriteFails, Goto, Place, TypeOK, SentRecord, wire, tables, queue
<1>5. CASE NotifyFailure(t)
  <2>1. [pc EXCEPT ![t] = "idle"] \in [Thread -> Place]
    BY DEF Place, TypeOK
  <2>2. pc' \in [Thread -> Place]
    BY <1>5, <2>1, WokenPlaces DEF NotifyFailure
  <2>3. call' \in [Thread -> R]
    BY <1>5, NoCallRecord DEF NotifyFailure, TypeOK
  <2> QED BY <1>5, <2>2, <2>3 DEF NotifyFailure, TypeOK, wire, tables, queue
<1> QED BY <1>1, <1>2, <1>3, <1>4, <1>5, <1>6, <1>7

(* The steps that collect replies keep the types. *)
LEMMA ReplyTypes ==
  ASSUME TypeOK, Calls, NEW t \in Thread,
         \/ \E report \in BOOLEAN : wait_for_reply(t, report)
         \/ CheckReply(t) \/ Block(t) \/ PushError(t) \/ LookUp(t)
         \/ poll_for_reply(t) \/ discard_reply(t) \/ request_check(t)
  PROVE  TypeOK'
<1> USE ClientAssumption
<1> DEFINE R == [seq : 0..(2 * MaxRequests), kind : Kind \cup {"sync"},
                 target : 0..(2 * MaxRequests), report : BOOLEAN]
<1>1. ASSUME NEW report \in BOOLEAN, wait_for_reply(t, report) PROVE TypeOK'
  <2>1. PICK s \in Number :
          /\ cookies' = [cookies EXCEPT ![t] = @ \ {<<s, "reply">>}]
          /\ call' = [call EXCEPT ![t] = [seq |-> s, kind |-> "reply", target |-> 0,
                                          report |-> report]]
    BY <1>1 DEF wait_for_reply
  <2>2. call' \in [Thread -> R]
    <3>1. [seq |-> s, kind |-> "reply", target |-> 0, report |-> report] \in R
      BY DEF Number, Kind
    <3> QED BY <2>1, <3>1 DEF TypeOK
  <2>3. cookies' \in [Thread -> SUBSET (Number \X {"checked", "reply"})]
    BY <2>1 DEF TypeOK
  <2>4. pc' \in [Thread -> Place]
    BY <1>1 DEF wait_for_reply, Goto, Place, TypeOK
  <2> QED BY <1>1, <2>2, <2>3, <2>4 DEF wait_for_reply, TypeOK, wire, tables, queue
<1>2. ASSUME NEW result, Return(t, result), call[t].seq \in Number
      PROVE  pc' \in [Thread -> Place] /\ call' \in [Thread -> R] /\ DOMAIN results' \subseteq Number
  <2>1. pc' \in [Thread -> Place]
    BY <1>2 DEF Return, Goto, Place, TypeOK
  <2>2. call' \in [Thread -> R]
    BY <1>2, NoCallRecord DEF Return, TypeOK
  <2> QED BY <1>2, <2>1, <2>2 DEF Return, Tell, TypeOK
<1>3. Waiting(t) => call[t].seq \in Number
  BY DEF Calls, Given, TypeOK, Number
<1>4. CASE CheckReply(t)
  <2>1. call[t].seq \in Number
    BY <1>3, <1>4 DEF CheckReply, Waiting
  <2>2. pc' \in [Thread -> Place] /\ call' \in [Thread -> R] /\ DOMAIN results' \subseteq Number
    <3>1. CASE \E result : Return(t, result)
      BY <1>2, <2>1, <3>1
    <3>2. CASE (Goto(t, "push_error") \/ Goto(t, "block_reply")) /\ UNCHANGED <<call, results>>
      BY <3>2 DEF Goto, Place, TypeOK
    <3> QED BY <1>4, <3>1, <3>2 DEF CheckReply
  <2> QED BY <1>4, <2>1, <2>2 DEF CheckReply, TypeOK, wire, queue
<1>5. CASE Block(t)
  BY <1>5 DEF Block, Goto, Place, TypeOK, wire, tables, queue
<1>6. CASE PushError(t)
  <2>1. call[t].seq \in Number
    BY <1>3, <1>6 DEF PushError, Waiting
  <2>2. pc' \in [Thread -> Place] /\ call' \in [Thread -> R] /\ DOMAIN results' \subseteq Number
    BY <1>2, <1>6, <2>1 DEF PushError
  <2>3. [type |-> "error", seq |-> call[t].seq] \in Packet
    BY <2>1 DEF Packet, Number
  <2>4. events' \in Seq(Packet)
    BY <1>6, <2>3, Appended DEF PushError, TypeOK
  <2> QED BY <1>6, <2>2, <2>4 DEF PushError, TypeOK, wire, tables
<1>7. CASE LookUp(t)
  <2>1. call[t].target \in Number
    BY <1>7 DEF LookUp, Calls, Given, TypeOK, Number
  <2>2. pc' \in [Thread -> Place] /\ DOMAIN results' \subseteq Number
    BY <1>7, <2>1 DEF LookUp, Goto, Tell, Place, TypeOK
  <2>3. call' \in [Thread -> R]
    BY <1>7, NoCallRecord DEF LookUp, TypeOK
  <2> QED BY <1>7, <2>2, <2>3 DEF LookUp, TypeOK, wire, queue
<1>8. CASE poll_for_reply(t)
  BY <1>8 DEF poll_for_reply, Tell, TypeOK, wire, queue
<1>9. CASE discard_reply(t)
  BY <1>9 DEF discard_reply, Tell, TypeOK, wire, queue
<1>10. CASE request_check(t)
  <2>1. PICK s \in Number :
          /\ cookies' = [cookies EXCEPT ![t] = @ \ {<<s, "checked">>}]
          /\ Begin(t, "sync", s)
    BY <1>10 DEF request_check
  <2>2. sequence' \in 0..(2 * MaxRequests) /\ served \in 0..sequence'
    BY <2>1 DEF Begin, TypeOK, Number
  <2>3. call' \in [Thread -> R]
    <3>1. [seq |-> sequence + 1, kind |-> "sync", target |-> s, report |-> FALSE] \in R
      BY <2>1 DEF Begin, Number
    <3> QED BY <2>1, <3>1 DEF Begin, TypeOK
  <2>4. cookies' \in [Thread -> SUBSET (Number \X {"checked", "reply"})]
    BY <2>1 DEF TypeOK
  <2>5. pc' \in [Thread -> Place]
    BY <2>1 DEF Begin, Goto, Place, TypeOK
  <2> QED BY <1>10, <2>2, <2>3, <2>4, <2>5 DEF request_check, TypeOK, wire, tables, queue
<1> QED BY <1>1, <1>4, <1>5, <1>6, <1>7, <1>8, <1>9, <1>10

(* The steps that collect events keep the types. *)
LEMMA EventCallTypes ==
  ASSUME TypeOK, KeptTrue, NEW t \in Thread, wait_for_event(t) \/ CheckEvent(t) \/ poll_for_event(t)
  PROVE  TypeOK'
<1> USE ClientAssumption
<1>1. CASE wait_for_event(t)
  BY <1>1 DEF wait_for_event, Goto, Place, TypeOK, wire, tables, queue
<1>2. ASSUME events # <<>>, TakeEvent
      PROVE  events' \in Seq(Packet) /\ DOMAIN results' \subseteq Number /\ signalled' \in BOOLEAN
  <2>1. Tail(events) \in Seq(Packet) /\ Head(events) = events[1] /\ 1 \in DOMAIN events
    BY <1>2, Popped DEF TypeOK
  <2>2. events[1].type = "error" => events[1].seq \in Number
    BY <2>1 DEF KeptTrue, Kept, TypeOK, Number
  <2>3. events' \in Seq(Packet)
    BY <1>2, <2>1 DEF TakeEvent
  <2>4. TellError(events[1])
    BY <1>2, <2>1 DEF TakeEvent
  <2>5. DOMAIN results' \subseteq Number
    BY <2>2, <2>4, SMTT(40) DEF TellError, Tell, TypeOK
  <2>6. signalled' \in BOOLEAN
    BY <1>2 DEF TakeEvent, clear_event_notification, TypeOK
  <2> QED BY <2>3, <2>5, <2>6
<1>3. CASE CheckEvent(t)
  <2>1. pc' \in [Thread -> Place]
    BY <1>3, ZenonT(60) DEF CheckEvent, Goto, Place, TypeOK
  <2>2. events' \in Seq(Packet) /\ DOMAIN results' \subseteq Number /\ signalled' \in BOOLEAN
    BY <1>2, <1>3 DEF CheckEvent, TypeOK, clear_event_notification, queue
  <2> QED BY <1>3, <2>1, <2>2 DEF CheckEvent, TypeOK, wire, tables
<1>4. CASE poll_for_event(t)
  <2>1. events' \in Seq(Packet) /\ DOMAIN results' \subseteq Number /\ signalled' \in BOOLEAN
    BY <1>2, <1>4 DEF poll_for_event, TypeOK, clear_event_notification
  <2> QED BY <1>4, <2>1 DEF poll_for_event, TypeOK, wire, tables
<1> QED BY <1>1, <1>3, <1>4

(* Every step keeps the types. *)
LEMMA TypesKept ==
  ASSUME IInv, Next
  PROVE  TypeOK'
BY ServeTypes, EventTypes, CloseTypes, ReaderTypes, SendTypes, ReplyTypes, EventCallTypes
   DEF IInv, Next, ServerStep, Continue, Call
-----------------------------------------------------------------------------
(* Numbers.                                                                *)

(* A step at the sending end of nobody. *)
SendersStay ==
  /\ UNCHANGED <<served, toServer, sequence, broken, skipped>>
  /\ \A u \in Thread :
       /\ pc'[u] \in Sending => pc'[u] = pc[u] /\ call'[u] = call[u]
       /\ Begun(u) => pc'[u] = pc[u]

(* Every other step leaves the requests and those who send alone. *)
LEMMA OthersStay ==
  ASSUME TypeOK,
         \/ SendEvent \/ ReaderStep
         \/ \E t \in Thread :
              \/ NotifyFailure(t) \/ CheckReply(t) \/ Block(t) \/ PushError(t) \/ LookUp(t)
              \/ CheckEvent(t) \/ poll_for_reply(t) \/ discard_reply(t)
              \/ wait_for_event(t) \/ poll_for_event(t)
              \/ \E report \in BOOLEAN : wait_for_reply(t, report)
              \/ SendRefused(t) \/ \E kind \in Kind : send(t, kind)
  PROVE  SendersStay
<1> USE DEF SendersStay, Begun, Sending
<1>1. CASE SendEvent
  BY <1>1 DEF SendEvent
<1>2. CASE ReaderStep
  <2>1. pc' = pc \/ pc' = Woken(pc)
    BY <1>2 DEF ReaderStep, read_packet, queue_packet, EndOfStream, ReaderFails, ReaderNotifies
  <2>2. \A u \in Thread : \/ pc'[u] = pc[u]
                          \/ pc'[u] \in {"check_reply", "check_event"} /\ ~Begun(u)
    <3>1. pc \in [Thread -> Place]
      BY DEF TypeOK
    <3>2. \A u \in Thread : \/ Woken(pc)[u] = pc[u]
                            \/ Woken(pc)[u] \in {"check_reply", "check_event"} /\ ~Begun(u)
      BY <3>1, WokenPlaces DEF Begun
    <3> QED BY <2>1, <3>2, Zenon
  <2>3. UNCHANGED <<served, toServer, sequence, broken, skipped, call>>
    BY <1>2 DEF ReaderStep, read_packet, queue_packet, EndOfStream, ReaderFails, ReaderNotifies, wire
  <2> QED BY <2>2, <2>3
<1>3. ASSUME NEW t \in Thread, NotifyFailure(t) PROVE SendersStay
  <2>1. [pc EXCEPT ![t] = "idle"] \in [Thread -> Place]
    BY DEF Place, TypeOK
  <2>2. \A u \in Thread : \/ pc'[u] = [pc EXCEPT ![t] = "idle"][u]
                          \/ pc'[u] \in {"check_reply", "check_event"} /\ ~Begun(u)
    <3> DEFINE P == [pc EXCEPT ![t] = "idle"]
    <3>1. pc' = Woken(P) /\ pc \in [Thread -> Place]
      BY <1>3 DEF NotifyFailure, TypeOK
    <3>2. \A u \in Thread : P[u] \in {"await_reply", "await_event"} => ~Begun(u)
      BY <3>1 DEF Begun
    <3>3. \A u \in Thread : \/ Woken(P)[u] = P[u]
                            \/ P[u] = "await_reply" /\ Woken(P)[u] = "check_reply"
                            \/ P[u] = "await_event" /\ Woken(P)[u] = "check_event"
      <4> HIDE DEF P
      <4> QED BY <2>1, WokenPlaces, Zenon DEF P
    <3> HIDE DEF P
    <3>4. \A u \in Thread : \/ Woken(P)[u] = P[u]
                            \/ Woken(P)[u] \in {"check_reply", "check_event"} /\ ~Begun(u)
      BY <3>2, <3>3
    <3> QED BY <3>1, <3>4, Zenon DEF P
  <2>3. pc[t] = "undo" /\ UNCHANGED <<served, toServer, sequence, broken, skipped>>
    BY <1>3 DEF NotifyFailure, wire
  <2>4. \A u \in Thread : u # t => call'[u] = call[u]
    BY <1>3 DEF NotifyFailure, TypeOK
  <2> QED BY <2>2, <2>3, <2>4 DEF TypeOK
<1>4. ASSUME NEW t \in Thread, CheckReply(t) PROVE SendersStay
  BY <1>4, SMTT(40) DEF CheckReply, Return, Goto, TypeOK, wire
<1>5. ASSUME NEW t \in Thread, Block(t) \/ PushError(t) \/ LookUp(t) PROVE SendersStay
  BY <1>5 DEF Block, PushError, LookUp, Return, Goto, TypeOK, wire
<1>6. ASSUME NEW t \in Thread, CheckEvent(t) PROVE SendersStay
  BY <1>6 DEF CheckEvent, Goto, TypeOK, wire
<1>7. ASSUME NEW t \in Thread, poll_for_reply(t) \/ discard_reply(t) \/ poll_for_event(t)
      PROVE  SendersStay
  BY <1>7 DEF poll_for_reply, discard_reply, poll_for_event, TypeOK, wire
<1>8. ASSUME NEW t \in Thread, wait_for_event(t) \/ \E report \in BOOLEAN : wait_for_reply(t, report)
      PROVE  SendersStay
  BY <1>8, ZenonT(60) DEF wait_for_event, wait_for_reply, Goto, TypeOK, wire
<1>9. ASSUME NEW t \in Thread, SendRefused(t) \/ \E kind \in Kind : send(t, kind) PROVE SendersStay
  BY <1>9 DEF send, SendRefused, Goto, TypeOK, wire
<1> QED BY <1>1, <1>2, <1>3, <1>4, <1>5, <1>6, <1>7, <1>8, <1>9

(* A request takes its number. *)
Begins(t) ==
  /\ pc[t] \in {"idle", "send"} /\ \A u \in Thread : pc[u] \notin Sending
  /\ sequence' = sequence + 1 /\ KeepsUp(sequence + 1)
  /\ pc' = [pc EXCEPT ![t] = "register"]
  /\ call'[t].seq = sequence + 1
  /\ \A u \in Thread : u # t => call'[u] = call[u]
  /\ UNCHANGED <<wire, tables, queue, failed, reader, packet, results>>

(* send_bytes and request_check take a number in the same way. *)
LEMMA BothBegin ==
  ASSUME TypeOK, NEW t \in Thread, request_check(t) \/ send_bytes(t)
  PROVE  Begins(t)
<1>1. CASE request_check(t)
  BY <1>1 DEF request_check, Begin, Begins, Goto, TypeOK
<1>2. CASE send_bytes(t)
  BY <1>2 DEF send_bytes, Begin, Begins, Goto, TypeOK
<1> QED BY <1>1, <1>2

(* The senders' steps. *)
SenderStep(t) == Begins(t) \/ Register(t) \/ Write(t) \/ WriteFails(t)

(* A step moves no sender, or is the server's, or a sender's. *)
LEMMA Kinds ==
  ASSUME TypeOK, Next
  PROVE  SendersStay \/ Serve \/ Close \/ \E t \in Thread : SenderStep(t)
<1>1. CASE ServerStep
  BY <1>1, OthersStay DEF ServerStep
<1>2. CASE ReaderStep
  BY <1>2, OthersStay
<1>3. ASSUME NEW t \in Thread, Continue(t)
      PROVE  SendersStay \/ SenderStep(t)
  <2>1. CASE Register(t) \/ Write(t) \/ WriteFails(t)
    BY <2>1 DEF SenderStep
  <2>2. CASE \/ NotifyFailure(t) \/ CheckReply(t) \/ Block(t) \/ PushError(t) \/ LookUp(t)
             \/ CheckEvent(t) \/ SendRefused(t)
    BY <2>2, OthersStay
  <2>3. CASE send_bytes(t)
    BY <2>3, BothBegin DEF SenderStep
  <2> QED BY <1>3, <2>1, <2>2, <2>3 DEF Continue
<1>4. ASSUME NEW t \in Thread, Call(t)
      PROVE  SendersStay \/ SenderStep(t)
  <2>1. CASE request_check(t)
    BY <2>1, BothBegin DEF SenderStep
  <2>2. CASE \/ poll_for_reply(t) \/ discard_reply(t) \/ wait_for_event(t) \/ poll_for_event(t)
             \/ (\E report \in BOOLEAN : wait_for_reply(t, report)) \/ \E kind \in Kind : send(t, kind)
    BY <2>2, OthersStay
  <2> QED BY <1>4, <2>1, <2>2 DEF Call
<1> QED BY <1>1, <1>2, <1>3, <1>4 DEF Next

(* The server handles the first request, the one after the last it handled. *)
LEMMA ServedNext ==
  ASSUME TypeOK, Numbered, Serve
  PROVE  /\ toServer # <<>> /\ ~broken /\ toServer[1].seq = served + 1
         /\ served' = served + 1 /\ served + 1 <= sequence
         /\ toServer' \in Seq(SentRecord)
         /\ Len(toServer') = Len(toServer) - 1 /\ DOMAIN toServer' = 1..(Len(toServer) - 1)
         /\ Len(toServer) \in Nat \ {0} /\ DOMAIN toServer = 1..Len(toServer)
         /\ \A i \in 1..(Len(toServer) - 1) : toServer'[i] = toServer[i + 1]
         /\ UNCHANGED <<eventsLeft, broken, skipped, sequence, tables, queue, failed, reader, packet,
                        pc, call, cookies, results>>
<1> DEFINE R == SentRecord
<1>1. toServer # <<>> /\ toServer \in Seq(R) /\ toServer' = Tail(toServer)
  BY DEF Serve, TypeOK, SentRecord
<1>2. /\ Head(toServer) = toServer[1] /\ Len(toServer) \in Nat \ {0} /\ DOMAIN toServer = 1..Len(toServer)
      /\ toServer' \in Seq(R) /\ Len(toServer') = Len(toServer) - 1
      /\ DOMAIN toServer' = 1..(Len(toServer) - 1)
      /\ \A i \in 1..(Len(toServer) - 1) : toServer'[i] = toServer[i + 1]
  <2> HIDE DEF R
  <2> QED BY <1>1, Popped
<1>3. toServer[1].seq = served + 1 /\ served + 1 <= sequence
  <2>1. 1 \in DOMAIN toServer /\ served \in Nat /\ sequence \in Nat
    BY <1>2, ClientAssumption DEF TypeOK
  <2>2. toServer[1].seq = served + 1 /\ served + Len(toServer) <= sequence
    BY <2>1 DEF Numbered
  <2> QED BY <1>2, <2>1, <2>2
<1>4. served' = toServer[1].seq
  BY <1>2 DEF Serve
<1> QED BY <1>1, <1>2, <1>3, <1>4 DEF Serve

(* The request written is the last one that took a number; the server counts
   it next, and gives it that number unless it is behind. *)
LEMMA WrittenLast ==
  ASSUME TypeOK, Numbered, NEW t \in Thread, Write(t)
  PROVE  /\ pc[t] = "write" /\ ~broken /\ call[t].seq = sequence /\ served + Len(toServer) < sequence
         /\ ~skipped => served + Len(toServer) + 1 = sequence
         /\ Len(toServer) \in Nat /\ Len(toServer') = Len(toServer) + 1
         /\ DOMAIN toServer = 1..Len(toServer) /\ DOMAIN toServer' = 1..(Len(toServer) + 1)
         /\ \A i \in 1..Len(toServer) : toServer'[i] = toServer[i]
         /\ toServer'[Len(toServer) + 1] = [seq |-> served + Len(toServer) + 1, kind |-> call[t].kind]
         /\ UNCHANGED <<served, broken, skipped, sequence>>
<1>1. /\ pc[t] = "write" /\ ~broken /\ call[t].seq = sequence /\ served + Len(toServer) < sequence
      /\ ~skipped => served + Len(toServer) + 1 = sequence
  BY DEF Write, Numbered, Begun
<1>2. Begun(t) /\ call[t].kind \in Kind \cup {"sync", "cut"}
  BY <1>1 DEF Begun, TypeOK
<1> QED BY <1>1, <1>2, SentTypes, Appended DEF Write, Sent

(* A write that fails while the server is there leaves it as it is, or with
   the beginning of a request. *)
LEMMA CutLast ==
  ASSUME TypeOK, Numbered, NEW t \in Thread, WriteFails(t)
  PROVE  /\ pc[t] = "write" /\ served + Len(toServer) < sequence /\ Len(toServer) \in Nat
         /\ UNCHANGED <<served, broken, sequence>> /\ (skipped => skipped')
         /\ \/ UNCHANGED <<toServer, skipped>> /\ broken
            \/ UNCHANGED toServer /\ skipped' /\ ~broken
            \/ /\ skipped' /\ ~broken /\ Len(toServer') = Len(toServer) + 1
               /\ DOMAIN toServer = 1..Len(toServer) /\ DOMAIN toServer' = 1..(Len(toServer) + 1)
               /\ \A i \in 1..Len(toServer) : toServer'[i] = toServer[i]
               /\ toServer'[Len(toServer) + 1] = [seq |-> served + Len(toServer) + 1, kind |-> "cut"]
<1>1. Begun(t) /\ pc[t] = "write"
  BY DEF WriteFails, Begun
<1>2. /\ [seq |-> served + Len(toServer) + 1, kind |-> "cut"] \in SentRecord
      /\ toServer \in Seq(SentRecord)
  BY <1>1, SentTypes
<1>3. Len(toServer) \in Nat /\ served + Len(toServer) < sequence
  BY <1>1, <1>2, LenProperties DEF Numbered
<1>4. CASE toServer' = Sent("cut")
  BY <1>1, <1>2, <1>3, <1>4, Appended DEF WriteFails, Sent
<1>5. CASE toServer' = toServer
  BY <1>1, <1>3, <1>5 DEF WriteFails
<1> QED BY <1>4, <1>5 DEF WriteFails
-----------------------------------------------------------------------------
(* A step that moves no sender keeps the requests numbered, *)
LEMMA NumberedStays ==
  ASSUME TypeOK, Numbered, SendersStay
  PROVE  Numbered'
<1> USE DEF SendersStay
<1>1. \A u \in Thread : Begun(u)' => Begun(u) /\ call'[u] = call[u]
  BY DEF Begun, Sending
<1>2. (\A u \in Thread : ~Begun(u)') => \A u \in Thread : ~Begun(u)
  BY DEF Begun
<1>3. \A t \in Thread : Begun(t)' => /\ call'[t].seq = sequence' /\ served' + Len(toServer') < sequence'
                                     /\ ~broken' /\ ~skipped' => served' + Len(toServer') + 1 = sequence'
  BY <1>1 DEF Numbered
<1>4. \A t \in Thread : pc'[t] = "undo" => broken' \/ skipped'
  BY DEF Numbered, Sending
<1>5. \A t, u \in Thread : pc'[t] \in Sending /\ pc'[u] \in Sending => t = u
  BY DEF Numbered
<1>6. ~broken' /\ ~skipped' /\ (\A t \in Thread : ~Begun(t)') => served' + Len(toServer') = sequence'
  BY <1>2 DEF Numbered
<1>7. /\ served' + Len(toServer') <= sequence'
      /\ \A i \in DOMAIN toServer' : toServer'[i].seq = served' + i
      /\ broken' => toServer' = <<>>
  BY DEF Numbered
<1> QED BY <1>3, <1>4, <1>5, <1>6, <1>7 DEF Numbered

(* and so does the server that handles one, *)
LEMMA NumberedServed ==
  ASSUME TypeOK, Numbered, Serve
  PROVE  Numbered'
<1>1. /\ ~broken /\ served' = served + 1 /\ Len(toServer') = Len(toServer) - 1
      /\ DOMAIN toServer' = 1..(Len(toServer) - 1) /\ DOMAIN toServer = 1..Len(toServer)
      /\ Len(toServer) \in Nat \ {0}
      /\ \A i \in 1..(Len(toServer) - 1) : toServer'[i] = toServer[i + 1]
      /\ UNCHANGED <<broken, skipped, sequence, pc, call>>
  BY ServedNext
<1>2. served' + Len(toServer') = served + Len(toServer) /\ served \in Nat
  BY <1>1 DEF TypeOK
<1>3. \A i \in DOMAIN toServer' : toServer'[i].seq = served' + i
  <2> SUFFICES ASSUME NEW i \in DOMAIN toServer' PROVE toServer'[i].seq = served' + i
    OBVIOUS
  <2>1. i + 1 \in DOMAIN toServer /\ toServer'[i] = toServer[i + 1] /\ i \in Nat
    BY <1>1
  <2>2. toServer[i + 1].seq = served + (i + 1)
    BY <2>1 DEF Numbered
  <2> QED BY <1>1, <1>2, <2>1, <2>2
<1>4. \A t \in Thread : Begun(t)' <=> Begun(t)
  BY <1>1 DEF Begun
<1>5. \A t \in Thread : Begun(t)' => /\ call'[t].seq = sequence' /\ served' + Len(toServer') < sequence'
                                     /\ ~broken' /\ ~skipped' => served' + Len(toServer') + 1 = sequence'
  BY <1>1, <1>2, <1>4 DEF Numbered
<1>6. ~broken' /\ ~skipped' /\ (\A t \in Thread : ~Begun(t)') => served' + Len(toServer') = sequence'
  BY <1>1, <1>2, <1>4 DEF Numbered
<1>7. /\ \A t \in Thread : pc'[t] = "undo" => broken' \/ skipped'
      /\ \A t, u \in Thread : pc'[t] \in Sending /\ pc'[u] \in Sending => t = u
      /\ served' + Len(toServer') <= sequence' /\ ~broken'
  BY <1>1, <1>2 DEF Numbered
<1> QED BY <1>3, <1>5, <1>6, <1>7 DEF Numbered

(* the close of the connection, *)
LEMMA NumberedClosed ==
  ASSUME TypeOK, Numbered, Close
  PROVE  Numbered'
<1>1. broken' /\ toServer' = <<>> /\ UNCHANGED <<served, sequence, pc, call>>
  BY DEF Close
<1>2. Len(toServer) \in Nat /\ Len(toServer') = 0 /\ DOMAIN toServer' = {} /\ served \in Nat
      /\ sequence \in Nat
  <2>1. Len(toServer) \in Nat
    BY LenProperties DEF TypeOK
  <2> QED BY <1>1, <2>1, ClientAssumption DEF TypeOK
<1>3. \A t \in Thread : Begun(t)' => call'[t].seq = sequence' /\ served' + Len(toServer') < sequence'
  BY <1>1, <1>2 DEF Begun, Numbered
<1>4. served' + Len(toServer') <= sequence'
  BY <1>1, <1>2 DEF Numbered
<1> QED BY <1>1, <1>2, <1>3, <1>4 DEF Numbered

(* and each step of a sender. *)
LEMMA NumberedSent ==
  ASSUME TypeOK, Numbered, NEW t \in Thread, SenderStep(t)
  PROVE  Numbered'
<1>0. Len(toServer) \in Nat /\ served \in Nat /\ sequence \in Nat
  <2>1. Len(toServer) \in Nat
    BY LenProperties DEF TypeOK
  <2> QED BY <2>1, ClientAssumption DEF TypeOK
<1>5. ASSUME served' = served, DOMAIN toServer = 1..Len(toServer),
             DOMAIN toServer' = 1..(Len(toServer) + 1),
             \A i \in 1..Len(toServer) : toServer'[i] = toServer[i],
             toServer'[Len(toServer) + 1].seq = served + Len(toServer) + 1
      PROVE  \A i \in DOMAIN toServer' : toServer'[i].seq = served' + i
  <2> SUFFICES ASSUME NEW i \in DOMAIN toServer' PROVE toServer'[i].seq = served' + i
    OBVIOUS
  <2>1. CASE i \in 1..Len(toServer)
    <3>1. toServer[i].seq = served + i
      BY <1>5, <2>1 DEF Numbered
    <3> QED BY <1>5, <2>1, <3>1
  <2>2. CASE i = Len(toServer) + 1
    BY <1>0, <1>5, <2>2
  <2> QED BY <1>0, <1>5, <2>1, <2>2
<1>1. CASE Begins(t)
  <2>1. /\ \A u \in Thread : u # t => pc'[u] = pc[u]
        /\ pc'[t] = "register" /\ \A u \in Thread : pc[u] \notin Sending
        /\ call'[t].seq = sequence' /\ sequence' = sequence + 1
        /\ UNCHANGED <<served, toServer, broken, skipped>>
    BY <1>1 DEF Begins, TypeOK, wire
  <2>2. \A u \in Thread : pc'[u] \in Sending => u = t
    BY <2>1
  <2>3. /\ served' + Len(toServer') < sequence'
        /\ ~broken' /\ ~skipped' => served' + Len(toServer') + 1 = sequence'
    BY <1>0, <2>1 DEF Numbered, Begun, Sending
  <2>4. \A u \in Thread : Begun(u)' => u = t
    BY <2>2 DEF Begun, Sending
  <2>5. Begun(t)'
    BY <2>1 DEF Begun
  <2>6. \A u \in Thread : pc'[u] # "undo"
    BY <2>1, <2>2 DEF Sending
  <2>7. /\ \A i \in DOMAIN toServer' : toServer'[i].seq = served' + i
        /\ broken' => toServer' = <<>>
        /\ served' + Len(toServer') <= sequence'
    BY <1>0, <2>1, <2>3 DEF Numbered
  <2> QED BY <2>1, <2>2, <2>3, <2>4, <2>5, <2>6, <2>7 DEF Numbered
<1>2. CASE Register(t)
  <2>1. /\ \A u \in Thread : u # t => pc'[u] = pc[u]
        /\ pc[t] = "register" /\ pc'[t] = "write"
        /\ UNCHANGED <<served, toServer, broken, skipped, sequence, call>>
    BY <1>2 DEF Register, Goto, TypeOK, wire
  <2>2. \A u \in Thread : /\ (Begun(u)' <=> Begun(u)) /\ (pc'[u] \in Sending <=> pc[u] \in Sending)
                          /\ (pc'[u] = "undo" <=> pc[u] = "undo")
    BY <2>1 DEF Begun, Sending
  <2> QED BY <2>1, <2>2 DEF Numbered
<1>3. CASE Write(t)
  <2>1. /\ pc[t] = "write" /\ ~broken /\ served + Len(toServer) < sequence
        /\ ~skipped => served + Len(toServer) + 1 = sequence
        /\ Len(toServer') = Len(toServer) + 1
        /\ DOMAIN toServer = 1..Len(toServer) /\ DOMAIN toServer' = 1..(Len(toServer) + 1)
        /\ \A i \in 1..Len(toServer) : toServer'[i] = toServer[i]
        /\ toServer'[Len(toServer) + 1].seq = served + Len(toServer) + 1
        /\ UNCHANGED <<served, broken, skipped, sequence>>
    <3>1. toServer'[Len(toServer) + 1] = [seq |-> served + Len(toServer) + 1, kind |-> call[t].kind]
      BY <1>3, WrittenLast
    <3>2. toServer'[Len(toServer) + 1].seq = served + Len(toServer) + 1
      BY <3>1
    <3> QED BY <1>3, <3>2, WrittenLast
  <2>2. /\ \A u \in Thread : u # t => pc'[u] = pc[u]
        /\ pc'[t] \in {"check_reply", "idle"}
    BY <1>3 DEF Write, Goto, TypeOK
  <2>3. \A u \in Thread : pc'[u] \notin Sending
    BY <2>1, <2>2 DEF Numbered, Sending
  <2>4. \A u \in Thread : ~Begun(u)' /\ pc'[u] # "undo"
    BY <2>3 DEF Begun, Sending
  <2>5. \A i \in DOMAIN toServer' : toServer'[i].seq = served' + i
    BY <1>0, <1>5, <2>1
  <2>6. /\ served' + Len(toServer') <= sequence'
        /\ ~skipped' => served' + Len(toServer') = sequence'
    BY <1>0, <2>1
  <2> QED BY <1>0, <2>1, <2>3, <2>4, <2>5, <2>6 DEF Numbered
<1>4. CASE WriteFails(t)
  <2>1. /\ \A u \in Thread : u # t => pc'[u] = pc[u]
        /\ pc[t] = "write" /\ pc'[t] = "undo"
        /\ UNCHANGED <<served, broken, sequence, call>>
    BY <1>4 DEF WriteFails, Goto, TypeOK
  <2>2. \A u \in Thread : /\ (Begun(u)' => Begun(u)) /\ (pc'[u] \in Sending <=> pc[u] \in Sending)
    BY <2>1 DEF Begun, Sending
  <2>3. \A u \in Thread : ~Begun(u)'
    BY <2>1 DEF Begun, Numbered, Sending
  <2>4. \A u \in Thread : pc'[u] = "undo" => u = t
    BY <2>1, <2>2 DEF Numbered, Sending
  <2>5. CASE toServer' = toServer
    <3>1. broken \/ skipped'
      BY <1>4, CutLast
    <3> QED BY <2>1, <2>2, <2>3, <2>4, <2>5, <3>1 DEF Numbered
  <2>6. CASE toServer' # toServer
    <3>1. /\ skipped' /\ ~broken /\ Len(toServer') = Len(toServer) + 1
          /\ DOMAIN toServer = 1..Len(toServer) /\ DOMAIN toServer' = 1..(Len(toServer) + 1)
          /\ \A i \in 1..Len(toServer) : toServer'[i] = toServer[i]
          /\ toServer'[Len(toServer) + 1].seq = served + Len(toServer) + 1
          /\ served + Len(toServer) < sequence
      <4>1. \A n, k : [seq |-> n, kind |-> k].seq = n
        OBVIOUS
      <4> QED BY <1>4, <2>6, <4>1, CutLast
    <3>2. \A i \in DOMAIN toServer' : toServer'[i].seq = served' + i
      BY <1>0, <1>5, <2>1, <3>1
    <3>3. served' + Len(toServer') <= sequence'
      BY <1>0, <2>1, <3>1
    <3> QED BY <2>1, <2>2, <2>3, <3>1, <3>2, <3>3 DEF Numbered
  <2> QED BY <2>5, <2>6
<1> QED BY <1>1, <1>2, <1>3, <1>4 DEF SenderStep

(* Every step keeps the requests numbered. *)
LEMMA NumberedKept ==
  ASSUME IInv, Next
  PROVE  Numbered'
BY Kinds, NumberedStays, NumberedServed, NumberedClosed, NumberedSent DEF IInv

(***************************************************************************)
(* A number that was given stays so, and the one that is written is given. *)
(***************************************************************************)
LEMMA GivenKept ==
  ASSUME IInv, Next
  PROVE  /\ \A s : Given(s) => Given(s)'
         /\ \A t \in Thread : Write(t) => Given(sequence)' /\ sequence' = sequence
<1>0. TypeOK /\ Numbered /\ sequence \in Nat
  BY ClientAssumption DEF IInv, TypeOK
<1>1. CASE SendersStay
  <2>1. sequence' = sequence /\ \A u \in Thread : Begun(u)' => Begun(u)
    BY <1>1 DEF SendersStay, Begun, Sending
  <2>2. \A t \in Thread : ~Write(t)
    <3> SUFFICES ASSUME NEW t \in Thread, Write(t) PROVE FALSE
      OBVIOUS
    <3>1. pc[t] = "write" /\ pc'[t] # "write"
      BY DEF Write, Goto, TypeOK, IInv
    <3> QED BY <1>1, <3>1 DEF SendersStay, Begun
  <2> QED BY <2>1, <2>2 DEF Given
<1>2. CASE Serve
  <2>1. UNCHANGED <<sequence, pc>>
    BY <1>0, <1>2, ServedNext
  <2>2. \A t \in Thread : ~Write(t)
    BY <1>2 DEF Serve, Write, Goto, TypeOK, IInv
  <2> QED BY <2>1, <2>2 DEF Given, Begun
<1>3. CASE Close
  BY <1>3 DEF Close, Write, Given, Begun
<1>4. ASSUME NEW t \in Thread, Begins(t)
      PROVE  /\ \A s : Given(s) => Given(s)'
             /\ \A u \in Thread : ~Write(u)
  <2>1. \A u \in Thread : pc[u] # "write"
    BY <1>4 DEF Begins, Sending
  <2> QED BY <1>0, <1>4, <2>1 DEF Begins, Given, Write
<1>5. ASSUME NEW t \in Thread, Register(t) \/ WriteFails(t)
      PROVE  /\ \A s : Given(s) => Given(s)'
             /\ \A u \in Thread : ~Write(u)
  <2>1. sequence' = sequence /\ \A u \in Thread : Begun(u)' => Begun(u)
    BY <1>0, <1>5 DEF Register, WriteFails, Goto, TypeOK, Begun
  <2>3. \A u \in Thread : ~Write(u)
    <3> SUFFICES ASSUME NEW u \in Thread, Write(u) PROVE FALSE
      OBVIOUS
    <3>1. pc[u] = "write" /\ pc'[u] \in {"check_reply", "idle"}
      BY <1>0 DEF Write, Goto, TypeOK
    <3>2. pc[t] \in {"register", "write"} /\ pc'[t] \in {"write", "undo"}
      BY <1>0, <1>5 DEF Register, WriteFails, Goto, TypeOK
    <3>3. u = t
      BY <1>0, <3>1, <3>2 DEF Numbered, Sending
    <3> QED BY <3>1, <3>2, <3>3
  <2> QED BY <2>1, <2>3 DEF Given
<1>6. ASSUME NEW t \in Thread, Write(t)
      PROVE  /\ \A s : Given(s) => Given(s)'
             /\ Given(sequence)' /\ sequence' = sequence
  <2>1. pc[t] = "write" /\ sequence' = sequence /\ served + Len(toServer) < sequence
        /\ Len(toServer) \in Nat
    BY <1>0, <1>6, WrittenLast
  <2>2. pc'[t] \in {"check_reply", "idle"} /\ \A u \in Thread : u # t => pc'[u] = pc[u]
    BY <1>0, <1>6 DEF Write, Goto, TypeOK
  <2>3. \A u \in Thread : ~Begun(u)'
    BY <1>0, <2>1, <2>2 DEF Begun, Numbered, Sending
  <2>4. sequence \in 1..sequence
    BY <1>0, <2>1 DEF TypeOK
  <2> QED BY <2>1, <2>3, <2>4 DEF Given
<1> QED BY <1>0, Kinds, <1>1, <1>2, <1>3, <1>4, <1>5, <1>6 DEF SenderStep
-----------------------------------------------------------------------------
(* The wire.                                                               *)

WireStays ==
  /\ UNCHANGED <<served, answers, toClient, packet, sequence>>
  /\ reader' = "queue" <=> reader = "queue"

(* What a step does to the packets and their numbers. *)
LEMMA Views ==
  ASSUME TypeOK, Next
  PROVE  \/ WireStays \/ Serve \/ SendEvent \/ read_packet \/ queue_packet
         \/ \E t \in Thread : Begins(t)
<1> USE DEF WireStays
<1>1. CASE ServerStep
  BY <1>1 DEF ServerStep, Close
<1>2. CASE ReaderStep
  BY <1>2 DEF ReaderStep, EndOfStream, ReaderFails, ReaderNotifies, wire
<1>3. ASSUME NEW t \in Thread, Continue(t) PROVE WireStays \/ Begins(t)
  <2>1. CASE Register(t) \/ Write(t) \/ WriteFails(t) \/ NotifyFailure(t) \/ SendRefused(t)
    BY <2>1 DEF Register, Write, WriteFails, NotifyFailure, SendRefused, wire
  <2>2. CASE CheckReply(t) \/ Block(t) \/ PushError(t) \/ LookUp(t) \/ CheckEvent(t)
    BY <2>2 DEF CheckReply, Block, PushError, LookUp, CheckEvent, wire
  <2>3. CASE send_bytes(t)
    BY <2>3, BothBegin
  <2> QED BY <1>3, <2>1, <2>2, <2>3 DEF Continue
<1>4. ASSUME NEW t \in Thread, Call(t) PROVE WireStays \/ Begins(t)
  <2>1. CASE request_check(t)
    BY <2>1, BothBegin
  <2>2. CASE \/ poll_for_reply(t) \/ discard_reply(t) \/ wait_for_event(t) \/ poll_for_event(t)
             \/ (\E report \in BOOLEAN : wait_for_reply(t, report)) \/ \E kind \in Kind : send(t, kind)
    BY <2>2 DEF send, poll_for_reply, discard_reply, wait_for_event, poll_for_event, wait_for_reply, wire
  <2> QED BY <1>4, <2>1, <2>2 DEF Call
<1> QED BY <1>1, <1>2, <1>3, <1>4 DEF Next

(* toClient grows by p. *)
Grows(p) ==
  /\ Len(toClient) \in Nat /\ DOMAIN toClient = 1..Len(toClient)
  /\ DOMAIN toClient' = 1..(Len(toClient) + 1)
  /\ \A i \in 1..Len(toClient) : toClient'[i] = toClient[i]
  /\ toClient'[Len(toClient) + 1] = p

(* An answer is the last packet on the wire. *)
LEMMA Serves ==
  ASSUME TypeOK, Numbered, Serve
  PROVE  /\ served' = served + 1 /\ served \in Nat /\ served + 1 <= sequence
         /\ \A i \in 1..served : answers'[i] = answers[i]
         /\ answers'[served + 1] \in {"reply", "error", "nothing"}
         /\ toServer[1].kind \in {"checked", "void"} => answers'[served + 1] \in {"nothing", "error"}
         /\ answers'[served + 1] = "nothing" => toClient' = toClient
         /\ answers'[served + 1] # "nothing" =>
              Grows([type |-> answers'[served + 1], seq |-> served + 1])
         /\ UNCHANGED <<sequence, reader, packet>>
<1>1. /\ toServer[1].seq = served + 1 /\ served' = served + 1 /\ served + 1 <= sequence
      /\ toServer # <<>> /\ toServer \in Seq(SentRecord)
      /\ UNCHANGED <<sequence, reader, packet>>
  BY ServedNext DEF TypeOK, SentRecord
<1>2. Head(toServer) = toServer[1]
  <2> DEFINE R == SentRecord
  <2>1. toServer \in Seq(R)
    BY <1>1
  <2> HIDE DEF R
  <2> QED BY <1>1, <2>1, Popped
<1>3. PICK answer \in {"reply", "error", "nothing"} :
        /\ Answer(served + 1, answer)
        /\ toServer[1].kind \in {"checked", "void"} => answer \in {"nothing", "error"}
  BY <1>1, <1>2 DEF Serve
<1>4. served \in Nat /\ sequence \in Nat
  BY ClientAssumption DEF TypeOK
<1>5. answers'[served + 1] = answer /\ \A i \in 1..served : answers'[i] = answers[i]
  BY <1>3, <1>4, AnswersGrow DEF Answer, TypeOK
<1>6. answer # "nothing" => Grows([type |-> answer, seq |-> served + 1])
  <2>1. answer # "nothing" => [type |-> answer, seq |-> served + 1] \in Packet
    BY <1>1, <1>3, <1>4, ClientAssumption DEF Packet, TypeOK
  <2>2. toClient \in Seq(Packet)
    BY DEF TypeOK
  <2> QED BY <1>3, <2>1, <2>2, Appended DEF Answer, Grows
<1>7. answer = "nothing" => toClient' = toClient
  BY <1>3 DEF Answer
<1> QED BY <1>1, <1>3, <1>4, <1>5, <1>6, <1>7

(* So is an event. *)
LEMMA SendsEvent ==
  ASSUME TypeOK, SendEvent
  PROVE  /\ Grows([type |-> "event", seq |-> served])
         /\ UNCHANGED <<served, answers, sequence, reader, packet>>
<1>1. [type |-> "event", seq |-> served] \in Packet /\ toClient \in Seq(Packet)
  BY ClientAssumption DEF Packet, TypeOK
<1>2. toClient' = Append(toClient, [type |-> "event", seq |-> served])
      /\ UNCHANGED <<served, answers, sequence, reader, packet>>
  BY DEF SendEvent
<1> QED BY <1>1, <1>2, Appended DEF Grows

(* The reader takes the first packet and widens its number to the true one. *)
LEMMA ReadsNext ==
  ASSUME TypeOK, InFlight, read_packet
  PROVE  /\ Len(toClient) \in Nat \ {0} /\ DOMAIN toClient = 1..Len(toClient)
         /\ DOMAIN toClient' = 1..(Len(toClient) - 1)
         /\ \A i \in 1..(Len(toClient) - 1) : toClient'[i] = toClient[i + 1]
         /\ packet' = toClient[1] /\ reader # "queue" /\ reader' = "queue"
         /\ UNCHANGED <<served, answers, sequence>>
<1>1. toClient # <<>> /\ toClient \in Seq(Packet) /\ toClient' = Tail(toClient)
      /\ reader # "queue" /\ reader' = "queue" /\ UNCHANGED <<served, answers, sequence>>
  BY DEF read_packet, TypeOK
<1> QED BY <1>1, Popped, ReadsHead

(* What queue_packet leaves alone. *)
LEMMA QueuesPacket ==
  ASSUME queue_packet
  PROVE  /\ reader = "queue" /\ reader' = "read"
         /\ UNCHANGED <<served, answers, toClient, sequence>>
BY DEF queue_packet, wire

(* What the beginning of a request leaves alone. *)
LEMMA BeginsOnly ==
  ASSUME NEW t \in Thread, Begins(t)
  PROVE  /\ sequence' = sequence + 1 /\ KeepsUp(sequence + 1)
         /\ UNCHANGED <<served, answers, toClient, packet, reader>>
BY DEF Begins, wire

(* The numbers of requests and packets are natural numbers. *)
LEMMA FlightNumbers ==
  ASSUME TypeOK
  PROVE  /\ served \in Nat /\ sequence \in Nat /\ served <= sequence /\ Modulus \in Nat
         /\ \A i \in DOMAIN toClient : toClient[i] \in Packet /\ toClient[i].seq \in Nat
         /\ packet \in Packet /\ packet.seq \in Nat
<1>1. \A p \in Packet : p.seq \in Nat
  BY ClientAssumption DEF Packet
<1>2. \A i \in DOMAIN toClient : toClient[i] \in Packet
  <2>1. toClient \in Seq(Packet)
    BY DEF TypeOK
  <2> HIDE DEF Packet
  <2> QED BY <2>1, LenProperties, ElementOfSeq
<1> QED BY <1>1, <1>2, ClientAssumption DEF TypeOK
-----------------------------------------------------------------------------
(* What InFlight says of the list of packets, of the packet at hand, and of
   the distance from the last request sent. *)
ListTrue ==
  \A i \in DOMAIN toClient : sequence - toClient[i].seq < Modulus /\ TrueOf(toClient[i])
ListOrdered ==
  \A i, j \in DOMAIN toClient :
    i < j /\ IsAnswer(toClient[i]) /\ IsAnswer(toClient[j]) => toClient[i].seq < toClient[j].seq
HandTrue ==
  reader = "queue" =>
    /\ TrueOf(packet)
    /\ IsAnswer(packet) => \A i \in DOMAIN toClient : IsAnswer(toClient[i]) => packet.seq < toClient[i].seq

(* InFlight is the conjunction of its clauses. *)
LEMMA FlightParts ==
  InFlight <=> sequence - served < Modulus /\ ListTrue /\ ListOrdered /\ HandTrue
BY DEF InFlight, ListTrue, ListOrdered, HandTrue

(* A packet that is true and in order may join those on the wire. *)
LEMMA FlightGrows ==
  ASSUME TypeOK, InFlight, NEW p, Grows(p), UNCHANGED <<sequence, reader, packet>>,
         served <= served', served' \in Nat, sequence - served' < Modulus,
         \A i \in 1..served : answers'[i] = answers[i],
         p.seq \in Nat, sequence - p.seq < Modulus, TrueOf(p)', IsAnswer(p) => p.seq = served + 1
  PROVE  InFlight'
<1>0. \A q : IsAnswer(q)' <=> IsAnswer(q)
  BY DEF IsAnswer
<1>1. \A q \in Packet : TrueOf(q) => TrueOf(q)'
  BY FlightNumbers DEF TrueOf, IsAnswer, Packet
<1>2. \A i \in DOMAIN toClient' : \/ i \in DOMAIN toClient /\ toClient'[i] = toClient[i]
                                  \/ i = Len(toClient) + 1 /\ toClient'[i] = p
  BY DEF Grows
<1>3. ListTrue'
  BY <1>1, <1>2, FlightNumbers, FlightParts DEF ListTrue
<1>4. \A i \in DOMAIN toClient : IsAnswer(toClient[i]) => toClient[i].seq < served + 1
  BY FlightNumbers, FlightParts DEF ListTrue, TrueOf
<1>5. ListOrdered'
  <2> SUFFICES ASSUME NEW i \in DOMAIN toClient', NEW j \in DOMAIN toClient', i < j,
                      IsAnswer(toClient'[i]), IsAnswer(toClient'[j])
               PROVE  toClient'[i].seq < toClient'[j].seq
    BY <1>0 DEF ListOrdered
  <2>1. i \in DOMAIN toClient /\ toClient'[i] = toClient[i]
    BY <1>2 DEF Grows
  <2>2. CASE j \in DOMAIN toClient /\ toClient'[j] = toClient[j]
    BY <2>1, <2>2, FlightParts DEF ListOrdered
  <2>3. CASE toClient'[j] = p
    BY <1>4, <2>1, <2>3
  <2> QED BY <1>2, <2>2, <2>3
<1>6. HandTrue'
  <2> SUFFICES ASSUME reader = "queue" PROVE HandTrue'
    BY DEF HandTrue
  <2>1. TrueOf(packet) /\ packet \in Packet /\ (TrueOf(packet)' <=> TrueOf(packet)')
    BY FlightParts, FlightNumbers DEF HandTrue
  <2>2. TrueOf(packet)'
    BY <2>1, FlightNumbers DEF TrueOf, IsAnswer, Packet
  <2>3. IsAnswer(packet) => packet.seq < served + 1
    BY <2>1, FlightNumbers DEF TrueOf
  <2>4. ASSUME IsAnswer(packet), NEW i \in DOMAIN toClient', IsAnswer(toClient'[i])
        PROVE  packet.seq < toClient'[i].seq
    <3>1. CASE i \in DOMAIN toClient /\ toClient'[i] = toClient[i]
      BY <2>4, <3>1, FlightParts DEF HandTrue
    <3>2. CASE toClient'[i] = p
      BY <2>3, <2>4, <3>2
    <3> QED BY <1>2, <3>1, <3>2
  <2> QED BY <1>0, <2>2, <2>4 DEF HandTrue
<1> QED BY <1>3, <1>5, <1>6, FlightParts DEF InFlight, ListTrue, ListOrdered, HandTrue

(* Every step keeps what the server has written true and in order. *)
LEMMA InFlightKept ==
  ASSUME IInv, Next
  PROVE  InFlight'
<1>0. TypeOK /\ Numbered /\ InFlight
  BY DEF IInv
<1> USE DEF IsAnswer
<1>1. CASE WireStays
  BY <1>0, <1>1 DEF WireStays, InFlight, TrueOf
<1>2. CASE Serve
  <2>1. /\ served' = served + 1 /\ served + 1 <= sequence
        /\ \A i \in 1..served : answers'[i] = answers[i]
        /\ UNCHANGED <<sequence, reader, packet>>
        /\ served \in Nat /\ sequence \in Nat /\ Modulus \in Nat /\ sequence - served < Modulus
    BY <1>0, <1>2, Serves, FlightNumbers DEF InFlight
  <2>2. CASE answers'[served + 1] = "nothing"
    <3>1. toClient' = toClient
      BY <1>0, <1>2, <2>2, Serves
    <3>2. \A q \in Packet : TrueOf(q) => TrueOf(q)'
      BY <2>1, FlightNumbers, <1>0 DEF TrueOf, Packet
    <3>3. ListTrue' /\ ListOrdered'
      BY <1>0, <2>1, <3>1, <3>2, FlightParts, FlightNumbers DEF ListTrue, ListOrdered
    <3>4. HandTrue'
      BY <1>0, <2>1, <3>1, FlightParts, FlightNumbers DEF HandTrue, TrueOf, Packet
    <3> QED BY <1>0, <2>1, <3>3, <3>4 DEF InFlight, ListTrue, ListOrdered, HandTrue
  <2>3. CASE answers'[served + 1] # "nothing"
    <3> PICK p : p = [type |-> answers'[served + 1], seq |-> served + 1]
      OBVIOUS
    <3>1. Grows(p)
      BY <1>0, <1>2, <2>3, Serves
    <3>2. p.seq = served + 1 /\ p.type = answers'[served + 1]
      OBVIOUS
    <3>3. TrueOf(p)'
      BY <2>1, <3>2 DEF TrueOf
    <3>4. p.seq \in Nat /\ sequence - p.seq < Modulus /\ sequence - served' < Modulus
          /\ served <= served' /\ served' \in Nat
      BY <2>1, <3>2
    <3> QED BY <1>0, <2>1, <3>1, <3>2, <3>3, <3>4, FlightGrows
  <2> QED BY <2>2, <2>3
<1>3. CASE SendEvent
  <2> PICK p : p = [type |-> "event", seq |-> served]
    OBVIOUS
  <2>1. Grows(p) /\ UNCHANGED <<served, answers, sequence, reader, packet>>
    BY <1>0, <1>3, SendsEvent
  <2>2. p.seq = served /\ p.type = "event"
    OBVIOUS
  <2>3. served \in Nat /\ sequence \in Nat /\ sequence - served < Modulus /\ Modulus \in Nat
    BY <1>0, FlightNumbers DEF InFlight
  <2>4. TrueOf(p)' /\ ~IsAnswer(p)
    BY <2>1, <2>2, <2>3 DEF TrueOf
  <2> QED BY <1>0, <2>1, <2>2, <2>3, <2>4, FlightGrows
<1>4. CASE read_packet
  <2>1. /\ Len(toClient) \in Nat \ {0} /\ DOMAIN toClient = 1..Len(toClient)
        /\ DOMAIN toClient' = 1..(Len(toClient) - 1)
        /\ \A i \in 1..(Len(toClient) - 1) : toClient'[i] = toClient[i + 1]
        /\ packet' = toClient[1]
        /\ UNCHANGED <<served, answers, sequence>>
    BY <1>0, <1>4, ReadsNext
  <2>2. \A i \in DOMAIN toClient' : /\ i \in Nat /\ i > 0 /\ i + 1 \in DOMAIN toClient
                                    /\ toClient'[i] = toClient[i + 1]
    BY <2>1
  <2>3. 1 \in DOMAIN toClient
    BY <2>1
  <2>4. ListTrue' /\ ListOrdered'
    BY <1>0, <2>1, <2>2, FlightParts, SMTT(40) DEF ListTrue, ListOrdered, TrueOf
  <2>5. HandTrue'
    BY <1>0, <2>1, <2>2, <2>3, FlightParts DEF ListTrue, ListOrdered, HandTrue, TrueOf
  <2> QED BY <1>0, <2>1, <2>4, <2>5 DEF InFlight, ListTrue, ListOrdered, HandTrue
<1>5. CASE queue_packet
  BY <1>0, <1>5, QueuesPacket DEF InFlight, TrueOf
<1>6. ASSUME NEW t \in Thread, Begins(t) PROVE InFlight'
  <2>1. /\ sequence' = sequence + 1 /\ KeepsUp(sequence + 1)
        /\ UNCHANGED <<served, answers, toClient, packet, reader>>
    BY <1>6, BeginsOnly
  <2> QED BY <1>0, <2>1 DEF InFlight, TrueOf, KeepsUp
<1> QED BY <1>0, <1>1, <1>2, <1>3, <1>4, <1>5, <1>6, Views
-----------------------------------------------------------------------------
(* Answers under way.                                                      *)

(* The reader puts the answer to s away. *)
Arrives(type, s) == queue_packet /\ packet.type = type /\ packet.seq = s

(* What was answered once stays answered so. *)
LEMMA AnswersStay ==
  ASSUME IInv, Next
  PROVE  /\ served \in Nat /\ served' \in Nat /\ served <= served'
         /\ \A s \in 1..served : s \in 1..served' /\ answers'[s] = answers[s]
<1>0. TypeOK /\ Numbered /\ InFlight /\ served \in Nat
  BY FlightNumbers DEF IInv
<1>1. CASE Serve
  BY <1>0, <1>1, Serves
<1>2. CASE ~Serve
  BY <1>0, <1>2, Views, SendsEvent, ReadsNext, QueuesPacket, BeginsOnly DEF WireStays
<1> QED BY <1>1, <1>2

(* Answers that have passed the reader have passed for good. *)
LEMMA PassedKept ==
  ASSUME IInv, Next, NEW s \in Nat, Passed(s)
  PROVE  Passed(s)'
<1>0. TypeOK /\ Numbered /\ InFlight /\ served \in Nat /\ s <= served
  BY FlightNumbers DEF IInv, Passed
<1> USE DEF IsAnswer
<1>1. CASE WireStays \/ queue_packet \/ \E t \in Thread : Begins(t)
  BY <1>1, QueuesPacket, BeginsOnly DEF WireStays, Passed
<1>2. ASSUME NEW p, Grows(p), UNCHANGED <<reader, packet>>, s <= served', p.type # "event" => s < p.seq
      PROVE  Passed(s)'
  <2>1. \A i \in DOMAIN toClient' : \/ i \in DOMAIN toClient /\ toClient'[i] = toClient[i]
                                    \/ toClient'[i] = p
    BY <1>2 DEF Grows
  <2> QED BY <1>2, <2>1 DEF Passed
<1>3. CASE Serve
  <2>1. served' = served + 1 /\ UNCHANGED <<reader, packet>>
    BY <1>0, <1>3, Serves
  <2>2. CASE answers'[served + 1] = "nothing"
    <3>1. toClient' = toClient
      BY <1>0, <1>3, <2>2, Serves
    <3> QED BY <1>0, <2>1, <3>1 DEF Passed
  <2>3. CASE answers'[served + 1] # "nothing"
    <3> PICK p : p = [type |-> answers'[served + 1], seq |-> served + 1]
      OBVIOUS
    <3>1. Grows(p) /\ p.seq = served + 1
      BY <1>0, <1>3, <2>3, Serves
    <3> QED BY <1>0, <1>2, <2>1, <3>1
  <2> QED BY <2>2, <2>3
<1>4. CASE SendEvent
  <2> PICK p : p = [type |-> "event", seq |-> served]
    OBVIOUS
  <2>1. Grows(p) /\ p.type = "event" /\ UNCHANGED <<served, reader, packet>>
    BY <1>0, <1>4, SendsEvent
  <2> QED BY <1>0, <1>2, <2>1
<1>5. CASE read_packet
  <2>1. /\ DOMAIN toClient = 1..Len(toClient) /\ Len(toClient) \in Nat \ {0}
        /\ DOMAIN toClient' = 1..(Len(toClient) - 1)
        /\ \A i \in 1..(Len(toClient) - 1) : toClient'[i] = toClient[i + 1]
        /\ packet' = toClient[1] /\ UNCHANGED served
    BY <1>0, <1>5, ReadsNext
  <2>2. \A i \in DOMAIN toClient' : i + 1 \in DOMAIN toClient /\ toClient'[i] = toClient[i + 1]
    BY <2>1
  <2>3. 1 \in DOMAIN toClient
    BY <2>1
  <2> QED BY <2>1, <2>2, <2>3 DEF Passed
<1> QED BY <1>0, <1>1, <1>3, <1>4, <1>5, Views

(* The packet that is put away has nothing before it. *)
LEMMA PassedArrives ==
  ASSUME IInv, NEW type \in {"reply", "error"}, NEW s, Arrives(type, s)
  PROVE  s \in 1..served /\ answers[s] = type /\ Passed(s)'
<1>1. reader = "queue" /\ reader' = "read" /\ UNCHANGED <<served, answers, toClient>>
  BY QueuesPacket DEF Arrives
<1>2. TrueOf(packet) /\ IsAnswer(packet) /\ packet.type = type /\ packet.seq = s
  BY <1>1 DEF IInv, InFlight, Arrives, IsAnswer
<1>3. s \in 1..served /\ answers[s] = type
  BY <1>2 DEF TrueOf
<1>4. \A i \in DOMAIN toClient : IsAnswer(toClient[i]) => s < toClient[i].seq
  BY <1>1, <1>2 DEF IInv, InFlight
<1> QED BY <1>1, <1>3, <1>4, FlightNumbers DEF Passed, IsAnswer, IInv

(* What was truly kept is truly kept on. *)
LEMMA KeptStays ==
  ASSUME IInv, Next, NEW s, NEW answer, Kept(s, answer)
  PROVE  Kept(s, answer)'
<1>1. s \in 1..served /\ answers[s] = answer /\ Passed(s)
  BY DEF Kept
<1>2. s \in 1..served' /\ answers'[s] = answer
  BY <1>1, AnswersStay
<1>3. Passed(s)'
  BY <1>1, AnswersStay, PassedKept
<1> QED BY <1>2, <1>3 DEF Kept

(* What queue_packet puts away is truly kept. *)
LEMMA KeptArrives ==
  ASSUME IInv, Next, NEW type \in {"reply", "error"}, NEW s, Arrives(type, s)
  PROVE  Kept(s, type)'
BY PassedArrives, AnswersStay DEF Kept

(* An answer on its way stays so until queue_packet puts it away. *)
LEMMA TransitKept ==
  ASSUME IInv, Next, NEW type, NEW s, InTransit(type, s)
  PROVE  InTransit(type, s)' \/ Arrives(type, s)
<1>0. TypeOK /\ Numbered /\ InFlight
  BY DEF IInv
<1>1. CASE WireStays \/ \E t \in Thread : Begins(t)
  BY <1>1, BeginsOnly DEF WireStays, InTransit
<1>2. ASSUME NEW p, Grows(p), UNCHANGED <<reader, packet>> PROVE InTransit(type, s)'
  BY <1>2 DEF InTransit, Grows
<1>3. CASE Serve
  <2>1. UNCHANGED <<reader, packet>>
    BY <1>0, <1>3, Serves
  <2>2. CASE answers'[served + 1] = "nothing"
    BY <1>0, <1>3, <2>1, <2>2, Serves DEF InTransit
  <2>3. CASE answers'[served + 1] # "nothing"
    <3> PICK p : p = [type |-> answers'[served + 1], seq |-> served + 1]
      OBVIOUS
    <3>1. Grows(p)
      BY <1>0, <1>3, <2>3, Serves
    <3> QED BY <1>2, <2>1, <3>1
  <2> QED BY <2>2, <2>3
<1>4. CASE SendEvent
  <2> PICK p : p = [type |-> "event", seq |-> served]
    OBVIOUS
  <2>1. Grows(p) /\ UNCHANGED <<reader, packet>>
    BY <1>0, <1>4, SendsEvent
  <2> QED BY <1>2, <2>1
<1>5. CASE read_packet
  <2>1. /\ DOMAIN toClient = 1..Len(toClient) /\ Len(toClient) \in Nat \ {0}
        /\ DOMAIN toClient' = 1..(Len(toClient) - 1)
        /\ \A i \in 1..(Len(toClient) - 1) : toClient'[i] = toClient[i + 1]
        /\ packet' = toClient[1] /\ reader' = "queue" /\ reader # "queue"
    BY <1>0, <1>5, ReadsNext
  <2>2. PICK i \in DOMAIN toClient : toClient[i] = [type |-> type, seq |-> s]
    BY <2>1 DEF InTransit
  <2>3. CASE i = 1
    BY <2>1, <2>2, <2>3 DEF InTransit
  <2>4. CASE i # 1
    <3>1. i - 1 \in DOMAIN toClient' /\ toClient'[i - 1] = toClient[i]
      <4>1. i - 1 \in 1..(Len(toClient) - 1) /\ (i - 1) + 1 = i
        BY <2>1, <2>4
      <4> QED BY <2>1, <4>1
    <3> QED BY <2>2, <3>1 DEF InTransit
  <2> QED BY <2>3, <2>4
<1>6. CASE queue_packet
  <2>1. toClient' = toClient
    BY <1>6, QueuesPacket
  <2>2. CASE reader = "queue" /\ packet = [type |-> type, seq |-> s]
    BY <1>6, <2>2 DEF Arrives
  <2> QED BY <2>1, <2>2 DEF InTransit
<1> QED BY <1>0, <1>1, <1>3, <1>4, <1>5, <1>6, Views

(* What passed is not under way. *)
LEMMA PassedGone ==
  ASSUME IInv, NEW type \in {"reply", "error"}, NEW s \in Nat, NEW r \in Nat, Passed(r), s <= r
  PROVE  ~InTransit(type, s)
<1> SUFFICES ASSUME InTransit(type, s) PROVE FALSE
  OBVIOUS
<1> PICK p : p = [type |-> type, seq |-> s]
  OBVIOUS
<1>1. p.seq = s /\ IsAnswer(p)
  BY DEF IsAnswer
<1>2. (\E i \in DOMAIN toClient : toClient[i] = p) \/ (reader = "queue" /\ packet = p)
  BY DEF InTransit
<1> QED BY <1>1, <1>2 DEF Passed
-----------------------------------------------------------------------------
(* The tables: where what is in them comes from, and where it goes.        *)

PushesBack(t, s) == pc[t] = "push_error" /\ call[t].seq = s
ErrorEvent(i, s) == events[i].type = "error" /\ events[i].seq = s

(* What the tables hold was there, or has just arrived. *)
Origins ==
  /\ \A s \in errors' : s \in errors \/ Arrives("error", s)
  /\ \A s \in replies' : s \in replies \/ Arrives("reply", s)
  /\ \A i \in DOMAIN events' : \A s : ErrorEvent(i, s)' =>
       \/ \E j \in DOMAIN events : ErrorEvent(j, s)
       \/ Arrives("error", s)
       \/ \E t \in Thread : PushesBack(t, s)
  /\ \A t \in Thread : \A s : PushesBack(t, s)' => PushesBack(t, s) \/ s \in errors

(* What they held is there, went on, or was handed over. *)
Fates ==
  /\ \A s \in errors : \/ s \in errors' \/ s \in DOMAIN results'
                       \/ \E t \in Thread : PushesBack(t, s)'
  /\ \A s \in replies : s \in replies' \/ s \in DOMAIN results'
  /\ \A i \in DOMAIN events : \A s : ErrorEvent(i, s) =>
       s \in DOMAIN results' \/ \E j \in DOMAIN events' : ErrorEvent(j, s)'
  /\ \A t \in Thread : \A s : PushesBack(t, s) =>
       PushesBack(t, s)' \/ \E j \in DOMAIN events' : ErrorEvent(j, s)'
  /\ DOMAIN results \subseteq DOMAIN results'

(* Why the application is told what it is told. *)
Justified(s, result) ==
  \/ result \in {"error", "dropped"} /\ s \in errors
  \/ result = "reply" /\ s \in replies
  \/ result = "null" /\ failed
  \/ result = "discarded"
  \/ result = "pushed" /\ \E t \in Thread : PushesBack(t, s)
  \/ result = "event" /\ \E i \in DOMAIN events : ErrorEvent(i, s)
  \/ result = "nothing" /\ s \notin errors /\ \E t \in Thread : pc[t] = "look_up" /\ call[t].target = s

Told ==
  \A s \in DOMAIN results' :
    \/ s \in DOMAIN results /\ results'[s] = results[s]
    \/ Justified(s, results'[s])

Effects == Origins /\ Fates /\ Told

(* What Tell does to the results. *)
LEMMA Tells ==
  ASSUME NEW s, NEW result, Tell(s, result)
  PROVE  /\ s \in DOMAIN results' /\ results'[s] = result
         /\ DOMAIN results' = DOMAIN results \cup {s}
         /\ \A n \in DOMAIN results : n # s => results'[n] = results[n]
BY DEF Tell

(* A result told for a reason. *)
LEMMA TellsFor ==
  ASSUME NEW s, NEW result, Tell(s, result), Justified(s, result)
  PROVE  Told /\ s \in DOMAIN results' /\ DOMAIN results \subseteq DOMAIN results'
<1>0. /\ DOMAIN results' = DOMAIN results \cup {s}
      /\ results'[s] = result /\ \A n \in DOMAIN results : n # s => results'[n] = results[n]
  BY Tells
<1>1. ASSUME NEW n \in DOMAIN results'
      PROVE  \/ n \in DOMAIN results /\ results'[n] = results[n]
             \/ Justified(n, results'[n])
  <2>1. CASE n = s
    BY <1>0, <2>1
  <2>2. CASE n # s
    BY <1>0, <1>1, <2>2
  <2> QED BY <2>1, <2>2
<1> QED BY <1>0, <1>1 DEF Told

(* A step that leaves the tables and the events alone. *)
TablesStay ==
  /\ UNCHANGED <<errors, replies, events>>
  /\ \A u \in Thread : /\ pc[u] = "push_error" <=> pc'[u] = "push_error"
                       /\ pc[u] = "push_error" => call'[u] = call[u]

(* A step that leaves the tables alone has the effects asked for. *)
LEMMA StayingEffects ==
  ASSUME TablesStay
  PROVE  /\ Origins
         /\ DOMAIN results \subseteq DOMAIN results' => Fates
BY DEF TablesStay, Origins, Fates, PushesBack, ErrorEvent

(* The steps of the server and of the senders leave the tables alone. *)
LEMMA QuietEffects ==
  ASSUME TypeOK,
         \/ ServerStep \/ read_packet \/ EndOfStream \/ ReaderFails \/ ReaderNotifies
         \/ \E t \in Thread :
              \/ Begins(t) \/ Register(t) \/ Write(t) \/ WriteFails(t) \/ NotifyFailure(t) \/ Block(t)
              \/ wait_for_event(t) \/ (\E report \in BOOLEAN : wait_for_reply(t, report))
              \/ SendRefused(t) \/ \E kind \in Kind : send(t, kind)
  PROVE  Effects
<1>0. pc \in [Thread -> Place]
  BY DEF TypeOK
<1>1. ASSUME TablesStay, UNCHANGED results PROVE Effects
  BY <1>1, StayingEffects DEF Effects, Told
<1>2. CASE ServerStep
  BY <1>1, <1>2 DEF ServerStep, Serve, SendEvent, Close, TablesStay, tables, queue
<1>3. CASE read_packet \/ EndOfStream \/ ReaderFails
  BY <1>1, <1>3 DEF read_packet, EndOfStream, ReaderFails, TablesStay, tables, queue
<1>4. CASE ReaderNotifies
  <2>1. UNCHANGED <<errors, replies, events, results, call>> /\ pc' = Woken(pc)
    BY <1>4 DEF ReaderNotifies, tables, queue
  <2>2. \A u \in Thread : pc[u] = "push_error" <=> Woken(pc)[u] = "push_error"
    BY <1>0, WokenPlaces
  <2> QED BY <1>1, <2>1, <2>2 DEF TablesStay
<1>5. ASSUME NEW t \in Thread, Begins(t) PROVE Effects
  <2>1. TablesStay /\ UNCHANGED results
    BY <1>0, <1>5 DEF Begins, Sending, TablesStay, tables, queue
  <2> QED BY <1>1, <2>1
<1>6. ASSUME NEW t \in Thread, Register(t) \/ WriteFails(t) \/ Block(t) \/ wait_for_event(t)
      PROVE  Effects
  <2>1. TablesStay /\ UNCHANGED results
    BY <1>0, <1>6 DEF Register, WriteFails, Block, wait_for_event, Goto, TablesStay, tables, queue
  <2> QED BY <1>1, <2>1
<1>7. ASSUME NEW t \in Thread, NEW report \in BOOLEAN, wait_for_reply(t, report) PROVE Effects
  <2>1. TablesStay /\ UNCHANGED results
    BY <1>0, <1>7 DEF wait_for_reply, Goto, TablesStay, tables, queue, TypeOK
  <2> QED BY <1>1, <2>1
<1>8. ASSUME NEW t \in Thread, Write(t) PROVE Effects
  <2>1. TablesStay
    BY <1>0, <1>8 DEF Write, Goto, TablesStay, tables, queue, TypeOK
  <2>2. Told /\ DOMAIN results \subseteq DOMAIN results'
    <3>1. CASE call[t].kind = "discard"
      BY <1>8, <3>1, TellsFor DEF Write, Justified
    <3>2. CASE call[t].kind # "discard"
      BY <1>8, <3>2 DEF Write, Told
    <3> QED BY <3>1, <3>2
  <2> QED BY <2>1, <2>2, StayingEffects DEF Effects
<1>9. ASSUME NEW t \in Thread, NotifyFailure(t) PROVE Effects
  <2> PICK P : P = [pc EXCEPT ![t] = "idle"]
    OBVIOUS
  <2>1. P \in [Thread -> Place] /\ pc[t] = "undo" /\ pc' = Woken(P)
    BY <1>0, <1>9 DEF NotifyFailure, Place
  <2>2. \A u \in Thread : P[u] = "push_error" <=> Woken(P)[u] = "push_error"
    BY <2>1, WokenPlaces
  <2>3. \A u \in Thread : pc[u] = "push_error" <=> P[u] = "push_error"
    BY <1>0, <2>1
  <2>4. UNCHANGED <<errors, replies, events, results>> /\ \A u \in Thread : u # t => call'[u] = call[u]
    BY <1>9 DEF NotifyFailure, tables, queue, TypeOK
  <2>5. TablesStay
    BY <2>1, <2>2, <2>3, <2>4 DEF TablesStay
  <2> QED BY <1>1, <2>4, <2>5
<1>10. ASSUME NEW t \in Thread, SendRefused(t) \/ \E kind \in Kind : send(t, kind) PROVE Effects
  <2>1. TablesStay /\ UNCHANGED results
    BY <1>0, <1>10 DEF send, SendRefused, Goto, TablesStay, tables, queue, TypeOK
  <2> QED BY <1>1, <2>1
<1> QED BY <1>2, <1>3, <1>4, <1>5, <1>6, <1>7, <1>8, <1>9, <1>10

(* queue_packet puts an answer where it belongs. *)
LEMMA ArrivalEffects ==
  ASSUME TypeOK, queue_packet
  PROVE  Effects
<1>1. UNCHANGED <<results, call>> /\ pc' = Woken(pc)
  BY DEF queue_packet
<1>2. \A u \in Thread : \A s : PushesBack(u, s)' <=> PushesBack(u, s)
  <2>1. \A u \in Thread : pc[u] = "push_error" <=> Woken(pc)[u] = "push_error"
    BY WokenPlaces DEF TypeOK
  <2> QED BY <1>1, <2>1 DEF PushesBack
<1>3. packet \in Packet /\ events \in Seq(Packet)
  BY DEF TypeOK
<1>4. ASSUME events' = Append(events, packet)
      PROVE  /\ \A i \in DOMAIN events' : \A s : ErrorEvent(i, s)' =>
                  \/ \E j \in DOMAIN events : ErrorEvent(j, s)
                  \/ packet.type = "error" /\ packet.seq = s
             /\ \A i \in DOMAIN events : \A s : ErrorEvent(i, s) => i \in DOMAIN events' /\ ErrorEvent(i, s)'
  <2>1. \A i \in DOMAIN events' : \/ i \in DOMAIN events /\ events'[i] = events[i]
                                  \/ events'[i] = packet
    BY <1>3, <1>4, Appended
  <2>2. \A i \in DOMAIN events : i \in DOMAIN events' /\ events'[i] = events[i]
    BY <1>3, <1>4, Appended
  <2> QED BY <2>1, <2>2 DEF ErrorEvent
<1>5. \/ UNCHANGED events
      \/ events' = Append(events, packet) /\ UNCHANGED <<errors, replies>>
  BY DEF queue_packet, queue_reply, queue_error, queue_event, queue, tables
<1>6. /\ errors' = errors \/ (packet.type = "error" /\ errors' = errors \cup {packet.seq})
      /\ replies' = replies \/ (packet.type = "reply" /\ replies' = replies \cup {packet.seq})
  BY DEF queue_packet, queue_reply, queue_error, queue, tables
<1>7. Origins
  <2>1. \A i \in DOMAIN events' : \A s : ErrorEvent(i, s)' =>
          (\E j \in DOMAIN events : ErrorEvent(j, s)) \/ Arrives("error", s)
    BY <1>4, <1>5 DEF Arrives, ErrorEvent
  <2> QED BY <1>2, <1>6, <2>1 DEF Origins, Arrives
<1>8. Fates
  <2>1. \A i \in DOMAIN events : \A s : ErrorEvent(i, s) => \E j \in DOMAIN events' : ErrorEvent(j, s)'
    BY <1>4, <1>5 DEF ErrorEvent
  <2> QED BY <1>1, <1>2, <1>6, <2>1 DEF Fates
<1> QED BY <1>1, <1>7, <1>8 DEF Effects, Told

(* The number s leaves errors_ and replies_, and the application is told, or it is
   put back among the events. *)
LEMMA HandOver ==
  ASSUME NEW s, errors \ {s} \subseteq errors', errors' \subseteq errors,
         replies \ {s} \subseteq replies', replies' \subseteq replies,
         UNCHANGED events,
         \A u \in Thread : \A r : PushesBack(u, r)' <=> PushesBack(u, r),
         Told, s \in DOMAIN results', DOMAIN results \subseteq DOMAIN results'
  PROVE  Effects
BY DEF Effects, Origins, Fates, ErrorEvent

(* What the end of wait_for_reply does. *)
LEMMA Returns ==
  ASSUME TypeOK, NEW t \in Thread, NEW result, Return(t, result)
  PROVE  /\ Tell(call[t].seq, result)
         /\ pc' = [pc EXCEPT ![t] = IF call[t].kind = "sync" THEN "look_up" ELSE "idle"]
         /\ call' = IF call[t].kind = "sync" THEN call ELSE [call EXCEPT ![t] = NoCall]
         /\ \A u \in Thread : \A r : u # t => (PushesBack(u, r)' <=> PushesBack(u, r))
         /\ \A r : ~PushesBack(t, r)'
<1>1. /\ Tell(call[t].seq, result)
      /\ pc' = [pc EXCEPT ![t] = IF call[t].kind = "sync" THEN "look_up" ELSE "idle"]
      /\ call' = IF call[t].kind = "sync" THEN call ELSE [call EXCEPT ![t] = NoCall]
  BY DEF Return, Goto
<1>2. pc'[t] # "push_error" /\ \A u \in Thread : u # t => pc'[u] = pc[u] /\ call'[u] = call[u]
  BY <1>1 DEF TypeOK
<1> QED BY <1>1, <1>2 DEF PushesBack

(* wait_for_reply hands on what it finds, *)
LEMMA CheckReplyEffects ==
  ASSUME TypeOK, NEW t \in Thread, CheckReply(t)
  PROVE  Effects
<1> PICK s : s = call[t].seq
  OBVIOUS
<1>0. pc[t] = "check_reply" /\ \A r : ~PushesBack(t, r)
  BY DEF CheckReply, PushesBack
<1>1. UNCHANGED events
  BY DEF CheckReply, queue
<1>2. ASSUME NEW result, Return(t, result), Justified(s, result),
             errors \ {s} \subseteq errors', errors' \subseteq errors,
             replies \ {s} \subseteq replies', replies' \subseteq replies
      PROVE  Effects
  <2>1. Told /\ s \in DOMAIN results' /\ DOMAIN results \subseteq DOMAIN results'
    BY <1>2, Returns, TellsFor
  <2>2. \A u \in Thread : \A r : PushesBack(u, r)' <=> PushesBack(u, r)
    BY <1>0, <1>2, Returns
  <2> QED BY <1>1, <1>2, <2>1, <2>2, HandOver
<1>3. CASE s \in errors /\ call[t].report
  <2>1. Return(t, "error") /\ errors' = errors \ {s} /\ UNCHANGED replies
    BY <1>3 DEF CheckReply
  <2> QED BY <1>2, <1>3, <2>1 DEF Justified
<1>4. CASE s \in errors /\ ~call[t].report
  <2>1. /\ Goto(t, "push_error") /\ errors' = errors \ {s}
        /\ UNCHANGED <<call, results, replies>>
    BY <1>4 DEF CheckReply
  <2>2. \A u \in Thread : u # t => pc'[u] = pc[u]
    BY <2>1 DEF Goto, TypeOK
  <2>3. PushesBack(t, s)' /\ \A r : PushesBack(t, r)' => r = s
    BY <2>1 DEF Goto, TypeOK, PushesBack
  <2>4. \A u \in Thread : \A r : u # t => (PushesBack(u, r)' <=> PushesBack(u, r))
    BY <2>1, <2>2 DEF PushesBack
  <2>5. Origins
    BY <1>1, <1>4, <2>1, <2>3, <2>4 DEF Origins, ErrorEvent
  <2>6. Fates
    BY <1>0, <1>1, <2>1, <2>3, <2>4 DEF Fates, ErrorEvent
  <2> QED BY <2>1, <2>5, <2>6 DEF Effects, Told
<1>5. CASE s \notin errors /\ s \in replies
  <2>1. Return(t, "reply") /\ replies' = replies \ {s} /\ UNCHANGED errors
    BY <1>5 DEF CheckReply
  <2> QED BY <1>2, <1>5, <2>1 DEF Justified
<1>6. CASE s \notin errors \cup replies /\ failed
  <2>1. Return(t, "null") /\ UNCHANGED <<errors, replies>>
    BY <1>6 DEF CheckReply
  <2> QED BY <1>2, <1>6, <2>1 DEF Justified
<1>7. CASE s \notin errors \cup replies /\ ~failed
  <2>1. Goto(t, "block_reply") /\ UNCHANGED <<errors, replies, call, results>>
    BY <1>7 DEF CheckReply
  <2>2. TablesStay
    BY <1>0, <1>1, <2>1 DEF Goto, TypeOK, TablesStay
  <2> QED BY <2>1, <2>2, StayingEffects DEF Effects, Told
<1> QED BY <1>3, <1>4, <1>5, <1>6, <1>7

(* puts an error it may not report among the events, *)
LEMMA PushErrorEffects ==
  ASSUME TypeOK, Calls, NEW t \in Thread, PushError(t)
  PROVE  Effects
<1> PICK p : p = [type |-> "error", seq |-> call[t].seq]
  OBVIOUS
<1>1. /\ PushesBack(t, call[t].seq) /\ Return(t, "pushed") /\ events' = Append(events, p)
      /\ UNCHANGED <<errors, replies>>
  BY DEF PushError, PushesBack, tables
<1>2. call[t].seq \in 0..(2 * MaxRequests) /\ p.type = "error" /\ p.seq = call[t].seq
  BY DEF TypeOK
<1>3. p \in Packet /\ events \in Seq(Packet)
  BY <1>2 DEF Packet, TypeOK
<1>4. /\ \A i \in DOMAIN events' : \/ i \in DOMAIN events /\ events'[i] = events[i]
                                  \/ events'[i] = p
      /\ \A i \in DOMAIN events : i \in DOMAIN events' /\ events'[i] = events[i]
      /\ Len(events) + 1 \in DOMAIN events' /\ events'[Len(events) + 1] = p
  BY <1>1, <1>3, Appended
<1>5. Told /\ DOMAIN results \subseteq DOMAIN results'
  BY <1>1, Returns, TellsFor DEF Justified
<1>6. /\ \A u \in Thread : \A r : u # t => (PushesBack(u, r)' <=> PushesBack(u, r))
      /\ \A r : ~PushesBack(t, r)'
  BY <1>1, Returns
<1>7. Origins
  <2>1. \A i \in DOMAIN events' : \A s : ErrorEvent(i, s)' =>
          (\E j \in DOMAIN events : ErrorEvent(j, s)) \/ PushesBack(t, s)
    BY <1>1, <1>2, <1>4 DEF ErrorEvent, PushesBack
  <2> QED BY <1>1, <1>6, <2>1 DEF Origins
<1>8. Fates
  <2>1. \A i \in DOMAIN events : \A s : ErrorEvent(i, s) => \E j \in DOMAIN events' : ErrorEvent(j, s)'
    BY <1>4 DEF ErrorEvent
  <2>2. \A s : PushesBack(t, s) => \E j \in DOMAIN events' : ErrorEvent(j, s)'
    BY <1>2, <1>4 DEF ErrorEvent, PushesBack
  <2> QED BY <1>1, <1>5, <1>6, <2>1, <2>2 DEF Fates
<1> QED BY <1>5, <1>7, <1>8 DEF Effects

(* as do poll_for_reply, discard_reply and request_check, *)
LEMMA CollectEffects ==
  ASSUME TypeOK, NEW t \in Thread, poll_for_reply(t) \/ discard_reply(t) \/ LookUp(t)
  PROVE  Effects
<1>1. CASE poll_for_reply(t)
  <2>1. PICK s \in Number :
          /\ \/ s \in errors /\ \E result \in {"error", "dropped"} : Tell(s, result)
             \/ s \in replies /\ s \notin errors /\ Tell(s, "reply")
          /\ errors' = errors \ {s}
          /\ replies' = IF s \in errors THEN replies ELSE replies \ {s}
    BY <1>1 DEF poll_for_reply
  <2>2. Told /\ s \in DOMAIN results' /\ DOMAIN results \subseteq DOMAIN results'
    BY <2>1, TellsFor DEF Justified
  <2>3. UNCHANGED <<events, pc, call>>
    BY <1>1 DEF poll_for_reply, queue
  <2>4. \A u \in Thread : \A r : PushesBack(u, r)' <=> PushesBack(u, r)
    BY <2>3 DEF PushesBack
  <2> QED BY <2>1, <2>2, <2>3, <2>4, HandOver
<1>2. CASE discard_reply(t)
  <2>1. PICK s \in Number :
          /\ IF s \in replies THEN replies' = replies \ {s} ELSE UNCHANGED replies
          /\ errors' = errors \ {s}
          /\ Tell(s, "discarded")
    BY <1>2 DEF discard_reply
  <2>2. Told /\ s \in DOMAIN results' /\ DOMAIN results \subseteq DOMAIN results'
    BY <2>1, TellsFor DEF Justified
  <2>3. UNCHANGED <<events, pc, call>>
    BY <1>2 DEF discard_reply, queue
  <2>4. \A u \in Thread : \A r : PushesBack(u, r)' <=> PushesBack(u, r)
    BY <2>3 DEF PushesBack
  <2> QED BY <2>1, <2>2, <2>3, <2>4, HandOver
<1>3. CASE LookUp(t)
  <2> PICK s : s = call[t].target
    OBVIOUS
  <2>1. /\ errors' = errors \ {s} /\ UNCHANGED <<replies, events>>
        /\ Tell(s, IF s \in errors THEN "error" ELSE "nothing")
        /\ pc[t] = "look_up" /\ pc' = [pc EXCEPT ![t] = "idle"]
        /\ call' = [call EXCEPT ![t] = NoCall]
    BY <1>3 DEF LookUp, queue, Goto
  <2>2. Told /\ s \in DOMAIN results' /\ DOMAIN results \subseteq DOMAIN results'
    BY <2>1, TellsFor DEF Justified
  <2>3. /\ \A u \in Thread : u # t => pc'[u] = pc[u] /\ call'[u] = call[u]
        /\ pc'[t] = "idle"
    BY <2>1 DEF TypeOK
  <2>4. \A u \in Thread : \A r : PushesBack(u, r)' <=> PushesBack(u, r)
    BY <2>1, <2>3 DEF PushesBack
  <2> QED BY <2>1, <2>2, <2>4, HandOver
<1> QED BY <1>1, <1>2, <1>3

(* and those who take events. *)
LEMMA EventEffects ==
  ASSUME TypeOK, NEW t \in Thread, CheckEvent(t) \/ poll_for_event(t)
  PROVE  Effects
<1>1. \A u \in Thread : /\ pc[u] = "push_error" <=> pc'[u] = "push_error"
                       /\ call'[u] = call[u]
  BY DEF CheckEvent, poll_for_event, Goto, TypeOK
<1>2. UNCHANGED <<errors, replies>>
  BY DEF CheckEvent, poll_for_event, tables
<1>3. CASE UNCHANGED <<events, results>>
  BY <1>1, <1>2, <1>3, StayingEffects DEF TablesStay, Effects, Told
<1>4. CASE events # <<>> /\ TakeEvent
  <2>1. /\ Len(events) \in Nat \ {0} /\ DOMAIN events = 1..Len(events) /\ Head(events) = events[1]
        /\ DOMAIN events' = 1..(Len(events) - 1)
        /\ \A i \in 1..(Len(events) - 1) : events'[i] = events[i + 1]
    <3>1. events \in Seq(Packet) /\ events' = Tail(events)
      BY <1>4 DEF TypeOK, TakeEvent
    <3> QED BY <1>4, <3>1, Popped
  <2>2. TellError(events[1]) /\ 1 \in DOMAIN events
    BY <1>4, <2>1 DEF TakeEvent
  <2>3. /\ Told /\ DOMAIN results \subseteq DOMAIN results'
        /\ \A s : ErrorEvent(1, s) => s \in DOMAIN results'
    <3>1. CASE events[1].type = "error" /\ events[1].seq \notin DOMAIN results
      <4>1. Justified(events[1].seq, "event")
        BY <2>2, <3>1 DEF Justified, ErrorEvent
      <4>2. Tell(events[1].seq, "event")
        BY <2>2, <3>1 DEF TellError
      <4> QED BY <4>1, <4>2, TellsFor DEF ErrorEvent
    <3>2. CASE ~(events[1].type = "error" /\ events[1].seq \notin DOMAIN results)
      BY <2>2, <3>2 DEF TellError, Told, ErrorEvent
    <3> QED BY <3>1, <3>2
  <2>4. \A i \in DOMAIN events' : i + 1 \in DOMAIN events /\ events'[i] = events[i + 1]
    BY <2>1
  <2>5. \A i \in DOMAIN events : i = 1 \/ (i - 1 \in DOMAIN events' /\ events'[i - 1] = events[i])
    <3> SUFFICES ASSUME NEW i \in DOMAIN events, i # 1
                 PROVE  i - 1 \in DOMAIN events' /\ events'[i - 1] = events[i]
      OBVIOUS
    <3>1. i - 1 \in 1..(Len(events) - 1) /\ (i - 1) + 1 = i
      BY <2>1
    <3> QED BY <2>1, <3>1
  <2>6. \A u \in Thread : \A r : PushesBack(u, r)' <=> PushesBack(u, r)
    BY <1>1 DEF PushesBack
  <2>7. Origins
    BY <1>2, <2>4, <2>6 DEF Origins, ErrorEvent
  <2>8. Fates
    <3>1. \A i \in DOMAIN events : \A s : ErrorEvent(i, s) =>
            s \in DOMAIN results' \/ \E j \in DOMAIN events' : ErrorEvent(j, s)'
      BY <2>3, <2>5 DEF ErrorEvent
    <3> QED BY <1>2, <2>3, <2>6, <3>1 DEF Fates
  <2> QED BY <2>3, <2>7, <2>8 DEF Effects
<1> QED BY <1>3, <1>4 DEF CheckEvent, poll_for_event, queue

(* Every step accounts for what it takes from the tables. *)
LEMMA EveryEffect ==
  ASSUME IInv, Next
  PROVE  Effects
<1>0. TypeOK /\ Calls
  BY DEF IInv
<1>1. CASE ServerStep \/ ReaderStep
  BY <1>0, <1>1, QuietEffects, ArrivalEffects DEF ReaderStep
<1>2. ASSUME NEW t \in Thread, Continue(t) PROVE Effects
  <2>1. CASE \/ Register(t) \/ Write(t) \/ WriteFails(t) \/ NotifyFailure(t) \/ Block(t)
             \/ SendRefused(t)
    BY <1>0, <2>1, QuietEffects
  <2>6. CASE send_bytes(t)
    BY <1>0, <2>6, BothBegin, QuietEffects
  <2>2. CASE CheckReply(t)
    BY <1>0, <2>2, CheckReplyEffects
  <2>3. CASE PushError(t)
    BY <1>0, <2>3, PushErrorEffects
  <2>4. CASE LookUp(t)
    BY <1>0, <2>4, CollectEffects
  <2>5. CASE CheckEvent(t)
    BY <1>0, <2>5, EventEffects
  <2> QED BY <1>2, <2>1, <2>2, <2>3, <2>4, <2>5, <2>6 DEF Continue
<1>3. ASSUME NEW t \in Thread, Call(t) PROVE Effects
  <2>1. CASE request_check(t)
    BY <1>0, <2>1, BothBegin, QuietEffects
  <2>2. CASE \/ wait_for_event(t) \/ (\E report \in BOOLEAN : wait_for_reply(t, report))
             \/ \E kind \in Kind : send(t, kind)
    BY <1>0, <2>2, QuietEffects
  <2>3. CASE poll_for_reply(t) \/ discard_reply(t)
    BY <1>0, <2>3, CollectEffects
  <2>4. CASE poll_for_event(t)
    BY <1>0, <2>4, EventEffects
  <2> QED BY <1>3, <2>1, <2>2, <2>3, <2>4 DEF Call
<1> QED BY <1>1, <1>2, <1>3 DEF Next
-----------------------------------------------------------------------------
(* Answers are kept, true, and told as they are.                           *)

(* Every step keeps the tables true. *)
LEMMA KeptTrueKept ==
  ASSUME IInv, Next
  PROVE  KeptTrue'
<1>0. Origins /\ KeptTrue
  BY EveryEffect DEF IInv, Effects
<1>1. \A s : Arrives("error", s) => Kept(s, "error")'
  BY KeptArrives
<1>2. \A s : Arrives("reply", s) => Kept(s, "reply")'
  BY KeptArrives
<1>3. \A s : Kept(s, "error") => Kept(s, "error")'
  BY KeptStays
<1>4. \A s : Kept(s, "reply") => Kept(s, "reply")'
  BY KeptStays
<1>5. \A s \in errors' : Kept(s, "error")'
  BY <1>0, <1>1, <1>3 DEF Origins, KeptTrue
<1>6. \A s \in replies' : Kept(s, "reply")'
  BY <1>0, <1>2, <1>4 DEF Origins, KeptTrue
<1>7. \A t \in Thread : \A s : PushesBack(t, s) => Kept(s, "error")
  BY <1>0 DEF KeptTrue, PushesBack
<1>8. \A i \in DOMAIN events : \A s : ErrorEvent(i, s) => Kept(s, "error")
  BY <1>0 DEF KeptTrue, ErrorEvent
<1>9. \A i \in DOMAIN events' : \A s : ErrorEvent(i, s)' => Kept(s, "error")'
  BY <1>0, <1>1, <1>3, <1>7, <1>8 DEF Origins
<1>10. \A t \in Thread : \A s : PushesBack(t, s)' => Kept(s, "error")'
  BY <1>0, <1>3, <1>7 DEF Origins, KeptTrue
<1> QED BY <1>5, <1>6, <1>9, <1>10 DEF KeptTrue, ErrorEvent, PushesBack

(* An answer that has just been given is on its way. *)
LEMMA JustServed ==
  ASSUME IInv, Next, NEW s \in 1..served', s \notin 1..served
  PROVE  /\ Serve /\ s = served + 1 /\ served' = served + 1
         /\ \A type \in {"reply", "error"} : answers'[s] = type => InTransit(type, s)'
<1>0. TypeOK /\ Numbered /\ InFlight
  BY DEF IInv
<1>1. Serve
  <2> SUFFICES ASSUME ~Serve PROVE FALSE
    OBVIOUS
  <2>1. served' = served
    BY <1>0, Views, SendsEvent, ReadsNext, QueuesPacket, BeginsOnly DEF WireStays
  <2> QED BY <2>1
<1>2. served' = served + 1 /\ served \in Nat
  BY <1>0, <1>1, Serves
<1>3. s = served + 1
  BY <1>2
<1>4. ASSUME NEW type \in {"reply", "error"}, answers'[s] = type
      PROVE  InTransit(type, s)'
  <2>1. Grows([type |-> answers'[s], seq |-> s])
    BY <1>0, <1>1, <1>3, <1>4, Serves
  <2> PICK p : p = [type |-> type, seq |-> s]
    OBVIOUS
  <2>2. Grows(p)
    BY <1>4, <2>1
  <2>3. \E i \in DOMAIN toClient' : toClient'[i] = p
    BY <2>2 DEF Grows
  <2> QED BY <2>3 DEF InTransit
<1> QED BY <1>1, <1>2, <1>3, <1>4

(* A server that is behind stays behind. *)
LEMMA SkippedStays ==
  ASSUME TypeOK, Numbered, Next, skipped
  PROVE  skipped'
<1>1. ASSUME NEW t \in Thread, SenderStep(t) PROVE skipped'
  BY <1>1, WrittenLast, CutLast DEF SenderStep, Begins, Register, wire
<1> QED BY <1>1, Kinds DEF SendersStay, Serve, Close

(* As long as the numbers agree, *)
LEMMA NumbersAgree ==
  ASSUME IInv, Next, ~skipped'
  PROVE  ~skipped /\ Discards /\ ChecksFollowed
BY SkippedStays DEF IInv, Agreed

(* a reply that arrives is kept unless it was discarded. *)
LEMMA ArrivedIsKept ==
  ASSUME IInv, Next, ~skipped', NEW s, s \in 1..served
  PROVE  /\ Arrives("reply", s) => s \in replies' \/ s \in DOMAIN results'
         /\ Arrives("error", s) => s \in errors' \/ \E j \in DOMAIN events' : ErrorEvent(j, s)'
<1>1. ASSUME Arrives("reply", s) PROVE s \in replies' \/ s \in DOMAIN results'
  <2>1. s \in replies' \/ s \in discarded
    BY <1>1 DEF Arrives, queue_packet, queue_reply, queue_error
  <2>2. s <= served + Len(toServer)
    <3>1. Len(toServer) \in Nat
      BY LenProperties DEF IInv, TypeOK
    <3> QED BY <3>1, AnswersStay
  <2>3. s \in discarded => s \in DOMAIN results
    BY <2>2, NumbersAgree DEF Discards
  <2>4. DOMAIN results \subseteq DOMAIN results'
    BY EveryEffect DEF Effects, Fates
  <2> QED BY <2>1, <2>3, <2>4
<1>2. ASSUME Arrives("error", s)
      PROVE  s \in errors' \/ \E j \in DOMAIN events' : ErrorEvent(j, s)'
  <2>1. s \in errors' \/ events' = Append(events, packet)
    BY <1>2 DEF Arrives, queue_packet, queue_reply, queue_error, queue_event
  <2>2. ASSUME events' = Append(events, packet) PROVE \E j \in DOMAIN events' : ErrorEvent(j, s)'
    <3>1. packet \in Packet /\ events \in Seq(Packet)
      BY DEF IInv, TypeOK
    <3>2. Len(events) + 1 \in DOMAIN events' /\ events'[Len(events) + 1] = packet
      BY <2>2, <3>1, Appended
    <3> QED BY <1>2, <3>2 DEF ErrorEvent, Arrives
  <2> QED BY <2>1, <2>2
<1> QED BY <1>1, <1>2

(* No step loses an answer. *)
LEMMA NoAnswerLostKept ==
  ASSUME IInv, Next
  PROVE  NoAnswerLost'
<1> SUFFICES ASSUME ~skipped' PROVE NoAnswerLost'
  BY DEF NoAnswerLost
<1>0. Fates /\ NoAnswerLost /\ TypeOK /\ ~skipped
  BY EveryEffect, NumbersAgree DEF IInv, Effects
<1>1. NoAnswerLost <=>
        \A s \in 1..served :
          /\ answers[s] = "error" =>
               \/ InTransit("error", s) \/ s \in errors \/ (\E i \in DOMAIN events : ErrorEvent(i, s))
               \/ (\E t \in Thread : PushesBack(t, s)) \/ s \in DOMAIN results
          /\ answers[s] = "reply" => InTransit("reply", s) \/ s \in replies \/ s \in DOMAIN results
  <2>1. \A i \in DOMAIN events : \A s : events[i] = [type |-> "error", seq |-> s] <=> ErrorEvent(i, s)
    <3>1. \A i \in DOMAIN events : events[i] \in Packet
      <4>1. events \in Seq(Packet)
        BY <1>0 DEF TypeOK
      <4> HIDE DEF Packet
      <4> QED BY <4>1, LenProperties, ElementOfSeq
    <3> QED BY <3>1 DEF Packet, ErrorEvent
  <2> QED BY <1>0, <2>1 DEF NoAnswerLost, PushesBack
<1>2. ASSUME NEW s \in 1..served'
      PROVE  /\ answers'[s] = "error" =>
                  \/ InTransit("error", s)' \/ s \in errors'
                  \/ (\E i \in DOMAIN events' : ErrorEvent(i, s)')
                  \/ (\E t \in Thread : PushesBack(t, s)') \/ s \in DOMAIN results'
             /\ answers'[s] = "reply" => InTransit("reply", s)' \/ s \in replies' \/ s \in DOMAIN results'
  <2>1. CASE s \notin 1..served
    BY <2>1, JustServed
  <2>2. CASE s \in 1..served
    <3>0. answers'[s] = answers[s]
      BY <2>2, AnswersStay
    <3>1. ASSUME answers[s] = "error"
          PROVE  \/ InTransit("error", s)' \/ s \in errors'
                 \/ (\E i \in DOMAIN events' : ErrorEvent(i, s)')
                 \/ (\E t \in Thread : PushesBack(t, s)') \/ s \in DOMAIN results'
      <4>1. CASE InTransit("error", s)
        BY <2>2, <4>1, TransitKept, ArrivedIsKept
      <4>2. CASE \/ s \in errors \/ (\E i \in DOMAIN events : ErrorEvent(i, s))
                 \/ (\E t \in Thread : PushesBack(t, s)) \/ s \in DOMAIN results
        BY <1>0, <4>2 DEF Fates
      <4> QED BY <1>0, <1>1, <2>2, <3>1, <4>1, <4>2
    <3>2. ASSUME answers[s] = "reply"
          PROVE  InTransit("reply", s)' \/ s \in replies' \/ s \in DOMAIN results'
      <4>1. CASE InTransit("reply", s)
        BY <2>2, <4>1, TransitKept, ArrivedIsKept
      <4>2. CASE s \in replies \/ s \in DOMAIN results
        BY <1>0, <4>2 DEF Fates
      <4> QED BY <1>0, <1>1, <2>2, <3>2, <4>1, <4>2
    <3> QED BY <3>0, <3>1, <3>2
  <2> QED BY <2>1, <2>2
<1>3. \A i \in DOMAIN events' : \A s : ErrorEvent(i, s)' <=> events'[i] = [type |-> "error", seq |-> s]
  <2>1. \A i \in DOMAIN events' : events'[i] \in Packet
    <3>1. events' \in Seq(Packet)
      BY TypesKept DEF TypeOK
    <3> HIDE DEF Packet
    <3> QED BY <3>1, LenProperties, ElementOfSeq
  <2> QED BY <2>1 DEF Packet, ErrorEvent
<1> QED BY <1>2, <1>3 DEF NoAnswerLost, PushesBack

(* A connection that failed stays failed. *)
LEMMA FailedStays ==
  ASSUME Next, failed
  PROVE  failed'
<1>1. CASE ServerStep \/ ReaderStep
  BY <1>1 DEF ServerStep, ReaderStep, Serve, SendEvent, Close, read_packet, queue_packet, EndOfStream,
              ReaderFails, ReaderNotifies
<1>2. ASSUME NEW t \in Thread, Continue(t) PROVE failed'
  BY <1>2 DEF Continue, SendRefused, send_bytes, Register, Write, WriteFails, NotifyFailure,
              CheckReply, Block, PushError, LookUp, CheckEvent
<1>3. ASSUME NEW t \in Thread, Call(t) PROVE failed'
  BY <1>3 DEF Call, send, wait_for_reply, poll_for_reply, discard_reply, request_check, wait_for_event,
              poll_for_event
<1> QED BY <1>1, <1>2, <1>3 DEF Next

(* After the round trip an error that is not in errors_ did not happen. *)
LEMMA NothingMeansNothing ==
  ASSUME IInv, ChecksFollowed, NEW t \in Thread, pc[t] = "look_up", ~failed,
         call[t].target \notin errors
  PROVE  call[t].target \in 1..served /\ answers[call[t].target] = "nothing"
<1> PICK s, r : s = call[t].target /\ r = call[t].seq
  OBVIOUS
<1>1. Checking(t) /\ s < r /\ Given(s)
  BY DEF IInv, Calls
<1>2. Followed(s) /\ Passed(r)
  BY <1>1 DEF ChecksFollowed
<1>3. s \in Nat \ {0} /\ r \in Nat /\ served \in Nat /\ r <= served
  <2>1. s \in 1..sequence /\ r \in 0..(2 * MaxRequests) /\ r <= served
    BY <1>1, <1>2 DEF IInv, TypeOK, Given, Passed
  <2> QED BY <2>1, FlightNumbers, ClientAssumption DEF IInv
<1>4. s \in 1..served
  BY <1>1, <1>3
<1>5. ~InTransit("error", s)
  BY <1>1, <1>2, <1>3, PassedGone
<1> QED BY <1>2, <1>4, <1>5, <1>3 DEF Followed

(* Every step tells the truth. *)
LEMMA AnswersMatchKept ==
  ASSUME IInv, Next
  PROVE  AnswersMatch'
<1> SUFFICES ASSUME ~skipped' PROVE AnswersMatch'
  BY DEF AnswersMatch
<1>0. Told /\ AnswersMatch /\ KeptTrue /\ ~skipped /\ ChecksFollowed
  BY EveryEffect, NumbersAgree DEF IInv, Effects
<1> SUFFICES ASSUME NEW s \in DOMAIN results'
             PROVE  /\ results'[s] \in {"reply", "error"} => s <= served' /\ answers'[s] = results'[s]
                    /\ results'[s] \in {"pushed", "event", "dropped"} => s <= served' /\ answers'[s] = "error"
                    /\ results'[s] = "nothing" => failed' \/ (s <= served' /\ answers'[s] = "nothing")
                    /\ results'[s] = "null" => failed'
  BY DEF AnswersMatch
<1>1. \A r \in 1..served : r <= served' /\ answers'[r] = answers[r]
  BY AnswersStay
<1>2. CASE s \in DOMAIN results /\ results'[s] = results[s]
  <2>1. s \in Number
    BY <1>2 DEF IInv, TypeOK
  <2>2. s <= served => s \in 1..served
    BY <2>1, AnswersStay DEF Number
  <2> QED BY <1>0, <1>1, <1>2, <2>2, FailedStays DEF AnswersMatch
<1>3. CASE Justified(s, results'[s])
  <2>1. s \in errors => s \in 1..served /\ answers[s] = "error"
    BY <1>0 DEF KeptTrue, Kept
  <2>2. s \in replies => s \in 1..served /\ answers[s] = "reply"
    BY <1>0 DEF KeptTrue, Kept
  <2>3. (\E t \in Thread : PushesBack(t, s)) \/ (\E i \in DOMAIN events : ErrorEvent(i, s)) =>
          s \in 1..served /\ answers[s] = "error"
    BY <1>0 DEF KeptTrue, Kept, PushesBack, ErrorEvent
  <2>4. s \notin errors /\ (\E t \in Thread : pc[t] = "look_up" /\ call[t].target = s) =>
          failed \/ (s \in 1..served /\ answers[s] = "nothing")
    BY <1>0, NothingMeansNothing
  <2> QED BY <1>1, <1>3, <2>1, <2>2, <2>3, <2>4, FailedStays DEF Justified
<1> QED BY <1>0, <1>2, <1>3 DEF Told
-----------------------------------------------------------------------------
(* The calls of the threads.                                               *)

(* The call of u is about nothing new. *)
CallStays(u) ==
  /\ Waiting(u)' => Waiting(u) /\ call'[u].seq = call[u].seq
  /\ Checking(u)' => Checking(u) /\ call'[u].target = call[u].target /\ call'[u].seq = call[u].seq

CallsStay == \A u \in Thread : CallStays(u) /\ cookies'[u] \subseteq cookies[u]

OthersAlone(t) == \A u \in Thread : u # t => CallStays(u) /\ cookies'[u] = cookies[u]

(* t begins to collect the answer to a cookie of its own. *)
Takes(t, c) ==
  /\ c \in cookies[t] /\ cookies'[t] = cookies[t] \ {c} /\ OthersAlone(t)
  /\ \/ c[2] = "reply" /\ Waiting(t)' /\ call'[t].seq = c[1] /\ ~Checking(t)'
     \/ /\ c[2] = "checked" /\ ~Waiting(t)' /\ Checking(t)'
        /\ call'[t].target = c[1] /\ call'[t].seq = sequence + 1

(* t has written its request. *)
Writes(t) ==
  /\ Write(t) /\ Begun(t) /\ OthersAlone(t)
  /\ \A c \in cookies'[t] :
       c \in cookies[t] \/ (c = <<sequence, call[t].kind>> /\ call[t].kind # "sync")
  /\ Waiting(t)' => call'[t].seq = sequence /\ call[t].kind = "sync"
  /\ Checking(t)' => call'[t] = call[t]

(* A thread that does nothing has no new call. *)
LEMMA SameCall ==
  ASSUME NEW u, call'[u] = call[u], pc'[u] = pc[u]
  PROVE  CallStays(u)
BY DEF CallStays, Waiting, Checking

(* A thread that is woken goes on with its call. *)
LEMMA WokenCall ==
  ASSUME TypeOK, NEW u \in Thread, call'[u] = call[u], pc' = Woken(pc)
  PROVE  CallStays(u)
<1>1. \/ pc'[u] = pc[u]
      \/ pc[u] = "await_reply" /\ pc'[u] = "check_reply"
      \/ pc[u] = "await_event" /\ pc'[u] = "check_event"
  BY WokenPlaces DEF TypeOK
<1> QED BY <1>1 DEF CallStays, Waiting, Checking

(* No call is not a round trip. *)
LEMMA NoCallIsNone == NoCall.kind # "sync"
BY DEF NoCall

(* A step begins a call about a cookie, ends a write, or changes no call. *)
LEMMA CallViews ==
  ASSUME IInv, Next
  PROVE  CallsStay \/ (\E t \in Thread : Writes(t)) \/ \E t \in Thread : \E c : Takes(t, c)
<1>0. TypeOK /\ Numbered
  BY DEF IInv
<1>a. \A t \in Thread : t \in DOMAIN pc /\ t \in DOMAIN call /\ t \in DOMAIN cookies
  BY <1>0 DEF TypeOK
<1>1. CASE ServerStep
  BY <1>1, SameCall DEF ServerStep, Serve, SendEvent, Close, CallsStay
<1>2. CASE ReaderStep
  <2>1. UNCHANGED <<call, cookies>> /\ (pc' = pc \/ pc' = Woken(pc))
    BY <1>2 DEF ReaderStep, read_packet, queue_packet, EndOfStream, ReaderFails, ReaderNotifies
  <2> QED BY <1>0, <2>1, SameCall, WokenCall DEF CallsStay
<1>3. ASSUME NEW t \in Thread, CallStays(t), UNCHANGED cookies,
             \A u \in Thread : u # t => pc'[u] = pc[u] /\ call'[u] = call[u]
      PROVE  CallsStay
  BY <1>3, SameCall DEF CallsStay
<1>4. ASSUME NEW t \in Thread, \E kind \in Kind : send(t, kind) PROVE CallsStay
  <2> PICK kind \in Kind : send(t, kind)
    BY <1>4
  <2>1. /\ pc' = [pc EXCEPT ![t] = "send"] /\ UNCHANGED cookies
        /\ call' = [call EXCEPT ![t].kind = kind]
    BY DEF send, Goto
  <2>2. pc'[t] = "send" /\ call'[t].kind # "sync"
    BY <1>0, <1>a, <2>1 DEF Kind, TypeOK
  <2> QED BY <1>a, <1>3, <2>1, <2>2 DEF CallStays, Waiting, Checking
<1>18. ASSUME NEW t \in Thread, send_bytes(t) PROVE CallsStay
  <2>1. /\ pc' = [pc EXCEPT ![t] = "register"] /\ UNCHANGED cookies /\ ~Checking(t)
        /\ call' = [call EXCEPT ![t] = [seq |-> sequence + 1, kind |-> call[t].kind, target |-> 0,
                                        report |-> FALSE]]
    BY <1>18 DEF send_bytes, Begin, Goto, IInv, Calls
  <2>2. pc'[t] = "register" /\ call'[t].kind # "sync"
    BY <1>a, <2>1 DEF Checking
  <2> QED BY <1>a, <1>3, <2>1, <2>2 DEF CallStays, Waiting, Checking
<1>19. ASSUME NEW t \in Thread, SendRefused(t) PROVE CallsStay
  <2>1. pc' = [pc EXCEPT ![t] = "idle"] /\ call' = [call EXCEPT ![t] = NoCall] /\ UNCHANGED cookies
    BY <1>19 DEF SendRefused, Goto
  <2>2. CallStays(t)
    BY <1>a, <2>1, NoCallIsNone DEF CallStays, Waiting, Checking
  <2> QED BY <1>a, <1>3, <2>1, <2>2
<1>5. ASSUME NEW t \in Thread, Register(t) \/ WriteFails(t) \/ Block(t) PROVE CallsStay
  <2>1. /\ UNCHANGED <<call, cookies>> /\ \A u \in Thread : u # t => pc'[u] = pc[u]
        /\ Waiting(t)' => Waiting(t)
    BY <1>a, <1>5 DEF Register, WriteFails, Block, Goto, Waiting
  <2> QED BY <1>3, <2>1 DEF CallStays, Checking
<1>6. ASSUME NEW t \in Thread, CheckEvent(t) \/ wait_for_event(t) \/ poll_for_event(t) PROVE CallsStay
  <2>1. /\ UNCHANGED <<call, cookies>> /\ \A u \in Thread : u # t => pc'[u] = pc[u]
        /\ Waiting(t)' => Waiting(t)
    BY <1>a, <1>6 DEF CheckEvent, wait_for_event, poll_for_event, Goto, Waiting
  <2> QED BY <1>3, <2>1 DEF CallStays, Checking
<1>7. ASSUME NEW t \in Thread, Write(t) PROVE Writes(t)
  <2>1. /\ pc[t] = "write" /\ call[t].seq = sequence
    BY <1>0, <1>7, WrittenLast
  <2>2. /\ pc' = [pc EXCEPT ![t] = IF call[t].kind = "sync" THEN "check_reply" ELSE "idle"]
        /\ cookies' = IF call[t].kind \in {"checked", "reply"}
                      THEN [cookies EXCEPT ![t] = @ \cup {<<call[t].seq, call[t].kind>>}]
                      ELSE cookies
        /\ call' = IF call[t].kind = "sync" THEN call ELSE [call EXCEPT ![t] = NoCall]
    BY <1>7 DEF Write, Goto
  <2>3. \A u \in Thread : u # t => pc'[u] = pc[u] /\ call'[u] = call[u] /\ cookies'[u] = cookies[u]
    BY <1>a, <2>2
  <2>4. \A c \in cookies'[t] : c \in cookies[t] \/ (c = <<sequence, call[t].kind>> /\ call[t].kind # "sync")
    BY <1>a, <2>1, <2>2
  <2>5. /\ Waiting(t)' => call'[t].seq = sequence /\ call[t].kind = "sync"
        /\ Checking(t)' => call'[t] = call[t]
    BY <1>a, <2>1, <2>2, NoCallIsNone DEF Waiting, Checking
  <2> QED BY <1>7, <2>1, <2>3, <2>4, <2>5, SameCall DEF Writes, Begun, OthersAlone
<1>8. ASSUME NEW t \in Thread, NotifyFailure(t) PROVE CallsStay
  <2> PICK P : P = [pc EXCEPT ![t] = "idle"]
    OBVIOUS
  <2>1. P \in [Thread -> Place] /\ pc' = Woken(P) /\ UNCHANGED cookies /\ call' = [call EXCEPT ![t] = NoCall]
    BY <1>0, <1>8 DEF NotifyFailure, TypeOK, Place
  <2>2. \A u \in Thread : \/ pc'[u] = P[u]
                          \/ P[u] = "await_reply" /\ pc'[u] = "check_reply"
                          \/ P[u] = "await_event" /\ pc'[u] = "check_event"
    BY <2>1, WokenPlaces
  <2>3. P[t] = "idle" /\ \A u \in Thread : u # t => P[u] = pc[u]
    BY <1>a
  <2>4. call'[t] = NoCall /\ \A u \in Thread : u # t => call'[u] = call[u]
    BY <1>a, <2>1
  <2>5. \A u \in Thread : CallStays(u)
    BY <2>2, <2>3, <2>4, NoCallIsNone DEF CallStays, Waiting, Checking
  <2> QED BY <2>1, <2>5 DEF CallsStay
<1>9. ASSUME NEW t \in Thread, NEW result, Return(t, result), UNCHANGED cookies PROVE CallsStay
  <2>1. /\ pc' = [pc EXCEPT ![t] = IF call[t].kind = "sync" THEN "look_up" ELSE "idle"]
        /\ call' = IF call[t].kind = "sync" THEN call ELSE [call EXCEPT ![t] = NoCall]
    BY <1>0, <1>9, Returns
  <2>2. pc'[t] \in {"look_up", "idle"} /\ (call'[t] = call[t] \/ call'[t] = NoCall)
    BY <1>a, <2>1
  <2>3. \A u \in Thread : u # t => pc'[u] = pc[u] /\ call'[u] = call[u]
    BY <1>a, <2>1
  <2>4. CallStays(t)
    BY <2>2, NoCallIsNone DEF CallStays, Waiting, Checking
  <2> QED BY <1>3, <1>9, <2>3, <2>4
<1>10. ASSUME NEW t \in Thread, CheckReply(t) PROVE CallsStay
  <2>1. UNCHANGED cookies /\ pc[t] = "check_reply"
    BY <1>10 DEF CheckReply
  <2>2. CASE \E result : Return(t, result)
    BY <1>9, <2>1, <2>2
  <2>3. CASE (Goto(t, "push_error") \/ Goto(t, "block_reply")) /\ UNCHANGED call
    <3>1. \A u \in Thread : u # t => pc'[u] = pc[u]
      BY <1>a, <2>3 DEF Goto
    <3>2. CallStays(t)
      BY <2>1, <2>3 DEF CallStays, Waiting, Checking
    <3> QED BY <1>3, <2>1, <2>3, <3>1, <3>2
  <2> QED BY <1>10, <2>2, <2>3 DEF CheckReply
<1>11. ASSUME NEW t \in Thread, PushError(t) PROVE CallsStay
  BY <1>9, <1>11 DEF PushError
<1>12. ASSUME NEW t \in Thread, LookUp(t) PROVE CallsStay
  <2>1. pc' = [pc EXCEPT ![t] = "idle"] /\ call' = [call EXCEPT ![t] = NoCall] /\ UNCHANGED cookies
    BY <1>12 DEF LookUp, Goto
  <2>2. CallStays(t)
    BY <1>a, <2>1, NoCallIsNone DEF CallStays, Waiting, Checking
  <2> QED BY <1>a, <1>3, <2>1, <2>2
<1>13. ASSUME NEW t \in Thread, poll_for_reply(t) \/ discard_reply(t) PROVE CallsStay
  <2>1. UNCHANGED <<pc, call>> /\ \E c : cookies' = [cookies EXCEPT ![t] = @ \ {c}]
    BY <1>13 DEF poll_for_reply, discard_reply
  <2>2. \A u \in Thread : cookies'[u] \subseteq cookies[u]
    BY <1>a, <2>1
  <2> QED BY <2>1, <2>2, SameCall DEF CallsStay
<1>14. ASSUME NEW t \in Thread, NEW report \in BOOLEAN, wait_for_reply(t, report)
       PROVE  \E c : Takes(t, c)
  <2>1. PICK s \in Number :
          /\ <<s, "reply">> \in cookies[t]
          /\ cookies' = [cookies EXCEPT ![t] = @ \ {<<s, "reply">>}]
          /\ call' = [call EXCEPT ![t] = [seq |-> s, kind |-> "reply", target |-> 0, report |-> report]]
          /\ pc' = [pc EXCEPT ![t] = "check_reply"]
    BY <1>14 DEF wait_for_reply, Goto
  <2>2. /\ cookies'[t] = cookies[t] \ {<<s, "reply">>}
        /\ \A u \in Thread : u # t => cookies'[u] = cookies[u] /\ pc'[u] = pc[u] /\ call'[u] = call[u]
    BY <1>a, <2>1
  <2>3. pc'[t] = "check_reply" /\ call'[t].seq = s /\ call'[t].kind = "reply"
    BY <1>a, <2>1
  <2>4. Takes(t, <<s, "reply">>)
    BY <2>1, <2>2, <2>3, SameCall DEF Takes, Waiting, Checking, OthersAlone
  <2> QED BY <2>4
<1>15. ASSUME NEW t \in Thread, request_check(t) PROVE \E c : Takes(t, c)
  <2>1. PICK s \in Number :
          /\ <<s, "checked">> \in cookies[t]
          /\ cookies' = [cookies EXCEPT ![t] = @ \ {<<s, "checked">>}]
          /\ call' = [call EXCEPT ![t] = [seq |-> sequence + 1, kind |-> "sync", target |-> s, report |-> FALSE]]
          /\ pc' = [pc EXCEPT ![t] = "register"]
    BY <1>15 DEF request_check, Begin, Goto
  <2>2. /\ cookies'[t] = cookies[t] \ {<<s, "checked">>}
        /\ \A u \in Thread : u # t => cookies'[u] = cookies[u] /\ pc'[u] = pc[u] /\ call'[u] = call[u]
    BY <1>a, <2>1
  <2>3. pc'[t] = "register" /\ call'[t].seq = sequence + 1 /\ call'[t].kind = "sync" /\ call'[t].target = s
    BY <1>a, <2>1
  <2>4. Takes(t, <<s, "checked">>)
    BY <2>1, <2>2, <2>3, SameCall DEF Takes, Waiting, Checking, OthersAlone
  <2> QED BY <2>4
<1>16. ASSUME NEW t \in Thread, Continue(t) PROVE CallsStay \/ Writes(t)
  BY <1>16, <1>5, <1>6, <1>7, <1>8, <1>10, <1>11, <1>12, <1>18, <1>19 DEF Continue
<1>17. ASSUME NEW t \in Thread, Call(t) PROVE CallsStay \/ \E c : Takes(t, c)
  BY <1>17, <1>4, <1>6, <1>13, <1>14, <1>15 DEF Call
<1> QED BY <1>1, <1>2, <1>16, <1>17 DEF Next
-----------------------------------------------------------------------------
(* Where a thread is between its calls, and after a round trip. *)
Outside == {"idle", "check_event", "block_event", "await_event"}
Arrived(u) == failed \/ call[u].seq \in errors \cup replies \/ PushesBack(u, call[u].seq)
Placed(u) ==
  /\ pc'[u] \in Outside => call'[u] = NoCall
  /\ pc'[u] = "send" => call'[u].kind # "sync"
  /\ pc'[u] = "look_up" => /\ call'[u] = call[u] /\ Checking(u)
                           /\ pc[u] = "look_up" \/ (Waiting(u) /\ Arrived(u))

(* A thread that does nothing stays in its place. *)
LEMMA SamePlace ==
  ASSUME Calls, NEW u \in Thread, call'[u] = call[u], pc'[u] = pc[u]
  PROVE  Placed(u)
BY DEF Placed, Calls, Outside, Checking

(* A thread that is woken checks again. *)
LEMMA WokenPlaced ==
  ASSUME TypeOK, Calls, NEW u \in Thread, call'[u] = call[u], pc' = Woken(pc)
  PROVE  Placed(u)
<1>1. \/ pc'[u] = pc[u]
      \/ pc[u] = "await_reply" /\ pc'[u] = "check_reply"
      \/ pc[u] = "await_event" /\ pc'[u] = "check_event"
  BY WokenPlaces DEF TypeOK
<1> QED BY <1>1 DEF Placed, Calls, Outside, Checking

(* Where a step takes a thread, and why. *)
LEMMA EveryPlace ==
  ASSUME IInv, Next, NEW u \in Thread
  PROVE  Placed(u)
<1>0. TypeOK /\ Calls /\ pc \in [Thread -> Place]
  BY DEF IInv, TypeOK
<1>a. \A t \in Thread : t \in DOMAIN pc /\ t \in DOMAIN call
  BY <1>0 DEF TypeOK
<1>1. CASE ServerStep
  BY <1>0, <1>1, SamePlace DEF ServerStep, Serve, SendEvent, Close
<1>2. CASE ReaderStep
  <2>1. UNCHANGED call /\ (pc' = pc \/ pc' = Woken(pc))
    BY <1>2 DEF ReaderStep, read_packet, queue_packet, EndOfStream, ReaderFails, ReaderNotifies
  <2> QED BY <1>0, <2>1, SamePlace, WokenPlaced
<1>3. ASSUME NEW t \in Thread, Begins(t) PROVE Placed(u)
  <2>1. CASE u = t
    BY <1>a, <1>3, <2>1 DEF Begins, Placed, Outside
  <2>2. CASE u # t
    BY <1>0, <1>a, <1>3, <2>2, SamePlace DEF Begins
  <2> QED BY <2>1, <2>2
<1>15. ASSUME NEW t \in Thread, NEW kind \in Kind, send(t, kind) PROVE Placed(u)
  <2>1. pc' = [pc EXCEPT ![t] = "send"] /\ call' = [call EXCEPT ![t].kind = kind]
    BY <1>15 DEF send, Goto
  <2>2. CASE u = t
    <3>1. pc'[u] = "send" /\ call'[u].kind = kind /\ kind # "sync"
      BY <1>0, <1>a, <2>1, <2>2 DEF Kind, TypeOK
    <3> QED BY <3>1 DEF Placed, Outside
  <2>3. CASE u # t
    BY <1>0, <1>a, <2>1, <2>3, SamePlace
  <2> QED BY <2>2, <2>3
<1>4. ASSUME NEW t \in Thread, Register(t) \/ WriteFails(t) \/ Block(t) PROVE Placed(u)
  <2>1. /\ UNCHANGED call /\ \A v \in Thread : v # t => pc'[v] = pc[v]
        /\ pc'[t] \notin {"look_up", "send"} /\ (pc'[t] \in Outside => pc[t] \in Outside)
    BY <1>a, <1>4 DEF Register, WriteFails, Block, Goto, Outside
  <2>2. Placed(t)
    BY <1>0, <2>1 DEF Placed, Calls, Outside
  <2> QED BY <1>0, <2>1, <2>2, SamePlace
<1>5. ASSUME NEW t \in Thread, CheckEvent(t) \/ wait_for_event(t) \/ poll_for_event(t) PROVE Placed(u)
  <2>1. /\ UNCHANGED call /\ \A v \in Thread : v # t => pc'[v] = pc[v]
        /\ pc'[t] \notin {"look_up", "send"} /\ pc[t] \in Outside
    BY <1>a, <1>5 DEF CheckEvent, wait_for_event, poll_for_event, Goto, Outside
  <2>2. Placed(t)
    BY <1>0, <2>1 DEF Placed, Calls, Outside
  <2> QED BY <1>0, <2>1, <2>2, SamePlace
<1>6. ASSUME NEW t \in Thread, NEW place \in {"idle", "check_reply"}, NEW c,
             pc' = [pc EXCEPT ![t] = place], call' = [call EXCEPT ![t] = c], place = "idle" => c = NoCall
      PROVE  Placed(u)
  <2>1. CASE u = t
    BY <1>a, <1>6, <2>1 DEF Placed, Outside
  <2>2. CASE u # t
    BY <1>0, <1>a, <1>6, <2>2, SamePlace
  <2> QED BY <2>1, <2>2
<1>7. ASSUME NEW t \in Thread, Write(t) PROVE Placed(u)
  <2>1. CASE call[t].kind # "sync"
    BY <1>6, <1>7, <2>1 DEF Write, Goto
  <2>2. CASE call[t].kind = "sync"
    <3>1. pc' = [pc EXCEPT ![t] = "check_reply"] /\ call' = call
      BY <1>7, <2>2 DEF Write, Goto
    <3>2. Placed(t)
      BY <1>a, <3>1 DEF Placed, Outside
    <3> QED BY <1>0, <1>a, <3>1, <3>2, SamePlace
  <2> QED BY <2>1, <2>2
<1>8. ASSUME NEW t \in Thread, NotifyFailure(t) PROVE Placed(u)
  <2> PICK P : P = [pc EXCEPT ![t] = "idle"]
    OBVIOUS
  <2>1. P \in [Thread -> Place] /\ pc' = Woken(P) /\ call' = [call EXCEPT ![t] = NoCall]
    BY <1>0, <1>8 DEF NotifyFailure, Place
  <2>2. \/ pc'[u] = P[u]
        \/ P[u] = "await_reply" /\ pc'[u] = "check_reply"
        \/ P[u] = "await_event" /\ pc'[u] = "check_event"
    BY <2>1, WokenPlaces
  <2>3. CASE u = t
    <3>1. P[u] = "idle" /\ call'[u] = NoCall
      BY <1>a, <2>1, <2>3
    <3> QED BY <2>2, <3>1 DEF Placed, Outside
  <2>4. CASE u # t
    <3>1. P[u] = pc[u] /\ call'[u] = call[u]
      BY <1>a, <2>1, <2>4
    <3> QED BY <1>0, <2>2, <3>1 DEF Placed, Calls, Outside, Checking
  <2> QED BY <2>3, <2>4
<1>9. ASSUME NEW t \in Thread, NEW result, Return(t, result), Waiting(t), Arrived(t) PROVE Placed(u)
  <2>1. /\ pc' = [pc EXCEPT ![t] = IF call[t].kind = "sync" THEN "look_up" ELSE "idle"]
        /\ call' = IF call[t].kind = "sync" THEN call ELSE [call EXCEPT ![t] = NoCall]
    BY <1>0, <1>9, Returns
  <2>2. CASE call[t].kind # "sync"
    BY <1>6, <2>1, <2>2
  <2>3. CASE call[t].kind = "sync"
    <3>1. pc' = [pc EXCEPT ![t] = "look_up"] /\ call' = call
      BY <2>1, <2>3
    <3>2. Placed(t)
      BY <1>9, <1>a, <2>3, <3>1 DEF Placed, Outside, Checking
    <3> QED BY <1>0, <1>a, <3>1, <3>2, SamePlace
  <2> QED BY <2>2, <2>3
<1>10. ASSUME NEW t \in Thread, CheckReply(t) PROVE Placed(u)
  <2>1. Waiting(t)
    BY <1>10 DEF CheckReply, Waiting
  <2>2. CASE (\E result : Return(t, result)) /\ Arrived(t)
    BY <1>9, <2>1, <2>2
  <2>3. CASE (Goto(t, "push_error") \/ Goto(t, "block_reply")) /\ UNCHANGED call
    <3>1. \A v \in Thread : v # t => pc'[v] = pc[v]
      BY <1>a, <2>3 DEF Goto
    <3>2. Placed(t)
      BY <1>a, <2>3 DEF Goto, Placed, Outside
    <3> QED BY <1>0, <2>3, <3>1, <3>2, SamePlace
  <2> QED BY <1>10, <2>2, <2>3 DEF CheckReply, Arrived
<1>11. ASSUME NEW t \in Thread, PushError(t) PROVE Placed(u)
  <2>1. Waiting(t) /\ Arrived(t) /\ Return(t, "pushed")
    BY <1>11 DEF PushError, Waiting, Arrived, PushesBack
  <2> QED BY <1>9, <2>1
<1>12. ASSUME NEW t \in Thread, LookUp(t) PROVE Placed(u)
  BY <1>6, <1>12 DEF LookUp, Goto
<1>18. ASSUME NEW t \in Thread, SendRefused(t) PROVE Placed(u)
  BY <1>6, <1>18 DEF SendRefused, Goto
<1>19. ASSUME NEW t \in Thread, send_bytes(t) PROVE Placed(u)
  BY <1>0, <1>3, <1>19, BothBegin
<1>13. ASSUME NEW t \in Thread, poll_for_reply(t) \/ discard_reply(t) PROVE Placed(u)
  BY <1>0, <1>13, SamePlace DEF poll_for_reply, discard_reply
<1>14. ASSUME NEW t \in Thread, NEW report \in BOOLEAN, wait_for_reply(t, report) PROVE Placed(u)
  BY <1>6, <1>14 DEF wait_for_reply, Goto
<1>16. ASSUME NEW t \in Thread, Continue(t) PROVE Placed(u)
  BY <1>16, <1>4, <1>5, <1>7, <1>8, <1>10, <1>11, <1>12, <1>18, <1>19 DEF Continue
<1>17. ASSUME NEW t \in Thread, Call(t) PROVE Placed(u)
  <2>1. CASE request_check(t)
    BY <1>0, <1>3, <2>1, BothBegin
  <2> QED BY <1>17, <1>5, <1>13, <1>14, <1>15, <2>1 DEF Call
<1> QED BY <1>1, <1>2, <1>16, <1>17 DEF Next

(* Given(s), in the next state. *)
GivenNext(s) == s \in 1..sequence' /\ \A u \in Thread : Begun(u)' => s # sequence'

(* A number that was used stays used. *)
LEMMA GivenGoesOn ==
  ASSUME IInv, Next
  PROVE  /\ \A s : Given(s) => GivenNext(s)
         /\ \A t \in Thread : Write(t) => GivenNext(sequence)
BY GivenKept DEF Given, GivenNext

(* A number that was used is at most the last one. *)
LEMMA GivenIsNumber ==
  ASSUME TypeOK, NEW s, Given(s)
  PROVE  s \in Nat /\ s <= sequence /\ s < sequence + 1
BY FlightNumbers DEF Given

CallGood(u) ==
  /\ Checking(u) => call[u].target < call[u].seq /\ Given(call[u].target)
  /\ Waiting(u) => Given(call[u].seq)
  /\ \A c \in cookies[u] : Given(c[1])
CallGoodNext(u) ==
  /\ Checking(u)' => call'[u].target < call'[u].seq /\ GivenNext(call'[u].target)
  /\ Waiting(u)' => GivenNext(call'[u].seq)
  /\ \A c \in cookies'[u] : GivenNext(c[1])

(* Every step keeps the calls about requests that were sent. *)
LEMMA CallsKept ==
  ASSUME IInv, Next
  PROVE  Calls'
<1>0. TypeOK /\ \A u \in Thread : CallGood(u)
  BY DEF IInv, Calls, CallGood
<1>1. \A s : Given(s) => GivenNext(s)
  BY GivenGoesOn
<1>2. \A u \in Thread : Placed(u)
  BY EveryPlace
<1>3. \A t \in Thread : /\ pc'[t] = "look_up" => Checking(t)'
                        /\ pc'[t] = "send" => ~Checking(t)'
  BY <1>2 DEF Placed, Checking
<1>4. ASSUME NEW u \in Thread, CallStays(u), cookies'[u] \subseteq cookies[u] PROVE CallGoodNext(u)
  BY <1>0, <1>1, <1>4 DEF CallStays, CallGood, CallGoodNext
<1>5. \A u \in Thread : CallGoodNext(u)
  <2>1. CASE CallsStay
    BY <1>4, <2>1 DEF CallsStay
  <2>2. ASSUME NEW t \in Thread, Writes(t), NEW u \in Thread PROVE CallGoodNext(u)
    <3>1. CASE u # t
      BY <1>4, <2>2, <3>1 DEF Writes, OthersAlone
    <3>2. CASE u = t
      <4>1. GivenNext(sequence)
        BY <2>2, GivenGoesOn DEF Writes
      <4>2. \A k : <<sequence, k>>[1] = sequence
        OBVIOUS
      <4>3. \A c \in cookies'[t] : GivenNext(c[1])
        BY <1>0, <1>1, <2>2, <4>1, <4>2 DEF Writes, CallGood
      <4>4. Waiting(t)' => GivenNext(call'[t].seq)
        BY <2>2, <4>1 DEF Writes
      <4>5. Checking(t)' => call'[t] = call[t] /\ Checking(t)
        BY <2>2 DEF Writes, Checking
      <4> QED BY <1>0, <1>1, <3>2, <4>3, <4>4, <4>5 DEF CallGood, CallGoodNext
    <3> QED BY <3>1, <3>2
  <2>3. ASSUME NEW t \in Thread, NEW c, Takes(t, c), NEW u \in Thread PROVE CallGoodNext(u)
    <3>1. CASE u # t
      BY <1>4, <2>3, <3>1 DEF Takes, OthersAlone
    <3>2. CASE u = t
      <4>1. Given(c[1]) /\ c[1] < sequence + 1
        BY <1>0, <2>3, GivenIsNumber DEF Takes, CallGood
      <4>2. \A d \in cookies'[t] : GivenNext(d[1])
        BY <1>0, <1>1, <2>3 DEF Takes, CallGood
      <4> QED BY <1>1, <2>3, <3>2, <4>1, <4>2 DEF Takes, CallGoodNext
    <3> QED BY <3>1, <3>2
  <2> QED BY <2>1, <2>2, <2>3, CallViews
<1>6. \A t \in Thread : pc'[t] \in Outside => call'[t] = NoCall
  BY <1>2 DEF Placed
<1> QED BY <1>3, <1>5, <1>6 DEF Calls, CallGoodNext, GivenNext, Given, Outside
-----------------------------------------------------------------------------
(* Every step keeps the owners of cookies apart. *)
LEMMA OwnedKept ==
  ASSUME IInv, Next
  PROVE  Owned'
<1>0. TypeOK /\ Owned /\ (\A u \in Thread : CallGood(u))
  BY DEF IInv, Calls, CallGood
<1>1. CASE CallsStay
  BY <1>0, <1>1 DEF CallsStay, CallStays, Owned, OneOwner, CookiesKept, CallsApart
<1>2. ASSUME NEW w \in Thread, Writes(w) PROVE Owned'
  <2>1. \A s : Given(s) => s # sequence
    BY <1>2 DEF Writes, Given
  <2>2. ASSUME NEW u \in Thread
        PROVE  /\ \A c \in cookies[u] : c[1] # sequence
               /\ Waiting(u) => call[u].seq # sequence
               /\ Checking(u) => call[u].target # sequence
    BY <1>0, <2>1 DEF CallGood
  <2>3. \A k : <<sequence, k>>[1] = sequence
    OBVIOUS
  <2>4. ASSUME NEW u \in Thread
        PROVE  /\ \A c \in cookies'[u] :
                    \/ c \in cookies[u]
                    \/ u = w /\ c = <<sequence, call[w].kind>> /\ call[w].kind # "sync"
               /\ Waiting(u)' => \/ Waiting(u) /\ call'[u].seq = call[u].seq
                                 \/ u = w /\ call'[u].seq = sequence /\ call[w].kind = "sync"
               /\ Checking(u)' => Checking(u) /\ call'[u].target = call[u].target
    <3>1. CASE u # w
      BY <1>2, <3>1 DEF Writes, OthersAlone, CallStays
    <3>2. CASE u = w
      BY <1>2, <3>2 DEF Writes, Checking
    <3> QED BY <3>1, <3>2
  <2>5. \A t, u \in Thread : \A c \in cookies'[t], d \in cookies'[u] : c[1] = d[1] => t = u /\ c = d
    BY <1>0, <2>2, <2>3, <2>4 DEF Owned, OneOwner, CookiesKept, CallsApart
  <2>6. \A t, u \in Thread : \A c \in cookies'[t] : /\ Waiting(u)' => c[1] # call'[u].seq
                                                    /\ Checking(u)' => c[1] # call'[u].target
    BY <1>0, <2>2, <2>3, <2>4 DEF Owned, OneOwner, CookiesKept, CallsApart
  <2>7. \A t, u \in Thread : /\ Waiting(t)' /\ Checking(u)' => call'[t].seq # call'[u].target
                             /\ Checking(t)' /\ Checking(u)' /\ t # u => call'[t].target # call'[u].target
    BY <1>0, <2>2, <2>4 DEF Owned, OneOwner, CookiesKept, CallsApart
  <2> QED BY <2>5, <2>6, <2>7 DEF Owned, OneOwner, CookiesKept, CallsApart
<1>3. ASSUME NEW w \in Thread, NEW x, Takes(w, x) PROVE Owned'
  <2>1. x \in cookies[w] /\ x \notin cookies'[w]
    BY <1>3 DEF Takes
  <2>2. ASSUME NEW u \in Thread
        PROVE  /\ Waiting(u) => call[u].seq # x[1]
               /\ Checking(u) => call[u].target # x[1]
               /\ \A c \in cookies'[u] : c \in cookies[u] /\ c[1] # x[1]
    <3>1. cookies'[u] \subseteq cookies[u]
      BY <1>3 DEF Takes, OthersAlone
    <3>2. \A c \in cookies[u] : c[1] = x[1] => u = w /\ c = x
      BY <1>0, <2>1 DEF Owned, OneOwner, CookiesKept, CallsApart
    <3>3. /\ Waiting(u) => call[u].seq # x[1]
          /\ Checking(u) => call[u].target # x[1]
      <4>1. \A c \in cookies[w] : /\ Waiting(u) => c[1] # call[u].seq
                                  /\ Checking(u) => c[1] # call[u].target
        BY <1>0, Zenon DEF Owned, CookiesKept
      <4> QED BY <2>1, <4>1
    <3>4. \A c \in cookies'[u] : c \in cookies[u] /\ c[1] # x[1]
      BY <2>1, <3>1, <3>2
    <3> QED BY <3>3, <3>4
  <2>3. ASSUME NEW u \in Thread
        PROVE  /\ Waiting(u)' => \/ Waiting(u) /\ call'[u].seq = call[u].seq
                                 \/ u = w /\ call'[u].seq = x[1] /\ ~Checking(w)'
               /\ Checking(u)' => \/ Checking(u) /\ call'[u].target = call[u].target
                                  \/ u = w /\ call'[u].target = x[1] /\ ~Waiting(w)'
    <3>1. CASE u # w
      BY <1>3, <3>1 DEF Takes, OthersAlone, CallStays
    <3>2. CASE u = w
      BY <1>3, <3>2 DEF Takes
    <3> QED BY <3>1, <3>2
  <2>4. \A t, u \in Thread : \A c \in cookies'[t], d \in cookies'[u] : c[1] = d[1] => t = u /\ c = d
    BY <1>0, <2>2 DEF Owned, OneOwner, CookiesKept, CallsApart
  <2>5. \A t, u \in Thread : \A c \in cookies'[t] : /\ Waiting(u)' => c[1] # call'[u].seq
                                                    /\ Checking(u)' => c[1] # call'[u].target
    BY <1>0, <2>2, <2>3 DEF Owned, OneOwner, CookiesKept, CallsApart
  <2>6. \A t, u \in Thread : /\ Waiting(t)' /\ Checking(u)' => call'[t].seq # call'[u].target
                             /\ Checking(t)' /\ Checking(u)' /\ t # u => call'[t].target # call'[u].target
    BY <1>0, <2>2, <2>3 DEF Owned, OneOwner, CookiesKept, CallsApart
  <2> QED BY <2>4, <2>5, <2>6 DEF Owned, OneOwner, CookiesKept, CallsApart
<1> QED BY <1>1, <1>2, <1>3, CallViews

(* Where a thread that sends has come from. *)
LEMMA SendingViews ==
  ASSUME IInv, Next, NEW t \in Thread, Begun(t)'
  PROVE  \/ Begins(t) /\ pc'[t] = "register"
         \/ Register(t) /\ pc'[t] = "write" /\ call' = call /\ sequence' = sequence
         \/ /\ Begun(t) /\ pc'[t] = pc[t] /\ call'[t] = call[t] /\ sequence' = sequence
            /\ \A u \in Thread : ~Register(u) /\ ~Begins(u)
<1>0. TypeOK /\ Numbered
  BY DEF IInv
<1>a. \A u \in Thread : u \in DOMAIN pc
  BY <1>0 DEF TypeOK
<1>1. CASE /\ Begun(t) /\ pc'[t] = pc[t] /\ call'[t] = call[t] /\ sequence' = sequence
  <2>1. \A u \in Thread : ~Begins(u)
    BY <1>1 DEF Begins, Begun, Sending
  <2>2. ASSUME NEW u \in Thread, Register(u) PROVE FALSE
    <3>1. pc[u] = "register" /\ pc'[u] = "write"
      BY <1>a, <2>2 DEF Register, Goto
    <3>2. u = t
      BY <1>0, <1>1, <3>1 DEF Numbered, Begun, Sending
    <3> QED BY <1>1, <3>1, <3>2
  <2> QED BY <1>1, <2>1, <2>2
<1>2. CASE SendersStay
  BY <1>1, <1>2 DEF SendersStay, Begun, Sending
<1>3. CASE Serve \/ Close
  BY <1>1, <1>3 DEF Serve, Close, Begun
<1>4. ASSUME NEW u \in Thread, Begins(u)
      PROVE  Begins(t) /\ pc'[t] = "register"
  <2>1. u = t
    <3> SUFFICES ASSUME u # t PROVE FALSE
      OBVIOUS
    <3>1. pc'[t] = pc[t]
      BY <1>a, <1>4 DEF Begins
    <3> QED BY <1>4, <3>1 DEF Begins, Begun, Sending
  <2> QED BY <1>a, <1>4, <2>1 DEF Begins
<1>5. ASSUME NEW u \in Thread, Register(u)
      PROVE  Register(t) /\ pc'[t] = "write" /\ call' = call /\ sequence' = sequence
  <2>1. pc[u] = "register" /\ pc' = [pc EXCEPT ![u] = "write"] /\ call' = call /\ sequence' = sequence
    BY <1>5 DEF Register, Goto
  <2>2. u = t
    <3> SUFFICES ASSUME u # t PROVE FALSE
      OBVIOUS
    <3>1. pc'[t] = pc[t]
      BY <1>a, <2>1
    <3> QED BY <1>0, <2>1, <3>1 DEF Numbered, Begun, Sending
  <2> QED BY <1>5, <1>a, <2>1, <2>2
<1>6. ASSUME NEW u \in Thread, Write(u) \/ WriteFails(u)
      PROVE  FALSE
  <2>1. pc[u] = "write" /\ pc'[u] \notin {"register", "write"} /\ \A v \in Thread : v # u => pc'[v] = pc[v]
    BY <1>a, <1>6 DEF Write, WriteFails, Goto
  <2>2. u # t /\ Begun(t)
    BY <2>1 DEF Begun
  <2> QED BY <1>0, <2>1, <2>2 DEF Numbered, Begun, Sending
<1> QED BY <1>0, <1>2, <1>3, <1>4, <1>5, <1>6, Kinds DEF SenderStep

(* Where a discarded number comes from. *)
LEMMA DiscardViews ==
  ASSUME IInv, Next, NEW s \in discarded'
  PROVE  \/ s \in discarded
         \/ \E t \in Thread : Register(t) /\ s = call[t].seq /\ call[t].kind = "discard"
         \/ \E t \in Thread : \E c \in cookies[t] : c[1] = s /\ s \in DOMAIN results'
<1>1. CASE ServerStep \/ ReaderStep
  BY <1>1 DEF ServerStep, ReaderStep, Serve, SendEvent, Close, read_packet, queue_packet, EndOfStream,
              ReaderFails, ReaderNotifies, queue_reply, queue_error, tables
<1>2. ASSUME NEW t \in Thread, Continue(t)
      PROVE  s \in discarded \/ (Register(t) /\ s = call[t].seq /\ call[t].kind = "discard")
  <2>1. CASE Register(t)
    BY <2>1 DEF Register, RegisterTables
  <2> QED BY <1>2, <2>1 DEF Continue, SendRefused, send_bytes, Write, WriteFails, NotifyFailure,
                           CheckReply, Block, PushError, LookUp, CheckEvent, tables
<1>3. ASSUME NEW t \in Thread, Call(t)
      PROVE  s \in discarded \/ \E c \in cookies[t] : c[1] = s /\ s \in DOMAIN results'
  <2>1. CASE discard_reply(t)
    <3>1. PICK r \in Number : /\ <<r, "reply">> \in cookies[t]
                              /\ discarded' \subseteq discarded \cup {r} /\ Tell(r, "discarded")
      BY <2>1 DEF discard_reply
    <3>2. <<r, "reply">>[1] = r /\ r \in DOMAIN results'
      BY <3>1, Tells
    <3> QED BY <3>1, <3>2
  <2> QED BY <1>3, <2>1 DEF Call, send, wait_for_reply, poll_for_reply, request_check, wait_for_event,
                           poll_for_event, tables
<1> QED BY <1>1, <1>2, <1>3 DEF Next

(* Nothing but a write adds to the requests sent. *)
LEMMA SentViews ==
  ASSUME IInv, Next, ~skipped'
  PROVE  \/ served' + Len(toServer') <= served + Len(toServer)
         \/ \E t \in Thread : Write(t)
<1>0. TypeOK /\ Numbered
  BY DEF IInv
<1>1. Len(toServer) \in Nat /\ served \in Nat
  BY <1>0, FlightNumbers, LenProperties DEF TypeOK
<1>2. CASE Serve
  BY <1>0, <1>1, <1>2, ServedNext
<1>3. CASE Close
  BY <1>1, <1>3 DEF Close
<1>4. CASE SendersStay
  BY <1>1, <1>4 DEF SendersStay
<1>5. ASSUME NEW t \in Thread, Begins(t) \/ Register(t) \/ WriteFails(t)
      PROVE  served' + Len(toServer') <= served + Len(toServer)
  <2>1. CASE WriteFails(t)
    BY <1>0, <1>1, <2>1, CutLast
  <2> QED BY <1>1, <1>5, <2>1 DEF Begins, Register, wire
<1> QED BY <1>0, <1>2, <1>3, <1>4, <1>5, Kinds DEF SenderStep

(* Every step keeps the replies to discard those the application named. *)
LEMMA DiscardsKept ==
  ASSUME IInv, Next, ~skipped'
  PROVE  Discards'
<1>0. /\ TypeOK /\ Numbered /\ Discards /\ (\A u \in Thread : CallGood(u)) /\ sequence \in Nat
      /\ ~skipped
  BY FlightNumbers, NumbersAgree DEF IInv, Calls, CallGood
<1>a. sequence' \in Nat /\ sequence <= sequence' /\ Len(toServer) \in Nat /\ served \in Nat
      /\ served' + Len(toServer') <= sequence' /\ served' \in Nat /\ Len(toServer') \in Nat
  <2>1. TypeOK' /\ Numbered'
    BY TypesKept, NumberedKept
  <2>2. Len(toServer) \in Nat /\ Len(toServer') \in Nat
    BY <1>0, <2>1, LenProperties DEF TypeOK
  <2>3. sequence' = sequence \/ \E t \in Thread : Begins(t)
    BY <1>0, Kinds, ServedNext, WrittenLast DEF SendersStay, SenderStep, Close, Register, WriteFails
  <2>4. sequence' = sequence \/ sequence' = sequence + 1
    BY <2>3 DEF Begins
  <2> QED BY <1>0, <2>1, <2>2, <2>4, AnswersStay DEF Numbered
<1>b. DOMAIN results \subseteq DOMAIN results'
  BY EveryEffect DEF Effects, Fates
<1>1. ASSUME NEW s \in discarded'
      PROVE  s \in 1..sequence' /\ (s <= served' + Len(toServer') => s \in DOMAIN results')
  <2>1. CASE s \in discarded
    <3>1. s \in 1..sequence /\ (s <= served + Len(toServer) => s \in DOMAIN results)
      BY <1>0, <2>1 DEF Discards
    <3>2. ASSUME served' + Len(toServer') <= served + Len(toServer), s <= served' + Len(toServer')
          PROVE  s \in DOMAIN results'
      <4>1. s <= served + Len(toServer)
        BY <1>0, <1>a, <3>1, <3>2
      <4> QED BY <1>b, <3>1, <4>1
    <3>4. s \in 1..sequence'
      BY <1>0, <1>a, <3>1
    <3>3. ASSUME NEW t \in Thread, Write(t), s <= served' + Len(toServer') PROVE s \in DOMAIN results'
      <4>1. /\ call[t].seq = sequence /\ served + Len(toServer) + 1 = sequence /\ pc[t] = "write"
            /\ sequence' = sequence
        BY <1>0, <3>3, WrittenLast
      <4>2. s <= served + Len(toServer) \/ s = sequence
        BY <1>a, <3>1, <3>3, <4>1
      <4>3. ASSUME s = sequence PROVE s \in DOMAIN results'
        <5>1. call[t].kind = "discard"
          BY <1>0, <2>1, <4>1, <4>3 DEF Discards
        <5>2. Tell(sequence, "discarded")
          BY <3>3, <4>1, <5>1 DEF Write
        <5> QED BY <4>3, <5>2, Tells
      <4> QED BY <1>b, <3>1, <4>2, <4>3
    <3> QED BY <3>2, <3>3, <3>4, SentViews
  <2>2. ASSUME NEW t \in Thread, Register(t), s = call[t].seq
        PROVE  s \in 1..sequence' /\ ~(s <= served' + Len(toServer'))
    <3>1. s = sequence /\ served + Len(toServer) < sequence
      BY <1>0, <2>2 DEF Register, Numbered, Begun
    <3>2. UNCHANGED <<served, toServer, sequence>>
      BY <2>2 DEF Register, wire
    <3> QED BY <1>0, <1>a, <3>1, <3>2
  <2>3. ASSUME NEW t \in Thread, NEW c \in cookies[t], c[1] = s, s \in DOMAIN results'
        PROVE  s \in 1..sequence'
    BY <1>0, <1>a, <2>3 DEF CallGood, Given
  <2> QED BY <2>1, <2>2, <2>3, DiscardViews
<1>2. ASSUME NEW t \in Thread, Begun(t)'
      PROVE  /\ pc'[t] = "register" => sequence' \notin discarded'
             /\ pc'[t] = "write" /\ sequence' \in discarded' => call'[t].kind = "discard"
  <2>1. CASE Begins(t) /\ pc'[t] = "register"
    <3>1. sequence' = sequence + 1 /\ discarded' = discarded
      BY <2>1 DEF Begins, tables
    <3>2. sequence + 1 \notin discarded
      BY <1>0 DEF Discards
    <3> QED BY <2>1, <3>1, <3>2
  <2>2. CASE Register(t) /\ pc'[t] = "write" /\ call' = call /\ sequence' = sequence
    <3>1. pc[t] = "register" /\ sequence \notin discarded
      BY <1>0, <2>2 DEF Register, Discards
    <3>2. call[t].kind # "discard" => discarded' = discarded
      BY <2>2 DEF Register, RegisterTables
    <3> QED BY <2>2, <3>1, <3>2
  <2>3. CASE /\ Begun(t) /\ pc'[t] = pc[t] /\ call'[t] = call[t] /\ sequence' = sequence
             /\ \A u \in Thread : ~Register(u) /\ ~Begins(u)
    <3>1. \A u \in Thread : \A c \in cookies[u] : c[1] # sequence
      BY <1>0, <2>3 DEF CallGood, Given
    <3>2. sequence' \in discarded' => sequence \in discarded
      BY <2>3, <3>1, DiscardViews
    <3> QED BY <1>0, <2>3, <3>2 DEF Discards
  <2> QED BY <1>2, <2>1, <2>2, <2>3, SendingViews
<1> QED BY <1>1, <1>2 DEF Discards, Begun
-----------------------------------------------------------------------------
(* The round trip of request_check.                                        *)

(* A number leaves checked_requests_ or errors_ when its answer is taken. *)
GivesUp(s) ==
  \E t \in Thread :
    \/ Waiting(t) /\ call[t].seq = s
    \/ <<s, "reply">> \in cookies[t]
    \/ pc[t] = "look_up" /\ pc'[t] = "idle" /\ call[t].target = s

(* Only the owner of a number takes it from errors_ or checked_requests_. *)
LEMMA GivenUp ==
  ASSUME IInv, Next, NEW s, (s \in checked /\ s \notin checked') \/ (s \in errors /\ s \notin errors')
  PROVE  GivesUp(s)
<1>0. \A t \in Thread : t \in DOMAIN pc
  BY DEF IInv, TypeOK
<1>1. CASE ServerStep \/ ReaderStep
  BY <1>1 DEF ServerStep, ReaderStep, Serve, SendEvent, Close, read_packet, queue_packet, EndOfStream,
              ReaderFails, ReaderNotifies, queue_reply, queue_error, tables
<1>2. ASSUME NEW t \in Thread, Continue(t) PROVE GivesUp(s)
  <2>1. CASE Register(t)
    BY <2>1 DEF Register, RegisterTables
  <2>2. CASE CheckReply(t)
    <3>1. pc[t] = "check_reply" /\ s = call[t].seq
      BY <2>2 DEF CheckReply
    <3> QED BY <3>1 DEF GivesUp, Waiting
  <2>3. CASE LookUp(t)
    <3>1. pc[t] = "look_up" /\ pc'[t] = "idle" /\ call[t].target = s
      BY <1>0, <2>3 DEF LookUp, Goto
    <3> QED BY <3>1 DEF GivesUp
  <2> QED BY <1>2, <2>1, <2>2, <2>3 DEF Continue, SendRefused, send_bytes, Write, WriteFails,
                                        NotifyFailure, Block, PushError, CheckEvent, tables
<1>3. ASSUME NEW t \in Thread, Call(t) PROVE GivesUp(s)
  <2>1. CASE poll_for_reply(t) \/ discard_reply(t)
    <3>1. PICK r \in Number : /\ <<r, "reply">> \in cookies[t]
                              /\ errors' = errors \ {r} /\ checked' = checked \ {r}
      BY <2>1 DEF poll_for_reply, discard_reply
    <3>2. r = s
      BY <3>1
    <3> QED BY <3>1, <3>2 DEF GivesUp
  <2> QED BY <1>3, <2>1 DEF Call, send, wait_for_reply, request_check, wait_for_event,
                           poll_for_event, tables
<1> QED BY <1>1, <1>2, <1>3 DEF Next

InTransitNext(type, s) ==
  \/ \E i \in DOMAIN toClient' : toClient'[i] = [type |-> type, seq |-> s]
  \/ reader' = "queue" /\ packet' = [type |-> type, seq |-> s]
FollowedNext(s) ==
  /\ s \in checked'
  /\ \A i \in DOMAIN toServer' : toServer'[i].seq = s => toServer'[i].kind = "checked"
  /\ s <= served' => /\ answers'[s] \in {"nothing", "error"}
                     /\ answers'[s] = "error" => InTransitNext("error", s) \/ s \in errors'

(* A checked request that is not given up is followed further. *)
LEMMA FollowedGoesOn ==
  ASSUME IInv, Next, ~skipped', NEW s, Given(s), Followed(s), ~GivesUp(s)
  PROVE  FollowedNext(s)
<1>0. TypeOK /\ Numbered /\ ~skipped /\ s \in Nat \ {0} /\ served \in Nat /\ served' \in Nat
  <2>1. s \in 1..sequence /\ TypeOK /\ Numbered
    BY DEF Given, IInv
  <2> QED BY <2>1, FlightNumbers, AnswersStay, NumbersAgree
<1>1. s \in checked' /\ (s \in errors => s \in errors')
  BY GivenUp DEF Followed
<1>2. \A i \in DOMAIN toServer' : toServer'[i].seq = s => toServer'[i].kind = "checked"
  <2>1. CASE Serve
    <3>1. ASSUME NEW i \in DOMAIN toServer'
          PROVE  i + 1 \in DOMAIN toServer /\ toServer'[i] = toServer[i + 1]
      BY <1>0, <2>1, ServedNext
    <3> QED BY <3>1 DEF Followed
  <2>2. CASE Close
    BY <2>2 DEF Close
  <2>3. ASSUME NEW t \in Thread, Write(t), NEW i \in DOMAIN toServer', toServer'[i].seq = s
        PROVE  toServer'[i].kind = "checked"
    <3>1. s # sequence
      BY <1>0, <2>3, WrittenLast DEF Given, Begun
    <3>2. /\ DOMAIN toServer = 1..Len(toServer) /\ DOMAIN toServer' = 1..(Len(toServer) + 1)
          /\ \A j \in 1..Len(toServer) : toServer'[j] = toServer[j]
          /\ toServer'[Len(toServer) + 1] = [seq |-> served + Len(toServer) + 1, kind |-> call[t].kind]
          /\ served + Len(toServer) + 1 = sequence
          /\ Len(toServer) \in Nat
      BY <1>0, <2>3, WrittenLast
    <3>3. i # Len(toServer) + 1
      BY <2>3, <3>1, <3>2
    <3>4. i \in DOMAIN toServer /\ toServer'[i] = toServer[i]
      BY <3>2, <3>3
    <3> QED BY <2>3, <3>4 DEF Followed
  <2>4. CASE SendersStay \/ \E t \in Thread : Begins(t) \/ Register(t) \/ WriteFails(t)
    <3>1. toServer' = toServer
      BY <1>0, <2>4, CutLast DEF SendersStay, Begins, Register, wire
    <3> QED BY <3>1 DEF Followed
  <2> QED BY <1>0, <2>1, <2>2, <2>3, <2>4, Kinds DEF SenderStep
<1>3. ASSUME s <= served'
      PROVE  /\ answers'[s] \in {"nothing", "error"}
             /\ answers'[s] = "error" => InTransit("error", s)' \/ s \in errors'
  <2>1. CASE s \in 1..served
    <3>1. /\ answers'[s] = answers[s] /\ answers[s] \in {"nothing", "error"}
          /\ answers[s] = "error" => InTransit("error", s) \/ s \in errors
      BY <1>0, <2>1, AnswersStay DEF Followed
    <3>2. ASSUME Arrives("error", s) PROVE s \in errors'
      BY <3>2 DEF Arrives, Followed, queue_packet, queue_reply, queue_error
    <3> QED BY <1>1, <3>1, <3>2, TransitKept
  <2>2. CASE s \notin 1..served
    <3>1. s \in 1..served'
      BY <1>0, <1>3
    <3>2. Serve /\ s = served + 1 /\ (answers'[s] = "error" => InTransit("error", s)')
      BY <2>2, <3>1, JustServed
    <3>3. toServer[1].seq = s /\ 1 \in DOMAIN toServer
      BY <1>0, <3>2, ServedNext
    <3>4. toServer[1].kind = "checked"
      BY <3>3 DEF Followed
    <3> QED BY <1>0, <3>2, <3>4, Serves
  <2> QED BY <2>1, <2>2
<1> QED BY <1>1, <1>2, <1>3 DEF FollowedNext, InTransit, InTransitNext

(* A checked request is followed from when it is written. *)
LEMMA WrittenIsFollowed ==
  ASSUME IInv, Next, ~skipped', NEW t \in Thread, Write(t), call[t].kind = "checked"
  PROVE  FollowedNext(sequence)
<1>0. TypeOK /\ Numbered /\ ~skipped /\ served \in Nat /\ sequence \in Nat /\ ChecksFollowed
  BY FlightNumbers, NumbersAgree DEF IInv
<1>1. /\ pc[t] = "write" /\ served + Len(toServer) + 1 = sequence /\ Len(toServer) \in Nat
      /\ DOMAIN toServer = 1..Len(toServer) /\ DOMAIN toServer' = 1..(Len(toServer) + 1)
      /\ \A i \in 1..Len(toServer) : toServer'[i] = toServer[i]
      /\ toServer'[Len(toServer) + 1] = [seq |-> sequence, kind |-> "checked"]
      /\ served' = served
  BY <1>0, WrittenLast
<1>2. sequence \in checked'
  BY <1>0, <1>1 DEF Write, tables, ChecksFollowed
<1>3. ASSUME NEW i \in DOMAIN toServer', toServer'[i].seq = sequence PROVE toServer'[i].kind = "checked"
  <2>1. CASE i \in DOMAIN toServer
    <3>1. toServer[i].seq = served + i /\ toServer'[i] = toServer[i]
      BY <1>0, <1>1, <2>1 DEF Numbered
    <3> QED BY <1>0, <1>1, <1>3, <2>1, <3>1
  <2>2. CASE i \notin DOMAIN toServer
    <3>1. i = Len(toServer) + 1
      BY <1>1, <1>3, <2>2
    <3> QED BY <1>1, <3>1
  <2> QED BY <2>1, <2>2
<1>4. ~(sequence <= served')
  BY <1>0, <1>1
<1> QED BY <1>2, <1>3, <1>4 DEF FollowedNext

CheckGood(u) ==
  /\ \A c \in cookies[u] : c[2] = "checked" => Followed(c[1])
  /\ Checking(u) => Followed(call[u].target)
CheckGoodNext(u) ==
  /\ \A c \in cookies'[u] : c[2] = "checked" => FollowedNext(c[1])
  /\ Checking(u)' => FollowedNext(call'[u].target)

(* Nobody gives up the number of another's cookie. *)
LEMMA CookieGoesOn ==
  ASSUME IInv, Next, ~skipped', NEW u \in Thread, NEW c \in cookies[u], c[2] = "checked"
  PROVE  FollowedNext(c[1])
<1>0. Given(c[1]) /\ Followed(c[1]) /\ OneOwner /\ CookiesKept /\ Calls
  BY NumbersAgree DEF IInv, Calls, ChecksFollowed, Owned
<1>1. ASSUME NEW t \in Thread, Waiting(t) PROVE call[t].seq # c[1]
  BY <1>0, <1>1 DEF CookiesKept
<1>2. ASSUME NEW t \in Thread, <<c[1], "reply">> \in cookies[t] PROVE FALSE
  <2>1. <<c[1], "reply">>[1] = c[1] /\ <<c[1], "reply">>[2] = "reply"
    OBVIOUS
  <2>2. c = <<c[1], "reply">>
    BY <1>0, <1>2, <2>1 DEF OneOwner
  <2> QED BY <2>1, <2>2
<1>3. ASSUME NEW t \in Thread, pc[t] = "look_up" PROVE call[t].target # c[1]
  BY <1>0, <1>3 DEF CookiesKept, Calls
<1> QED BY <1>0, <1>1, <1>2, <1>3, FollowedGoesOn DEF GivesUp

(* Nor the number that a call of another is about. *)
LEMMA TargetGoesOn ==
  ASSUME IInv, Next, ~skipped', NEW u \in Thread, Checking(u), Checking(u)'
  PROVE  FollowedNext(call[u].target)
<1>0. Given(call[u].target) /\ Followed(call[u].target) /\ CookiesKept /\ CallsApart /\ Calls
  BY NumbersAgree DEF IInv, Calls, ChecksFollowed, Owned
<1>1. ASSUME NEW t \in Thread, Waiting(t) PROVE call[t].seq # call[u].target
  BY <1>0, <1>1 DEF CallsApart
<1>2. ASSUME NEW t \in Thread, <<call[u].target, "reply">> \in cookies[t] PROVE FALSE
  <2>1. <<call[u].target, "reply">>[1] = call[u].target
    OBVIOUS
  <2> QED BY <1>0, <1>2, <2>1 DEF CookiesKept
<1>3. ASSUME NEW t \in Thread, pc[t] = "look_up", pc'[t] = "idle" PROVE call[t].target # call[u].target
  <2>1. t # u
    BY <1>3, EveryPlace, NoCallIsNone DEF Placed, Outside, Checking
  <2> QED BY <1>0, <1>3, <2>1 DEF CallsApart, Calls
<1> QED BY <1>0, <1>1, <1>2, <1>3, FollowedGoesOn DEF GivesUp

(* The checked requests of a thread are followed through every step. *)
LEMMA ChecksGoOn ==
  ASSUME IInv, Next, ~skipped', NEW u \in Thread
  PROVE  CheckGoodNext(u)
<1>1. ASSUME NEW c \in cookies'[u], c[2] = "checked", c \in cookies[u] PROVE FollowedNext(c[1])
  BY <1>1, CookieGoesOn
<1>2. ASSUME CallStays(u), Checking(u)' PROVE FollowedNext(call'[u].target)
  BY <1>2, TargetGoesOn DEF CallStays
<1>3. CASE CallStays(u) /\ cookies'[u] \subseteq cookies[u]
  BY <1>1, <1>2, <1>3 DEF CheckGoodNext
<1>4. ASSUME NEW t \in Thread, Writes(t), t = u PROVE CheckGoodNext(u)
  <2>1. ASSUME NEW c \in cookies'[u], c[2] = "checked", c \notin cookies[u] PROVE FollowedNext(c[1])
    <3>1. c = <<sequence, call[u].kind>> /\ Write(u)
      BY <1>4, <2>1 DEF Writes
    <3>2. c[1] = sequence /\ call[u].kind = "checked"
      BY <2>1, <3>1
    <3> QED BY <3>1, <3>2, WrittenIsFollowed
  <2>2. ASSUME Checking(u)' PROVE FollowedNext(call'[u].target)
    <3>1. call'[u] = call[u] /\ Checking(u)
      BY <1>4, <2>2 DEF Writes, Checking
    <3> QED BY <2>2, <3>1, TargetGoesOn
  <2> QED BY <1>1, <2>1, <2>2 DEF CheckGoodNext
<1>5. ASSUME NEW t \in Thread, NEW c, Takes(t, c), t = u PROVE CheckGoodNext(u)
  <2>1. c \in cookies[u] /\ cookies'[u] \subseteq cookies[u]
    BY <1>5 DEF Takes
  <2>2. ASSUME Checking(u)' PROVE FollowedNext(call'[u].target)
    <3>1. c[2] = "checked" /\ call'[u].target = c[1]
      BY <1>5, <2>2 DEF Takes
    <3> QED BY <2>1, <3>1, CookieGoesOn
  <2> QED BY <1>1, <2>1, <2>2 DEF CheckGoodNext
<1> QED BY <1>3, <1>4, <1>5, CallViews DEF CallsStay, Writes, Takes, OthersAlone

(* A request about to be written is among the checked ones if it is to be. *)
LEMMA RegisteredStays ==
  ASSUME IInv, Next, ~skipped', NEW t \in Thread, pc'[t] = "write", call'[t].kind = "checked"
  PROVE  sequence' \in checked'
<1>0. TypeOK /\ Numbered /\ ChecksFollowed /\ Calls
  BY NumbersAgree DEF IInv
<1>1. CASE Register(t) /\ pc'[t] = "write" /\ call' = call /\ sequence' = sequence
  <2>1. call[t].seq = sequence
    BY <1>0, <1>1 DEF Register, Numbered, Begun
  <2> QED BY <1>1, <2>1 DEF Register, RegisterTables
<1>2. CASE Begun(t) /\ pc'[t] = pc[t] /\ call'[t] = call[t] /\ sequence' = sequence
  <2>1. sequence \in checked
    BY <1>0, <1>2 DEF ChecksFollowed
  <2>2. \A s : Given(s) => s # sequence
    BY <1>2 DEF Given
  <2>3. ~GivesUp(sequence)
    <3>1. ASSUME NEW u \in Thread, <<sequence, "reply">> \in cookies[u] PROVE FALSE
      <4>1. <<sequence, "reply">>[1] = sequence
        OBVIOUS
      <4> QED BY <1>0, <2>2, <3>1, <4>1 DEF Calls
    <3> QED BY <1>0, <2>2, <3>1 DEF GivesUp, Calls
  <2> QED BY <1>2, <2>1, <2>3, GivenUp
<1> QED BY <1>1, <1>2, SendingViews DEF Begun

(* What a thread looks up after its round trip has passed the reader. *)
LEMMA LookedUpPassed ==
  ASSUME IInv, Next, ~skipped', NEW t \in Thread, pc'[t] = "look_up"
  PROVE  failed' \/ \E s : call'[t].seq = s /\ Passed(s)'
<1>0. TypeOK /\ ChecksFollowed /\ KeptTrue
  BY NumbersAgree DEF IInv
<1>1. call'[t] = call[t] /\ (pc[t] = "look_up" \/ (Waiting(t) /\ Arrived(t)))
  BY EveryPlace DEF Placed
<1> PICK s : s = call[t].seq
  OBVIOUS
<1>2. failed \/ Passed(s)
  <2>1. CASE pc[t] = "look_up"
    BY <1>0, <2>1 DEF ChecksFollowed
  <2>2. CASE Arrived(t)
    BY <1>0, <2>2 DEF Arrived, KeptTrue, Kept, PushesBack
  <2> QED BY <1>1, <2>1, <2>2
<1>3. s \in Nat
  BY <1>0, ClientAssumption DEF TypeOK
<1> QED BY <1>1, <1>2, <1>3, PassedKept, FailedStays

(* Every step keeps the checked requests followed. *)
LEMMA ChecksFollowedKept ==
  ASSUME IInv, Next, ~skipped'
  PROVE  ChecksFollowed'
<1>1. \A t \in Thread :
        /\ \A c \in cookies'[t] : c[2] = "checked" => FollowedNext(c[1])
        /\ Checking(t)' => FollowedNext(call'[t].target)
  BY ChecksGoOn DEF CheckGoodNext
<1>2. (\A t \in Thread : \A c \in cookies[t] : c[2] = "checked" => Followed(c[1]))'
  BY <1>1 DEF Followed, FollowedNext, InTransit, InTransitNext
<1>3. ASSUME NEW t \in Thread, Checking(t)' PROVE Followed(call[t].target)'
  <2>1. PICK s : s = call'[t].target
    OBVIOUS
  <2>2. FollowedNext(s)
    BY <1>1, <1>3, <2>1
  <2> QED BY <2>1, <2>2 DEF Followed, FollowedNext, InTransit, InTransitNext
<1>4. (\A t \in Thread : pc[t] = "write" /\ call[t].kind = "checked" => sequence \in checked)'
  BY RegisteredStays
<1>5. (\A t \in Thread : pc[t] = "look_up" => failed \/ Passed(call[t].seq))'
  BY LookedUpPassed DEF Passed
<1> QED BY <1>2, <1>3, <1>4, <1>5 DEF ChecksFollowed
-----------------------------------------------------------------------------
(* The specification.                                                      *)

(* The invariant holds when the connection is set up, *)
LEMMA InitiallyTrue ==
  ASSUME Init
  PROVE  IInv
<1> USE DEF Init
<1>1. TypeOK
  <2>1. \A S : <<>> \in Seq(S)
    BY EmptySeq
  <2>2. answers \in [1..served -> {"reply", "error", "nothing"}]
    <3>1. 1..served = {} /\ DOMAIN <<>> = {}
      OBVIOUS
    <3> QED BY <2>1, SeqDef
  <2>3. NoPacket \in Packet
    BY ClientAssumption DEF NoPacket, Packet
  <2>4. call \in [Thread -> [seq : 0..(2 * MaxRequests), kind : Kind \cup {"sync"},
                             target : 0..(2 * MaxRequests), report : BOOLEAN]]
    BY ClientAssumption DEF NoCall, Kind
  <2>5. pc \in [Thread -> Place]
    BY DEF Place
  <2>6. DOMAIN results \subseteq Number
    OBVIOUS
  <2>7. served \in 0..sequence /\ sequence \in 0..(2 * MaxRequests) /\ eventsLeft \in 0..MaxEvents
    BY ClientAssumption
  <2> QED BY <2>1, <2>2, <2>3, <2>4, <2>5, <2>6, <2>7 DEF TypeOK
<1>2. Numbered
  BY EmptySeq DEF Numbered, Begun, Sending
<1>3. InFlight
  BY ClientAssumption, EmptySeq DEF InFlight
<1>4. KeptTrue
  BY EmptySeq DEF KeptTrue
<1>5. Discards
  BY DEF Discards
<1>6. Calls
  BY DEF Calls, Checking, Waiting, NoCall
<1>7. Owned
  BY DEF Owned, OneOwner, CookiesKept, CallsApart, Checking, Waiting, NoCall
<1>8. ChecksFollowed
  BY DEF ChecksFollowed, Checking, NoCall
<1>9. NoAnswerLost /\ AnswersMatch
  BY DEF NoAnswerLost, AnswersMatch
<1> QED BY <1>1, <1>2, <1>3, <1>4, <1>5, <1>6, <1>7, <1>8, <1>9 DEF IInv, Agreed

(* when nothing happens, *)
LEMMA StutteringKeeps ==
  ASSUME IInv, UNCHANGED vars
  PROVE  IInv'
<1> USE DEF vars, wire, tables, queue
<1>1. TypeOK'
  BY DEF IInv, TypeOK
<1>2. Numbered' /\ InFlight'
  BY DEF IInv, Numbered, InFlight, Begun, TrueOf, IsAnswer
<1>3. KeptTrue'
  BY DEF IInv, KeptTrue, Kept, Passed, IsAnswer
<1>4. Discards => Discards'
  BY DEF Discards
<1>5. Calls'
  BY DEF IInv, Calls, Checking, Waiting, Given, Begun
<1>6. Owned'
  BY DEF IInv, Owned, OneOwner, CookiesKept, CallsApart, Checking, Waiting
<1>7. ChecksFollowed => ChecksFollowed'
  BY DEF ChecksFollowed, Followed, InTransit, Checking, Passed, IsAnswer
<1>8. NoAnswerLost' /\ AnswersMatch'
  BY DEF IInv, NoAnswerLost, AnswersMatch, InTransit
<1> QED BY <1>1, <1>2, <1>3, <1>4, <1>5, <1>6, <1>7, <1>8 DEF IInv, Agreed

(* and after every step. *)
LEMMA StepKeeps ==
  ASSUME IInv, Next
  PROVE  IInv'
<1>1. TypeOK' /\ Numbered' /\ InFlight'
  BY TypesKept, NumberedKept, InFlightKept
<1>2. KeptTrue' /\ Calls' /\ Owned' /\ Agreed'
  BY KeptTrueKept, DiscardsKept, CallsKept, OwnedKept, ChecksFollowedKept DEF Agreed
<1>3. NoAnswerLost' /\ AnswersMatch'
  BY NoAnswerLostKept, AnswersMatchKept
<1> QED BY <1>1, <1>2, <1>3 DEF IInv

(***************************************************************************)
(* The invariant holds whatever the order in which threads, reader and     *)
(* server take their steps, for any number of threads and any Modulus.     *)
(***************************************************************************)
THEOREM Inductive == Spec => []IInv
<1>1. Init => IInv
  BY InitiallyTrue
<1>2. IInv /\ [Next]_vars => IInv'
  BY StepKeeps, StutteringKeeps
<1> QED BY <1>1, <1>2, PTL DEF Spec

(***************************************************************************)
(* No reply and no error is lost between the socket and the application:   *)
(* queue_packet, wait_for_reply, poll_for_reply, discard_reply and         *)
(* request_check hand each on or say that it was discarded; until a write  *)
(* fails although the server is there, as send_bytes has then given out a  *)
(* number that the server does not count.                                  *)
(***************************************************************************)
THEOREM AnswersAreKept == Spec => []NoAnswerLost
<1>1. IInv => NoAnswerLost
  BY DEF IInv
<1> QED BY <1>1, Inductive, PTL

(***************************************************************************)
(* What the application is told of a request is what the server answered;  *)
(* request_check says that there was no error only if there was none or    *)
(* the connection has failed; until a write fails although the server is   *)
(* there.                                                                  *)
(***************************************************************************)
THEOREM AnswersAreTrue == Spec => []AnswersMatch
<1>1. IInv => AnswersMatch
  BY DEF IInv
<1> QED BY <1>1, Inductive, PTL

(***************************************************************************)
(* The number that widen_sequence makes of the 16 bits of a packet is the  *)
(* number of the request that the packet belongs to, as long as no packet  *)
(* in flight is Modulus requests behind (KeepsUp, which the model assumes  *)
(* of a request that begins, and the code does not enforce).               *)
(***************************************************************************)
THEOREM WideningIsExact ==
  Spec => [](\A i \in DOMAIN toClient : widen_sequence(toClient[i].seq % Modulus) = toClient[i].seq)
<1>1. ASSUME IInv, NEW i \in DOMAIN toClient
      PROVE  widen_sequence(toClient[i].seq % Modulus) = toClient[i].seq
  <2>1. toClient[i].seq <= served /\ served <= sequence /\ sequence - toClient[i].seq < Modulus
        /\ toClient[i].seq \in Nat /\ sequence \in Nat /\ served \in Nat
    BY <1>1, FlightNumbers DEF IInv, InFlight, TrueOf
  <2> QED BY <2>1, Widened
<1>2. IInv => \A i \in DOMAIN toClient : widen_sequence(toClient[i].seq % Modulus) = toClient[i].seq
  BY <1>1
<1> QED BY <1>2, Inductive, PTL
-----------------------------------------------------------------------------
(* The descriptor of the events.                                           *)

(* Nobody will ask for the answer to s again. *)
Unasked(s) ==
  \A u \in Thread : /\ \A c \in cookies[u] : c[1] # s
                    /\ Waiting(u) => call[u].seq # s
                    /\ Checking(u) => call[u].target # s

Over(s) == Given(s) /\ Unasked(s)

(* No two threads wait for one reply. *)
WaitsApart ==
  \A t, u \in Thread : t # u /\ Waiting(t) /\ Waiting(u) => call[t].seq # call[u].seq

(* A request whose error was put back among the events is over. *)
PushedIsOver == \A s \in DOMAIN results : results[s] = "pushed" => Over(s)

(* A request that is over stays so. *)
LEMMA StaysOver ==
  ASSUME IInv, Next, NEW s, Over(s)
  PROVE  Over(s)'
<1>0. s \in 1..sequence /\ GivenNext(s)
  BY GivenGoesOn DEF Over, Given
<1>1. ASSUME NEW u \in Thread, CallStays(u), cookies'[u] \subseteq cookies[u]
      PROVE  /\ \A c \in cookies'[u] : c[1] # s
             /\ Waiting(u)' => call'[u].seq # s
             /\ Checking(u)' => call'[u].target # s
  BY <1>1 DEF Over, Unasked, CallStays
<1>2. CASE CallsStay
  BY <1>0, <1>1, <1>2 DEF CallsStay, Over, Unasked, Given, GivenNext
<1>3. ASSUME NEW t \in Thread, Writes(t) PROVE Over(s)'
  <2>1. s # sequence
    BY <1>3 DEF Writes, Over, Given
  <2>2. \A k : <<sequence, k>>[1] = sequence
    OBVIOUS
  <2>3. \A c \in cookies'[t] : c[1] # s
    BY <1>3, <2>1, <2>2 DEF Writes, Over, Unasked
  <2>4. Waiting(t)' => call'[t].seq # s
    BY <1>3, <2>1 DEF Writes
  <2>5. Checking(t)' => call'[t].target # s
    <3>1. Checking(t)' => call'[t] = call[t] /\ Checking(t)
      BY <1>3 DEF Writes, Checking
    <3> QED BY <3>1 DEF Over, Unasked
  <2>6. \A u \in Thread : u # t => CallStays(u) /\ cookies'[u] \subseteq cookies[u]
    BY <1>3 DEF Writes, OthersAlone
  <2> QED BY <1>0, <1>1, <2>3, <2>4, <2>5, <2>6 DEF Over, Unasked, Given, GivenNext
<1>4. ASSUME NEW t \in Thread, NEW c, Takes(t, c) PROVE Over(s)'
  <2>1. c[1] # s /\ \A d \in cookies'[t] : d[1] # s
    BY <1>4 DEF Takes, Over, Unasked
  <2>2. /\ Waiting(t)' => call'[t].seq # s
        /\ Checking(t)' => call'[t].target # s
    BY <1>4, <2>1 DEF Takes
  <2>3. \A u \in Thread : u # t => CallStays(u) /\ cookies'[u] \subseteq cookies[u]
    BY <1>4 DEF Takes, OthersAlone
  <2> QED BY <1>0, <1>1, <2>1, <2>2, <2>3 DEF Over, Unasked, Given, GivenNext
<1> QED BY <1>2, <1>3, <1>4, CallViews

(* Threads wait for replies to cookies that had one owner. *)
LEMMA WaitsStayApart ==
  ASSUME IInv, Next, WaitsApart
  PROVE  WaitsApart'
<1>0. TypeOK /\ Owned /\ Calls
  BY DEF IInv
<1>1. CASE CallsStay
  BY <1>1 DEF CallsStay, CallStays, WaitsApart
<1>2. ASSUME NEW w \in Thread, Writes(w) PROVE WaitsApart'
  <2>1. \A u \in Thread : Waiting(u) => call[u].seq # sequence
    BY <1>0, <1>2 DEF Writes, Calls, Given
  <2>2. \A u \in Thread : Waiting(u)' => \/ Waiting(u) /\ call'[u].seq = call[u].seq /\ u # w
                                         \/ u = w /\ call'[u].seq = sequence
    BY <1>2 DEF Writes, OthersAlone, CallStays
  <2> QED BY <2>1, <2>2 DEF WaitsApart
<1>3. ASSUME NEW w \in Thread, NEW x, Takes(w, x) PROVE WaitsApart'
  <2>1. \A u \in Thread : Waiting(u) => call[u].seq # x[1]
    <3>1. x \in cookies[w]
      BY <1>3 DEF Takes
    <3>2. \A u \in Thread : \A c \in cookies[w] : Waiting(u) => c[1] # call[u].seq
      BY <1>0, Zenon DEF Owned, CookiesKept
    <3> QED BY <3>1, <3>2
  <2>2. \A u \in Thread : Waiting(u)' => \/ Waiting(u) /\ call'[u].seq = call[u].seq /\ u # w
                                         \/ u = w /\ call'[u].seq = x[1]
    BY <1>3 DEF Takes, OthersAlone, CallStays
  <2> QED BY <2>1, <2>2 DEF WaitsApart
<1> QED BY <1>1, <1>2, <1>3, CallViews

(* What the application was told of a request that is over is final, and
   only wait_for_reply puts an error back. *)
TellsOnly ==
  /\ \A s \in DOMAIN results : Over(s) => s \in DOMAIN results' /\ results'[s] = results[s]
  /\ \A s \in DOMAIN results' : results'[s] = "pushed" =>
       \/ s \in DOMAIN results /\ results[s] = "pushed"
       \/ \E t \in Thread : PushError(t) /\ s = call[t].seq

LEMMA TellsOne ==
  ASSUME NEW s, NEW result, Tell(s, result), ~Over(s),
         result = "pushed" => \E t \in Thread : PushError(t) /\ s = call[t].seq
  PROVE  TellsOnly
<1>1. /\ DOMAIN results' = DOMAIN results \cup {s} /\ results'[s] = result
      /\ \A n \in DOMAIN results : n # s => results'[n] = results[n]
  BY Tells
<1>2. ASSUME NEW n \in DOMAIN results' PROVE n = s \/ (n \in DOMAIN results /\ results'[n] = results[n])
  BY <1>1, <1>2
<1> QED BY <1>1, <1>2 DEF TellsOnly

LEMMA EveryTelling ==
  ASSUME IInv, Next
  PROVE  TellsOnly
<1>0. TypeOK /\ Calls
  BY DEF IInv
<1>1. CASE results' = results
  BY <1>1 DEF TellsOnly
<1>2. CASE ServerStep \/ ReaderStep
  BY <1>1, <1>2 DEF ServerStep, Serve, SendEvent, Close, ReaderStep, read_packet, queue_packet,
                    EndOfStream, ReaderFails, ReaderNotifies
<1>3. ASSUME TakeEvent PROVE TellsOnly
  <2>1. CASE Head(events).seq \in DOMAIN results \/ Head(events).type # "error"
    BY <1>1, <1>3, <2>1 DEF TakeEvent, TellError
  <2>2. CASE Head(events).seq \notin DOMAIN results /\ Head(events).type = "error"
    <3> DEFINE s == Head(events).seq
    <3>1. /\ DOMAIN results' = DOMAIN results \cup {s} /\ results'[s] = "event"
          /\ \A n \in DOMAIN results : n # s => results'[n] = results[n]
      BY <1>3, <2>2, Tells DEF TakeEvent, TellError
    <3> QED BY <2>2, <3>1 DEF TellsOnly
  <2> QED BY <2>1, <2>2
<1>4. ASSUME NEW t \in Thread, Continue(t) PROVE TellsOnly
  <2>1. CASE \/ Register(t) \/ WriteFails(t) \/ NotifyFailure(t) \/ Block(t)
             \/ SendRefused(t) \/ send_bytes(t)
    BY <1>1, <2>1 DEF Register, WriteFails, NotifyFailure, Block, SendRefused, send_bytes
  <2>2. CASE Write(t)
    <3>1. Begun(t) /\ call[t].seq = sequence
      BY <2>2 DEF Write, Begun, IInv, Numbered
    <3>2. ~Over(call[t].seq)
      BY <3>1 DEF Over, Given
    <3>3. results' = results \/ Tell(call[t].seq, "discarded")
      BY <2>2 DEF Write
    <3> QED BY <1>1, <3>2, <3>3, TellsOne
  <2>3. CASE CheckReply(t)
    <3>1. ~Over(call[t].seq)
      BY <2>3 DEF CheckReply, Over, Unasked, Waiting
    <3>2. results' = results \/ \E r \in {"error", "reply", "null"} : Tell(call[t].seq, r)
      BY <2>3 DEF CheckReply, Return
    <3> QED BY <1>1, <3>1, <3>2, TellsOne
  <2>4. CASE PushError(t)
    <3>1. ~Over(call[t].seq)
      BY <2>4 DEF PushError, Over, Unasked, Waiting
    <3>2. Tell(call[t].seq, "pushed")
      BY <2>4 DEF PushError, Return
    <3> QED BY <2>4, <3>1, <3>2, TellsOne
  <2>5. CASE LookUp(t)
    <3>1. ~Over(call[t].target)
      BY <1>0, <2>5 DEF LookUp, Over, Unasked, Calls
    <3>2. \E r \in {"error", "nothing"} : Tell(call[t].target, r)
      BY <2>5 DEF LookUp
    <3> QED BY <3>1, <3>2, TellsOne
  <2>6. CASE CheckEvent(t)
    BY <1>1, <1>3, <2>6 DEF CheckEvent, queue
  <2> QED BY <1>4, <2>1, <2>2, <2>3, <2>4, <2>5, <2>6 DEF Continue
<1>5. ASSUME NEW t \in Thread, Call(t) PROVE TellsOnly
  <2>1. CASE \/ request_check(t) \/ wait_for_event(t) \/ \E kind \in Kind : send(t, kind)
             \/ \E report \in BOOLEAN : wait_for_reply(t, report)
    BY <1>1, <2>1 DEF request_check, wait_for_event, send, wait_for_reply
  <2>2. CASE poll_for_reply(t) \/ discard_reply(t)
    <3>1. PICK s \in Number : /\ <<s, "reply">> \in cookies[t]
                              /\ \E r \in {"error", "dropped", "reply", "discarded"} : Tell(s, r)
      BY <2>2 DEF poll_for_reply, discard_reply
    <3>2. <<s, "reply">>[1] = s
      OBVIOUS
    <3>3. ~Over(s)
      BY <3>1, <3>2 DEF Over, Unasked
    <3> QED BY <3>1, <3>3, TellsOne
  <2>3. CASE poll_for_event(t)
    BY <1>1, <1>3, <2>3 DEF poll_for_event
  <2> QED BY <1>5, <2>1, <2>2, <2>3 DEF Call
<1> QED BY <1>2, <1>4, <1>5 DEF Next

(* An error is put back when its request is over. *)
LEMMA PushedIsLast ==
  ASSUME IInv, WaitsApart, NEW t \in Thread, PushError(t), Next,
         NEW s, s = call[t].seq
  PROVE  Over(s)'
<1>0. TypeOK /\ Calls /\ Owned
  BY DEF IInv
<1>1. Waiting(t) /\ Given(s) /\ GivenNext(s)
  BY <1>0, GivenGoesOn DEF PushError, Waiting, Calls
<1>2. /\ cookies' = cookies /\ t \in DOMAIN pc /\ t \in DOMAIN call
      /\ \A u \in Thread : u # t => pc'[u] = pc[u] /\ call'[u] = call[u]
      /\ pc'[t] \in {"idle", "look_up"}
      /\ call'[t] = call[t] \/ call'[t] = NoCall
  BY <1>0 DEF PushError, Return, Goto, TypeOK
<1>3. ASSUME NEW u \in Thread
      PROVE  /\ \A c \in cookies'[u] : c[1] # s
             /\ Waiting(u)' => call'[u].seq # s
             /\ Checking(u)' => call'[u].target # s
  <2>1. \A c \in cookies[u] : c[1] # s
    BY <1>0, <1>1, Zenon DEF Owned, CookiesKept
  <2>2. u # t /\ Waiting(u) => call[u].seq # s
    BY <1>1 DEF WaitsApart
  <2>3. Checking(u) => call[u].target # s
    BY <1>0, <1>1, Zenon DEF Owned, CallsApart
  <2>4. Waiting(u)' => call'[u].seq # s
    BY <1>2, <2>2 DEF Waiting
  <2>5. Checking(u)' => call'[u].target # s
    BY <1>2, <2>3, NoCallIsNone DEF Checking
  <2> QED BY <1>2, <2>1, <2>4, <2>5
<1>4. Given(s)'
  BY <1>1 DEF Given, GivenNext
<1> QED BY <1>3, <1>4 DEF Over, Unasked

SignalInv == IInv /\ WaitsApart /\ PushedIsOver /\ EventsAreSignalled

LEMMA SignalsKept ==
  ASSUME SignalInv, Next
  PROVE  SignalInv'
<1>0. IInv /\ WaitsApart /\ PushedIsOver /\ EventsAreSignalled /\ TypeOK
  BY DEF SignalInv, IInv
<1>1. IInv' /\ WaitsApart'
  BY <1>0, StepKeeps, WaitsStayApart
<1>2. PushedIsOver'
  <2>1. ASSUME NEW s \in DOMAIN results', results'[s] = "pushed" PROVE Over(s)'
    <3>1. CASE s \in DOMAIN results /\ results[s] = "pushed"
      BY <1>0, <3>1, StaysOver DEF PushedIsOver
    <3>2. ASSUME NEW t \in Thread, PushError(t), s = call[t].seq PROVE Over(s)'
      BY <1>0, <3>2, PushedIsLast
    <3> QED BY <1>0, <2>1, <3>1, <3>2, EveryTelling DEF TellsOnly
  <2> QED BY <2>1 DEF PushedIsOver
<1>3. PutBack => PutBack'
  BY <1>0, EveryTelling DEF PutBack, PushedIsOver, TellsOnly
<1>4. CASE PutBack'
  BY <1>1, <1>2, <1>4 DEF SignalInv, EventsAreSignalled
<1>5. CASE ~PutBack'
  <2>1. events # <<>> => signalled
    BY <1>0, <1>3, <1>5 DEF EventsAreSignalled
  <2>2. events' # <<>> => signalled'
    <3>1. CASE UNCHANGED queue
      BY <2>1, <3>1 DEF queue
    <3>2. ASSUME NEW p, queue_event(p) PROVE signalled'
      BY <2>1, <3>2 DEF queue_event, signal_event_available
    <3>3. CASE ServerStep \/ ReaderStep
      BY <3>1, <3>2, <3>3
      DEF ServerStep, Serve, SendEvent, Close, ReaderStep, read_packet, queue_packet, EndOfStream,
          ReaderFails, ReaderNotifies, queue_reply, queue_error, signal_event_available
    <3>4. CASE events # <<>> /\ TakeEvent
      <4>1. events \in Seq(Packet)
        BY <1>0 DEF TypeOK
      <4>2. /\ Tail(events) \in Seq(Packet)
            /\ Len(events) = 1 => Len(Tail(events)) = 0
        BY <3>4, <4>1, Popped
      <4>3. Len(events) = 1 => Tail(events) = <<>>
        BY <4>2, EmptySeq
      <4>4. CASE Len(events) = 1
        BY <3>4, <4>3, <4>4 DEF TakeEvent
      <4>5. CASE Len(events) # 1
        <5>1. UNCHANGED signalled
          BY <3>4, <4>5 DEF TakeEvent
        <5> QED BY <2>1, <3>4, <5>1
      <4> QED BY <4>4, <4>5
    <3>5. ASSUME NEW t \in Thread, Continue(t) PROVE events' # <<>> => signalled'
      <4>1. ~PushError(t)
        <5>1. ASSUME Tell(call[t].seq, "pushed") PROVE PutBack'
          BY <5>1, Tells DEF PutBack
        <5> QED BY <1>5, <5>1 DEF PushError, Return
      <4>2. CASE CheckEvent(t)
        BY <3>1, <3>4, <4>2 DEF CheckEvent, queue
      <4>3. CASE ~CheckEvent(t)
        BY <3>1, <3>5, <4>1, <4>3 DEF Continue, SendRefused, send_bytes, Register, Write, WriteFails,
                                      NotifyFailure, CheckReply, Block, LookUp
      <4> QED BY <4>2, <4>3
    <3>6. ASSUME NEW t \in Thread, Call(t) PROVE events' # <<>> => signalled'
      <4>1. CASE poll_for_event(t)
        BY <3>4, <4>1 DEF poll_for_event
      <4>2. CASE ~poll_for_event(t)
        BY <3>1, <3>6, <4>2 DEF Call, send, wait_for_reply, poll_for_reply, discard_reply,
                                request_check, wait_for_event
      <4> QED BY <4>1, <4>2
    <3> QED BY <3>3, <3>5, <3>6 DEF Next
  <2> QED BY <1>1, <1>2, <2>2 DEF SignalInv, EventsAreSignalled
<1> QED BY <1>4, <1>5

(***************************************************************************)
(* The descriptor that event loops poll is readable whenever events_ is    *)
(* not empty, unless wait_for_reply has put an error back: nobody clears   *)
(* it who does not take the last event.                                    *)
(***************************************************************************)
THEOREM DescriptorTells == Spec => []EventsAreSignalled
<1>1. Init => SignalInv
  <2>1. Init => IInv
    BY InitiallyTrue
  <2> QED BY <2>1 DEF SignalInv, Init, WaitsApart, Waiting, PushedIsOver, EventsAreSignalled
<1>2. SignalInv /\ [Next]_vars => SignalInv'
  <2>1. ASSUME SignalInv, UNCHANGED vars PROVE SignalInv'
    <3>1. IInv'
      BY <2>1, StutteringKeeps DEF SignalInv
    <3>2. WaitsApart' /\ PushedIsOver' /\ EventsAreSignalled'
      BY <2>1 DEF SignalInv, WaitsApart, PushedIsOver, EventsAreSignalled, PutBack, Over, Given,
                  Unasked, Waiting, Checking, Begun, vars, queue
    <3> QED BY <3>1, <3>2 DEF SignalInv
  <2> QED BY <2>1, SignalsKept
<1>3. SignalInv => EventsAreSignalled
  BY DEF SignalInv
<1> QED BY <1>1, <1>2, <1>3, PTL DEF Spec
=============================================================================
