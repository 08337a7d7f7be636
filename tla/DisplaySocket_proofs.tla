------------------------ MODULE DisplaySocket_proofs ------------------------
(***************************************************************************)
(* For any number of servers and of displays: no server that ended leaves  *)
(* a file, unless it was killed; and there is one server per display as    *)
(* long as no lock outlives its server.                                    *)
(***************************************************************************)
EXTENDS DisplaySocket, TLAPS

(***************************************************************************)
(* No lock outlives its server: none is stale at the start, and no server  *)
(* that serves is told to stop and none is killed.  OneServer needs this.  *)
(* Two servers that find a stale lock may both remove it, the second the   *)
(* lock the first has just linked, and so may two that find the lock of a  *)
(* server that stops gone when they read it (the removal by name in        *)
(* acquire_lock).  Stale sockets may lie about: only who holds the lock    *)
(* touches the socket.                                                     *)
(***************************************************************************)
NoLockOutlivesItsServer ==
  StaleLocks = {} /\ Stopping = {} /\ Crashing = {}

Binding == {"identify", "chmod", "listen", "serving"}
Probing == {"connect", "lstat", "remove_socket"}
Holding == Binding \cup Probing \cup {"bind", "rebind"}
Contending == {"start", "link", "read", "alive", "check_socket", "check_lock", "gone"}

(* A holder's display is locked by it, and every lock has its holder. *)
LocksHeld ==
  /\ \A p \in Process : pc[p] \in Holding => Lock(p) = p
  /\ \A d \in Display : lock[d] # None =>
       /\ lock[d] \in Process
       /\ pc[lock[d]] \in Holding
       /\ display[lock[d]] = d

(* A socket is stale, or belongs to the server that has bound it and stays. *)
SocketsHeld ==
  /\ \A p \in Process :
       /\ pc[p] \in Binding => Socket(p) = p
       /\ pc[p] \in Probing => Socket(p) = Stale
       /\ pc[p] = "rebind" => Socket(p) = None
  /\ \A d \in Display : socket[d] \notin {None, Stale} =>
       /\ socket[d] \in Process
       /\ pc[socket[d]] \in Binding
       /\ display[socket[d]] = d

(* Who found a display locked finds its holder alive, and owns nothing. *)
OthersWait ==
  \A p \in Process :
    /\ pc[p] \in Holding \cup Contending
    /\ pc[p] = "read" => Lock(p) # None
    /\ pc[p] = "alive" => seen[p] \in Process /\ pc[seen[p]] \in Holding
    /\ pc[p] \in Contending => ~ownsLock[p] /\ ownSocket[p] = None

(***************************************************************************)
(* Servers that start together never take each other's files for stale: a  *)
(* lock has its living holder from link on, and so has every socket.       *)
(***************************************************************************)
HeldByTheLiving == LocksHeld /\ SocketsHeld /\ OthersWait

FreshInv == TypeOK /\ HeldByTheLiving

(***************************************************************************)
(* Initially there is no lock, and every server is about to start.         *)
(***************************************************************************)
LEMMA FreshInit ==
  ASSUME NoLockOutlivesItsServer
  PROVE  Init => FreshInv
<1> SUFFICES ASSUME Init PROVE FreshInv
  OBVIOUS
<1> USE DisplayAssumption DEF Init, NoLockOutlivesItsServer
<1>1. TypeOK
  BY DEF TypeOK, Owner, Starting, Display
<1>2. LocksHeld
  BY DEF LocksHeld, Holding, Binding, Probing, None, Display
<1>3. SocketsHeld
  BY DEF SocketsHeld, Binding, Probing, None
<1>4. OthersWait
  BY DEF OthersWait, Holding, Binding, Probing, Contending
<1> QED
  BY <1>1, <1>2, <1>3, <1>4 DEF FreshInv, HeldByTheLiving

(***************************************************************************)
(* A server that gives up without having linked a lock keeps the           *)
(* invariant: it was no holder.                                            *)
(***************************************************************************)
LEMMA GiveUpKeepsHolders ==
  ASSUME FreshInv, NEW p \in Process, NEW code \in {"busy", "io"},
         pc[p] \in Contending, GiveUp(p, code), UNCHANGED files
  PROVE  FreshInv'
<1> USE DEF FreshInv, HeldByTheLiving, GiveUp, Goto, files
<1>1. TypeOK'
  BY DEF TypeOK, CleaningUp
<1>2. LocksHeld'
  BY DEF LocksHeld, Lock, TypeOK, Contending, Holding, Binding, Probing
<1>3. SocketsHeld'
  BY DEF SocketsHeld, Socket, TypeOK, Contending, Binding, Probing
<1>4. OthersWait'
  BY DEF OthersWait, Lock, TypeOK, Contending, Holding, Binding, Probing
<1> QED
  BY <1>1, <1>2, <1>3, <1>4

(***************************************************************************)
(* A server that moves from one place before link to another, with no      *)
(* other change, keeps the invariant if it is right about the lock.        *)
(***************************************************************************)
LEMMA ContendingKeepsHolders ==
  ASSUME FreshInv, NEW p \in Process, NEW place \in Contending \ {"read", "alive"},
         pc[p] \in Contending, Goto(p, place), UNCHANGED <<files, locals>>
  PROVE  FreshInv'
<1> USE DEF FreshInv, HeldByTheLiving, Goto, files, locals
<1>1. TypeOK'
  BY DEF TypeOK, Contending, Starting, CleaningUp
<1>2. LocksHeld'
  BY DEF LocksHeld, Lock, TypeOK, Contending, Holding, Binding, Probing
<1>3. SocketsHeld'
  BY DEF SocketsHeld, Socket, TypeOK, Contending, Binding, Probing
<1>4. OthersWait'
  BY DEF OthersWait, Lock, TypeOK, Contending, Holding, Binding, Probing
<1> QED
  BY <1>1, <1>2, <1>3, <1>4

(***************************************************************************)
(* Taking the lock, or finding it taken.                                   *)
(***************************************************************************)
LEMMA LinkKeepsHolders ==
  ASSUME FreshInv, NEW p \in Process, Link(p)
  PROVE  FreshInv'
<1> USE DisplayAssumption DEF FreshInv, HeldByTheLiving, Link, SetLock, Goto
<1>1. TypeOK'
  <2>1. CASE Lock(p) = None
    <3>1. lock' \in [Display -> Owner]
      BY <2>1 DEF TypeOK, Owner
    <3>2. ownsLock' \in [Process -> BOOLEAN]
      BY <2>1, Zenon DEF TypeOK
    <3>3. pc' \in [Process -> Starting \cup CleaningUp \cup {"serving", "gone"}]
      BY <2>1 DEF TypeOK, Starting
    <3> QED
      BY <3>1, <3>2, <3>3 DEF TypeOK
  <2>2. CASE Lock(p) # None
    BY <2>2 DEF TypeOK, Starting
  <2> QED
    BY <2>1, <2>2
<1>2. LocksHeld'
  BY DEF LocksHeld, Lock, TypeOK, Holding, Binding, Probing
<1>3. SocketsHeld'
  BY DEF SocketsHeld, Socket, TypeOK, Binding, Probing
<1>4. OthersWait'
  BY DEF OthersWait, Lock, TypeOK, Contending, Holding, Binding, Probing
<1> QED
  BY <1>1, <1>2, <1>3, <1>4

(***************************************************************************)
(* A lock that is read names its holder, and the holder is alive.          *)
(***************************************************************************)
LEMMA ReadKeepsHolders ==
  ASSUME FreshInv, NEW p \in Process, ReadLockPid(p)
  PROVE  FreshInv'
<1> USE DisplayAssumption DEF FreshInv, HeldByTheLiving, ReadLockPid, Goto, files
<1>1. Lock(p) \in Process /\ pc[Lock(p)] \in Holding
  BY DEF LocksHeld, OthersWait, Lock, TypeOK
<1>2. TypeOK'
  BY <1>1 DEF TypeOK, Starting
<1>3. LocksHeld'
  BY <1>1 DEF LocksHeld, Lock, TypeOK, Holding, Binding, Probing
<1>4. SocketsHeld'
  BY <1>1 DEF SocketsHeld, Socket, TypeOK, Binding, Probing
<1>5. OthersWait'
  BY <1>1 DEF OthersWait, Lock, TypeOK, Contending, Holding, Binding, Probing
<1> QED
  BY <1>2, <1>3, <1>4, <1>5

LEMMA CheckAliveKeepsHolders ==
  ASSUME FreshInv, NEW p \in Process, CheckAlive(p)
  PROVE  FreshInv'
<1>1. pc[p] = "alive" /\ pc[p] \in Contending
  BY DEF CheckAlive, Contending
<1>2. Alive(seen[p])
  BY <1>1 DEF FreshInv, HeldByTheLiving, OthersWait, Alive, Holding, Binding, Probing
<1>3. GiveUp(p, "busy") /\ UNCHANGED files
  BY <1>2 DEF CheckAlive
<1> QED
  BY <1>1, <1>3, GiveUpKeepsHolders

(***************************************************************************)
(* The holder of the lock finds no socket or a stale one: any other would  *)
(* have a holder, who would hold the same lock.                            *)
(***************************************************************************)
LEMMA BindKeepsHolders ==
  ASSUME FreshInv, NEW p \in Process, Bind(p)
  PROVE  FreshInv'
<1> USE DisplayAssumption DEF FreshInv, HeldByTheLiving, Bind, SetSocket, Goto, locals
<1>1. Socket(p) \in {None, Stale} /\ None # Stale
  BY DEF LocksHeld, SocketsHeld, Lock, Socket, TypeOK, Holding, Binding, Probing,
         None, Stale
<1>2. TypeOK'
  BY <1>1 DEF TypeOK, Starting, Owner
<1>3. LocksHeld'
  BY <1>1 DEF LocksHeld, Lock, TypeOK, Holding, Binding, Probing
<1>4. SocketsHeld'
  BY <1>1 DEF SocketsHeld, LocksHeld, Lock, Socket, TypeOK, Holding, Binding, Probing
<1>5. OthersWait'
  BY <1>1 DEF OthersWait, Lock, TypeOK, Contending, Holding, Binding, Probing
<1> QED
  BY <1>2, <1>3, <1>4, <1>5

(***************************************************************************)
(* It removes the stale socket, and nobody else binds one before it does.  *)
(***************************************************************************)
LEMMA ProbeKeepsHolders ==
  ASSUME FreshInv, NEW p \in Process,
         Connect(p) \/ Lstat(p) \/ RemoveStaleSocket(p) \/ Rebind(p)
  PROVE  FreshInv'
<1> USE DisplayAssumption DEF FreshInv, HeldByTheLiving
<1>1. /\ pc[p] \in Probing => Socket(p) = Stale
      /\ pc[p] = "rebind" => Socket(p) = None
      /\ None # Stale /\ Stale \notin Process /\ display[p] \in Display
  BY DEF SocketsHeld, None, Stale, TypeOK
<1>2. \/ pc[p] = "connect" /\ Goto(p, "lstat") /\ UNCHANGED socket
      \/ pc[p] = "lstat" /\ Goto(p, "remove_socket") /\ UNCHANGED socket
      \/ pc[p] = "remove_socket" /\ Goto(p, "rebind") /\ SetSocket(p, None)
      \/ pc[p] = "rebind" /\ Goto(p, "identify") /\ SetSocket(p, p)
  BY <1>1 DEF Connect, Lstat, RemoveStaleSocket, Rebind, files, Probing
<1>3. UNCHANGED <<lock, locals>>
  BY <1>1 DEF Connect, Lstat, RemoveStaleSocket, Rebind, files, Probing
<1>4. TypeOK'
  BY <1>2, <1>3 DEF TypeOK, Goto, SetSocket, Starting, Owner, locals
<1>5. LocksHeld'
  BY <1>2, <1>3 DEF LocksHeld, Lock, TypeOK, Goto, Holding, Binding, Probing, locals
<1>6. SocketsHeld'
  <2>1. \A q \in Process \ {p} : pc[q] \in Holding => display[q] # display[p]
    BY <1>2 DEF LocksHeld, Lock, TypeOK, Holding, Binding, Probing
  <2> QED
    BY <1>1, <1>2, <1>3, <2>1
    DEF SocketsHeld, Socket, SetSocket, TypeOK, Goto, Holding, Binding, Probing, locals
<1>7. OthersWait'
  BY <1>2, <1>3
  DEF OthersWait, Lock, TypeOK, Goto, Contending, Holding, Binding, Probing, locals
<1> QED
  BY <1>4, <1>5, <1>6, <1>7

(***************************************************************************)
(* The steps from bind to listen find the server's own socket.             *)
(***************************************************************************)
LEMMA ListenKeepsHolders ==
  ASSUME FreshInv, NEW p \in Process, Identify(p) \/ Chmod(p) \/ Listen(p)
  PROVE  FreshInv'
<1> USE DisplayAssumption DEF FreshInv, HeldByTheLiving, Identify, Chmod, Listen, Goto,
          files, locals
<1>1. pc[p] \in Binding /\ Socket(p) = p /\ Socket(p) # None
  BY DEF SocketsHeld, Binding, Probing
<1>2. TypeOK'
  <2>1. CASE Identify(p)
    BY <1>1, <2>1 DEF TypeOK, Starting, Owner
  <2>2. CASE Chmod(p)
    BY <1>1, <2>2 DEF TypeOK, Starting
  <2>3. CASE Listen(p)
    BY <2>3 DEF TypeOK
  <2> QED
    BY <2>1, <2>2, <2>3
<1>3. LocksHeld'
  BY <1>1 DEF LocksHeld, Lock, TypeOK, Holding, Binding, Probing
<1>4. SocketsHeld'
  BY <1>1 DEF SocketsHeld, Socket, TypeOK, Binding, Probing
<1>5. OthersWait'
  BY <1>1 DEF OthersWait, Lock, TypeOK, Contending, Holding, Binding, Probing
<1> QED
  BY <1>2, <1>3, <1>4, <1>5

(***************************************************************************)
(* A server that found its display busy moves to the next one, or ends.    *)
(***************************************************************************)
LEMMA CheckLockKeepsHolders ==
  ASSUME FreshInv, NEW p \in Process, CheckLock(p)
  PROVE  FreshInv'
<1> USE DisplayAssumption DEF FreshInv, HeldByTheLiving, CheckLock, Done, Goto, files, locals
<1>1. pc[p] \in Contending /\ ~ownsLock[p]
  BY DEF OthersWait, Contending
<1>2. TypeOK'
  <2>1. CASE error[p] = "busy" /\ p \in Dynamic /\ display[p] < LastDisplay
    <3>1. display[p] + 1 \in Display
      BY <2>1 DEF TypeOK, Display
    <3>2. display' \in [Process -> Display] /\ attempt' \in [Process -> 0..MaxAttempts]
      BY <1>1, <2>1, <3>1 DEF TypeOK
    <3>3. ownsLock' \in [Process -> BOOLEAN]
      BY <1>1, <2>1, ZenonT(60) DEF TypeOK
    <3>4. ownSocket' \in [Process -> Owner]
      BY <1>1, <2>1 DEF TypeOK, Owner
    <3>5. pc' \in [Process -> Starting \cup CleaningUp \cup {"serving", "gone"}]
      BY <1>1, <2>1 DEF TypeOK, Starting
    <3>6. error' \in [Process -> {"none", "busy", "io"}]
      BY <1>1, <2>1 DEF TypeOK
    <3>7. UNCHANGED <<lock, socket, seen, listening>>
      BY <1>1, <2>1
    <3> QED
      BY <3>2, <3>3, <3>4, <3>5, <3>6, <3>7 DEF TypeOK
  <2>2. CASE ~(error[p] = "busy" /\ p \in Dynamic /\ display[p] < LastDisplay)
    BY <1>1, <2>2 DEF TypeOK
  <2> QED
    BY <2>1, <2>2
<1>3. LocksHeld'
  BY <1>1 DEF LocksHeld, Lock, TypeOK, Contending, Holding, Binding, Probing
<1>4. SocketsHeld'
  BY <1>1 DEF SocketsHeld, Socket, TypeOK, Contending, Binding, Probing
<1>5. OthersWait'
  BY <1>1, SMTT(40) DEF OthersWait, Lock, TypeOK, Contending, Holding, Binding, Probing
<1> QED
  BY <1>2, <1>3, <1>4, <1>5

LEMMA FreshStep ==
  ASSUME NoLockOutlivesItsServer, FreshInv, [Next]_vars
  PROVE  FreshInv'
<1>1. CASE UNCHANGED vars
  BY <1>1 DEF vars, FreshInv, TypeOK, HeldByTheLiving, LocksHeld, SocketsHeld, OthersWait,
              Lock, Socket
<1>2. CASE Next
  <2>1. PICK p \in Process : Step(p)
    BY <1>2 DEF Next, NoLockOutlivesItsServer, Stop, Crash
  <2>2. pc[p] \in Holding \cup Contending
    BY DEF FreshInv, HeldByTheLiving, OthersWait
  <2>3. ~(RemoveStaleLock(p) \/ Unidentified(p) \/ UnlinkSocket(p) \/ UnlinkLock(p))
    BY <2>2 DEF Holding, Binding, Probing, Contending, RemoveStaleLock, Unidentified,
                UnlinkSocket, UnlinkLock
  <2>4. CASE ProbeAbstract(p)
    <3>1. pc[p] \in Contending /\ "link" \in Contending \ {"read", "alive"}
      BY <2>4 DEF ProbeAbstract, Contending
    <3>2. GiveUp(p, "busy") \/ (Goto(p, "link") /\ UNCHANGED locals)
      BY <2>4 DEF ProbeAbstract
    <3>3. UNCHANGED files
      BY <2>4 DEF ProbeAbstract
    <3>4. CASE GiveUp(p, "busy")
      BY <3>1, <3>3, <3>4, GiveUpKeepsHolders
    <3>5. CASE Goto(p, "link") /\ UNCHANGED locals
      BY <3>1, <3>3, <3>5, ContendingKeepsHolders
    <3> QED
      BY <3>2, <3>4, <3>5
  <2>5. CASE CheckSocket(p)
    <3>1. pc[p] \in Contending /\ "check_lock" \in Contending \ {"read", "alive"}
      BY <2>5 DEF CheckSocket, Contending
    <3>2. Goto(p, "check_lock") /\ UNCHANGED <<files, locals>>
      BY <2>5, <3>1 DEF CheckSocket, FreshInv, HeldByTheLiving, OthersWait
    <3> QED
      BY <3>1, <3>2, ContendingKeepsHolders
  <2> QED
    BY <2>1, <2>3, <2>4, <2>5, LinkKeepsHolders, ReadKeepsHolders, CheckAliveKeepsHolders,
       BindKeepsHolders, ProbeKeepsHolders, ListenKeepsHolders, CheckLockKeepsHolders
    DEF Step
<1> QED
  BY <1>1, <1>2

(***************************************************************************)
(* Servers that start together, whatever stale sockets they find, never    *)
(* serve the same display (start and open), for any number of servers and  *)
(* displays, as long as no lock outlives its server: with a stale lock, or *)
(* a server that stops or is killed, this is false.                        *)
(***************************************************************************)
THEOREM StartTogetherOneServer ==
  ASSUME NoLockOutlivesItsServer
  PROVE  Spec => []OneServer
<1>1. Init => FreshInv
  BY FreshInit
<1>2. FreshInv /\ [Next]_vars => FreshInv'
  BY FreshStep
<1>3. FreshInv => OneServer
  BY DEF FreshInv, HeldByTheLiving, LocksHeld, Lock, Holding, Binding, Probing, OneServer
<1> QED
  BY <1>1, <1>2, <1>3, PTL DEF Spec
-----------------------------------------------------------------------------
(* Files and their makers, whatever lies about and whoever is killed.      *)

(* Where a server may have a lock file of its own: from link to the end of *)
(* its clean-up.                                                           *)
AfterLink == {"bind", "connect", "lstat", "remove_socket", "rebind", "identify",
              "unidentified", "chmod", "listen", "serving"} \cup CleaningUp

(* Where it may have a socket that it knows to be its own. *)
AfterIdentify == {"chmod", "listen", "serving", "check_socket", "unlink_socket"}

Killed(p) == p \in Crashing /\ pc[p] = "gone"

(* A lock was made for the display its maker is at, and the maker has not  *)
(* cleaned up.                                                             *)
LocksHaveMakers ==
  \A p \in Process, d \in Display : lock[d] = p =>
    display[p] = d /\ ownsLock[p] /\ (pc[p] \in AfterLink \/ Killed(p))

(* So was a socket, and the maker is about to identify it or has. *)
SocketsHaveMakers ==
  \A p \in Process, d \in Display : socket[d] = p =>
    /\ display[p] = d
    /\ \/ pc[p] = "identify"
       \/ ownSocket[p] = p /\ pc[p] \in AfterIdentify
       \/ Killed(p)

FilesHaveMakers == TypeOK /\ LocksHaveMakers /\ SocketsHaveMakers

LEMMA TypesStay ==
  ASSUME TypeOK, [Next]_vars
  PROVE  TypeOK'
<1> USE DisplayAssumption DEF TypeOK, Owner
<1>1. CASE UNCHANGED vars
  BY <1>1 DEF vars
<1>2. ASSUME NEW p \in Process, Step(p) \/ Stop(p) \/ Crash(p) PROVE TypeOK'
  <2>0. display[p] \in Display /\ attempt[p] \in 0..MaxAttempts
    OBVIOUS
  <2>a. ASSUME NEW owner \in Process \cup {None}, SetLock(p, owner)
        PROVE  lock' \in [Display -> Process \cup {None, Stale}]
    BY <2>0, <2>a DEF SetLock
  <2>b. ASSUME NEW owner \in Process \cup {None}, SetSocket(p, owner)
        PROVE  socket' \in [Display -> Process \cup {None, Stale}]
    BY <2>0, <2>b DEF SetSocket
  <2>c. ASSUME Done(p), UNCHANGED listening
        PROVE  /\ pc' \in [Process -> Starting \cup CleaningUp \cup {"serving", "gone"}]
               /\ display' \in [Process -> Display]
               /\ attempt' \in [Process -> 0..MaxAttempts]
               /\ seen' \in [Process -> Process \cup {None}]
               /\ ownsLock' \in [Process -> BOOLEAN]
               /\ ownSocket' \in [Process -> Process \cup {None, Stale}]
               /\ listening' \in [Process -> BOOLEAN]
               /\ error' \in [Process -> {"none", "busy", "io"}]
    <3>1. display[p] < LastDisplay => display[p] + 1 \in Display
      BY <2>0 DEF Display
    <3>2. display' \in [Process -> Display]
      BY <2>c, <3>1 DEF Done, locals
    <3>3. attempt' \in [Process -> 0..MaxAttempts]
      BY <2>c DEF Done, locals
    <3> QED
      BY <2>c, <3>2, <3>3, ZenonT(60) DEF Done, Goto, locals, Starting
  <2>d. ASSUME Done(p) PROVE UNCHANGED listening
    BY <2>d DEF Done, locals
  <2> USE DEF Goto, locals, files, Starting, CleaningUp
  <2>1. CASE ProbeAbstract(p)
    BY <2>1, ZenonT(60) DEF ProbeAbstract, GiveUp
  <2>2. CASE Link(p)
    BY <2>2, <2>a, ZenonT(60) DEF Link
  <2>3. CASE ReadLockPid(p)
    BY <2>3 DEF ReadLockPid, Lock
  <2>4. CASE CheckAlive(p)
    BY <2>4, ZenonT(60) DEF CheckAlive, GiveUp
  <2>5. CASE RemoveStaleLock(p)
    <3>1. attempt[p] + 1 < MaxAttempts => attempt[p] + 1 \in 0..MaxAttempts
      BY <2>0
    <3>2. attempt' \in [Process -> 0..MaxAttempts]
      BY <2>5, <3>1 DEF RemoveStaleLock, GiveUp
    <3>3. lock' \in [Display -> Process \cup {None, Stale}]
      BY <2>5, <2>a DEF RemoveStaleLock
    <3> QED
      BY <2>5, <3>2, <3>3, ZenonT(60) DEF RemoveStaleLock, GiveUp
  <2>6. CASE Bind(p)
    BY <2>6, <2>b DEF Bind
  <2>7. CASE Connect(p)
    BY <2>7, ZenonT(60) DEF Connect, GiveUp
  <2>8. CASE Lstat(p)
    BY <2>8 DEF Lstat
  <2>9. CASE RemoveStaleSocket(p)
    BY <2>9, <2>b, ZenonT(60) DEF RemoveStaleSocket, GiveUp
  <2>10. CASE Rebind(p)
    BY <2>10, <2>b, ZenonT(60) DEF Rebind, GiveUp
  <2>11. CASE Identify(p)
    BY <2>11, <2>0 DEF Identify, Socket
  <2>12. CASE Unidentified(p)
    BY <2>12, <2>b DEF Unidentified, GiveUp
  <2>13. CASE Chmod(p)
    BY <2>13, ZenonT(60) DEF Chmod, GiveUp
  <2>14. CASE Listen(p)
    BY <2>14 DEF Listen
  <2>15. CASE CheckSocket(p)
    BY <2>15 DEF CheckSocket
  <2>16. CASE UnlinkSocket(p)
    BY <2>16, <2>b DEF UnlinkSocket
  <2>17. CASE CheckLock(p)
    BY <2>17, <2>c, <2>d DEF CheckLock
  <2>18. CASE UnlinkLock(p)
    BY <2>18, <2>a, <2>c, <2>d DEF UnlinkLock
  <2>19. CASE Stop(p)
    BY <2>19 DEF Stop, GiveUp
  <2>20. CASE Crash(p)
    BY <2>20 DEF Crash
  <2> QED
    BY <1>2, <2>1, <2>2, <2>3, <2>4, <2>5, <2>6, <2>7, <2>8, <2>9, <2>10, <2>11, <2>12,
       <2>13, <2>14, <2>15, <2>16, <2>17, <2>18, <2>19, <2>20 DEF Step
<1> QED
  BY <1>1, <1>2 DEF Next

LEMMA MakersStay ==
  ASSUME FilesHaveMakers, [Next]_vars
  PROVE  FilesHaveMakers'
<1> USE DisplayAssumption
<1>1. TypeOK /\ TypeOK' /\ LocksHaveMakers /\ SocketsHaveMakers
  BY TypesStay DEF FilesHaveMakers
<1>2. CASE UNCHANGED vars
  BY <1>1, <1>2 DEF vars, FilesHaveMakers, LocksHaveMakers, SocketsHaveMakers, Killed
<1>3. ASSUME NEW p \in Process, Step(p) \/ Stop(p) \/ Crash(p)
      PROVE  LocksHaveMakers' /\ SocketsHaveMakers'
  <2> USE <1>1 DEF TypeOK, Owner, Goto, locals, files, Lock, Socket, SetLock, SetSocket, Killed,
                   AfterLink, AfterIdentify, CleaningUp, LocksHaveMakers, SocketsHaveMakers
  <2>1. CASE ProbeAbstract(p)
    BY <2>1, SMTT(40) DEF ProbeAbstract, GiveUp
  <2>2. CASE Link(p)
    BY <2>2 DEF Link
  <2>3. CASE ReadLockPid(p)
    BY <2>3 DEF ReadLockPid
  <2>4. CASE CheckAlive(p)
    BY <2>4, SMTT(40) DEF CheckAlive, GiveUp
  <2>5. CASE RemoveStaleLock(p)
    BY <2>5 DEF RemoveStaleLock, GiveUp
  <2>6. CASE Bind(p)
    BY <2>6, SMTT(40) DEF Bind
  <2>7. CASE Connect(p)
    BY <2>7, SMTT(40) DEF Connect, GiveUp
  <2>8. CASE Lstat(p)
    BY <2>8 DEF Lstat
  <2>9. CASE RemoveStaleSocket(p)
    BY <2>9 DEF RemoveStaleSocket, GiveUp
  <2>10. CASE Rebind(p)
    BY <2>10, SMTT(40) DEF Rebind, GiveUp
  <2>11. CASE Identify(p)
    BY <2>11 DEF Identify
  <2>12. CASE Unidentified(p)
    BY <2>12 DEF Unidentified, GiveUp
  <2>13. CASE Chmod(p)
    BY <2>13 DEF Chmod, GiveUp
  <2>14. CASE Listen(p)
    BY <2>14 DEF Listen
  <2>15. CASE CheckSocket(p)
    BY <2>15 DEF CheckSocket
  <2>16. CASE UnlinkSocket(p)
    BY <2>16 DEF UnlinkSocket
  <2>17. CASE CheckLock(p)
    BY <2>17 DEF CheckLock, Done
  <2>18. CASE UnlinkLock(p)
    BY <2>18 DEF UnlinkLock, Done
  <2>19. CASE Stop(p)
    BY <2>19 DEF Stop, GiveUp
  <2>20. CASE Crash(p)
    BY <2>20 DEF Crash
  <2> QED
    BY <1>3, <2>1, <2>2, <2>3, <2>4, <2>5, <2>6, <2>7, <2>8, <2>9, <2>10, <2>11, <2>12,
       <2>13, <2>14, <2>15, <2>16, <2>17, <2>18, <2>19, <2>20 DEF Step
<1> QED
  BY <1>1, <1>2, <1>3 DEF Next, FilesHaveMakers

(***************************************************************************)
(* A server that ended leaves neither lock nor socket, unless it was       *)
(* killed: ~DisplaySocket and each failure of start clean up what is still *)
(* theirs, whatever stale files there are, whoever else starts, stops or   *)
(* is killed meanwhile, and although stale files are removed by name.      *)
(***************************************************************************)
THEOREM EndedServersLeaveNothing == Spec => []NoDebris
<1>1. Init => FilesHaveMakers
  BY DisplayAssumption
  DEF Init, FilesHaveMakers, TypeOK, LocksHaveMakers, SocketsHaveMakers, Owner, Starting, Display
<1>2. FilesHaveMakers /\ [Next]_vars => FilesHaveMakers'
  BY MakersStay
<1>3. FilesHaveMakers => NoDebris
  BY DEF FilesHaveMakers, LocksHaveMakers, SocketsHaveMakers, Killed, AfterLink, AfterIdentify,
         CleaningUp, NoDebris
<1> QED
  BY <1>1, <1>2, <1>3, PTL DEF Spec
=============================================================================
