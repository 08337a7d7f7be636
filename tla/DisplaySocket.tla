--------------------------- MODULE DisplaySocket ---------------------------
(***************************************************************************)
(* How servers that start and stop on one machine share the displays.      *)
(*                                                                         *)
(* DisplaySocket::open claims a display in two files: a lock file that is  *)
(* created by link, and the socket that clients connect to.  A server that *)
(* was killed leaves both behind, so a server that finds them decides      *)
(* whether they are stale: the lock by the process number in it, the       *)
(* socket by connecting to it.  Processes interleave at system calls.      *)
(*                                                                         *)
(* A file is represented by the process that made it, which has at most    *)
(* one lock and one socket per display; None is no file and Stale one that *)
(* a process of an earlier time, or nobody, left behind.  Process numbers  *)
(* and inodes are not reused.                                              *)
(*                                                                         *)
(* A definition Name_Mistake in front of Name is Name with a mistake that  *)
(* the code could have made; no specification uses it.                     *)
(***************************************************************************)
EXTENDS Integers

CONSTANTS
  Process,        \* the servers that are started
  Dynamic,        \* those that take any display; the others ask for display 0
  LastDisplay,    \* maximum_dynamic_display
  MaxAttempts,    \* attempts to take a lock that seems stale (4)
  Abstract,       \* displays with an abstract listener of another X server
  StaleLocks,     \* displays with a stale lock at the start
  StaleSockets,   \* displays with a stale socket at the start
  Stopping,       \* servers that may be told to stop
  Crashing        \* servers that may be killed at any moment

None == "none"
Stale == "stale"
Display == 0..LastDisplay
Owner == Process \cup {None, Stale}

ASSUME DisplayAssumption ==
  /\ None \notin Process /\ Stale \notin Process
  /\ Dynamic \subseteq Process
  /\ LastDisplay \in Nat
  /\ MaxAttempts \in Nat \ {0}
  /\ Abstract \subseteq Display
  /\ StaleLocks \subseteq Display
  /\ StaleSockets \subseteq Display
  /\ Stopping \subseteq Process
  /\ Crashing \subseteq Process

VARIABLES
  lock,        \* the lock file of each display
  socket,      \* the socket file of each display
  pc,          \* the next system call of each process
  display,     \* display_
  attempt,     \* stale_attempt
  seen,        \* whose number read_lock_pid found
  ownsLock,    \* owns_lock_
  ownSocket,   \* the file socket_device_ and socket_inode_ name, if owns_socket_
  listening,   \* whether listen was called on listener_
  error        \* how start ended: "none", or the code of its error

files == <<lock, socket>>
locals == <<display, attempt, seen, ownsLock, ownSocket, listening, error>>
vars == <<lock, socket, pc, display, attempt, seen, ownsLock, ownSocket,
          listening, error>>

Starting == {"start", "link", "read", "alive", "remove_lock", "bind", "connect",
             "lstat", "remove_socket", "rebind", "identify", "unidentified", "chmod", "listen"}
CleaningUp == {"check_socket", "unlink_socket", "check_lock", "unlink_lock"}

TypeOK ==
  /\ lock \in [Display -> Owner]
  /\ socket \in [Display -> Owner]
  /\ pc \in [Process -> Starting \cup CleaningUp \cup {"serving", "gone"}]
  /\ display \in [Process -> Display]
  /\ attempt \in [Process -> 0..MaxAttempts]
  /\ seen \in [Process -> Process \cup {None}]
  /\ ownsLock \in [Process -> BOOLEAN]
  /\ ownSocket \in [Process -> Owner]
  /\ listening \in [Process -> BOOLEAN]
  /\ error \in [Process -> {"none", "busy", "io"}]

Init ==
  /\ lock = [d \in Display |-> IF d \in StaleLocks THEN Stale ELSE None]
  /\ socket = [d \in Display |-> IF d \in StaleSockets THEN Stale ELSE None]
  /\ pc = [p \in Process |-> "start"]
  /\ display = [p \in Process |-> 0]
  /\ attempt = [p \in Process |-> 0]
  /\ seen = [p \in Process |-> None]
  /\ ownsLock = [p \in Process |-> FALSE]
  /\ ownSocket = [p \in Process |-> None]
  /\ listening = [p \in Process |-> FALSE]
  /\ error = [p \in Process |-> "none"]
-----------------------------------------------------------------------------
Lock(p) == lock[display[p]]
Socket(p) == socket[display[p]]
SetLock(p, owner) == lock' = [lock EXCEPT ![display[p]] = owner]
SetSocket(p, owner) == socket' = [socket EXCEPT ![display[p]] = owner]

Goto(p, place) == pc' = [pc EXCEPT ![p] = place]

(* process_is_alive, of a process of the model. *)
Alive(p) == pc[p] # "gone"

(* start returns an error, so the DisplaySocket is destroyed. *)
GiveUp(p, code) ==
  /\ error' = [error EXCEPT ![p] = code]
  /\ listening' = [listening EXCEPT ![p] = FALSE]
  /\ Goto(p, "check_socket")
  /\ UNCHANGED <<display, attempt, seen, ownsLock, ownSocket>>

(* DisplaySocket::start: another X server may hold the abstract name. *)
ProbeAbstract(p) ==
  /\ pc[p] = "start"
  /\ IF display[p] \in Abstract
     THEN GiveUp(p, "busy")
     ELSE Goto(p, "link") /\ UNCHANGED locals
  /\ UNCHANGED files

(* acquire_lock: a private file with the process number becomes the lock. *)
Link(p) ==
  /\ pc[p] = "link"
  /\ IF Lock(p) = None
     THEN /\ SetLock(p, p)
          /\ ownsLock' = [ownsLock EXCEPT ![p] = TRUE]
          /\ Goto(p, "bind")
     ELSE /\ Goto(p, "read")
          /\ UNCHANGED <<lock, ownsLock>>
  /\ UNCHANGED <<socket, display, attempt, seen, ownSocket, listening, error>>

(* read_lock_pid: no file, or no number in it, counts as a dead process. *)
ReadLockPid(p) ==
  /\ pc[p] = "read"
  /\ IF Lock(p) \in Process
     THEN seen' = [seen EXCEPT ![p] = Lock(p)] /\ Goto(p, "alive")
     ELSE seen' = [seen EXCEPT ![p] = None] /\ Goto(p, "remove_lock")
  /\ UNCHANGED <<files, display, attempt, ownsLock, ownSocket, listening, error>>

CheckAlive_Never(p) ==
  /\ pc[p] = "alive"
  /\ Goto(p, "remove_lock") /\ UNCHANGED locals
  /\ UNCHANGED files
CheckAlive_Waits(p) ==
  /\ pc[p] = "alive"
  /\ Goto(p, IF Alive(seen[p]) THEN "link" ELSE "remove_lock") /\ UNCHANGED locals
  /\ UNCHANGED files
CheckAlive(p) ==
  /\ pc[p] = "alive"
  /\ IF Alive(seen[p])
     THEN GiveUp(p, "busy")
     ELSE Goto(p, "remove_lock") /\ UNCHANGED locals
  /\ UNCHANGED files

(* The lock is removed, whichever file it is by now, and tried again. *)
RemoveStaleLock(p) ==
  /\ pc[p] = "remove_lock"
  /\ SetLock(p, None)
  /\ IF attempt[p] + 1 < MaxAttempts
     THEN /\ attempt' = [attempt EXCEPT ![p] = @ + 1]
          /\ Goto(p, "link")
          /\ UNCHANGED <<display, seen, ownsLock, ownSocket, listening, error>>
     ELSE GiveUp(p, "busy")
  /\ UNCHANGED socket
-----------------------------------------------------------------------------
(* bind_listener.                                                          *)

Bind(p) ==
  /\ pc[p] = "bind"
  /\ IF Socket(p) = None
     THEN SetSocket(p, p) /\ Goto(p, "identify")
     ELSE Goto(p, "connect") /\ UNCHANGED socket
  /\ UNCHANGED <<lock, locals>>

(* The socket is probed: it is in use if something listens on it. *)
Connect(p) ==
  /\ pc[p] = "connect"
  /\ IF Socket(p) \in Process /\ listening[Socket(p)]
     THEN GiveUp(p, "busy")
     ELSE Goto(p, "lstat") /\ UNCHANGED locals
  /\ UNCHANGED files

Lstat(p) ==
  /\ pc[p] = "lstat"
  /\ Goto(p, IF Socket(p) = None THEN "rebind" ELSE "remove_socket")
  /\ UNCHANGED <<files, locals>>

RemoveStaleSocket(p) ==
  /\ pc[p] = "remove_socket"
  /\ IF Socket(p) = None
     THEN GiveUp(p, "io") /\ UNCHANGED socket
     ELSE SetSocket(p, None) /\ Goto(p, "rebind") /\ UNCHANGED locals
  /\ UNCHANGED lock

Rebind(p) ==
  /\ pc[p] = "rebind"
  /\ IF Socket(p) = None
     THEN SetSocket(p, p) /\ Goto(p, "identify") /\ UNCHANGED locals
     ELSE GiveUp(p, "io") /\ UNCHANGED socket
  /\ UNCHANGED lock

(* The file at the path, whichever it is by now, is taken for its own. *)
Identify(p) ==
  /\ pc[p] = "identify"
  /\ IF Socket(p) = None
     THEN Goto(p, "unidentified") /\ UNCHANGED locals
     ELSE /\ ownSocket' = [ownSocket EXCEPT ![p] = Socket(p)]
          /\ Goto(p, "chmod")
          /\ UNCHANGED <<display, attempt, seen, ownsLock, listening, error>>
  /\ UNCHANGED files

(* There was none; what may be there by now is removed. *)
Unidentified(p) ==
  /\ pc[p] = "unidentified"
  /\ SetSocket(p, None)
  /\ GiveUp(p, "io")
  /\ UNCHANGED lock

(* chmod, which needs a file at the path, then listen, which does not. *)
Chmod(p) ==
  /\ pc[p] = "chmod"
  /\ IF Socket(p) = None
     THEN GiveUp(p, "io")
     ELSE Goto(p, "listen") /\ UNCHANGED locals
  /\ UNCHANGED files

Listen(p) ==
  /\ pc[p] = "listen"
  /\ listening' = [listening EXCEPT ![p] = TRUE]
  /\ Goto(p, "serving")
  /\ UNCHANGED <<files, display, attempt, seen, ownsLock, ownSocket, error>>
-----------------------------------------------------------------------------
(* cleanup: the files are removed if they are still those of the process.  *)

CheckSocket(p) ==
  /\ pc[p] = "check_socket"
  /\ Goto(p, IF ownSocket[p] # None /\ Socket(p) = ownSocket[p]
             THEN "unlink_socket" ELSE "check_lock")
  /\ UNCHANGED <<files, locals>>

UnlinkSocket_Forgets(p) ==
  /\ pc[p] = "unlink_socket"
  /\ Goto(p, "check_lock")
  /\ UNCHANGED <<files, locals>>
UnlinkSocket(p) ==
  /\ pc[p] = "unlink_socket"
  /\ SetSocket(p, None)
  /\ Goto(p, "check_lock")
  /\ UNCHANGED <<lock, locals>>

(* After the cleanup of a display that was busy, open tries the next one. *)
Done_OnlyOnce(p) ==
  Goto(p, "gone") /\ UNCHANGED locals
Done(p) ==
  IF error[p] = "busy" /\ p \in Dynamic /\ display[p] < LastDisplay
  THEN /\ display' = [display EXCEPT ![p] = @ + 1]
       /\ attempt' = [attempt EXCEPT ![p] = 0]
       /\ ownsLock' = [ownsLock EXCEPT ![p] = FALSE]
       /\ ownSocket' = [ownSocket EXCEPT ![p] = None]
       /\ error' = [error EXCEPT ![p] = "none"]
       /\ Goto(p, "start")
       /\ UNCHANGED <<seen, listening>>
  ELSE Goto(p, "gone") /\ UNCHANGED locals

CheckLock(p) ==
  /\ pc[p] = "check_lock"
  /\ IF ownsLock[p] /\ Lock(p) = p
     THEN Goto(p, "unlink_lock") /\ UNCHANGED locals
     ELSE Done(p)
  /\ UNCHANGED files

UnlinkLock(p) ==
  /\ pc[p] = "unlink_lock"
  /\ SetLock(p, None)
  /\ Done(p)
  /\ UNCHANGED socket

(* The server was told to stop: Server::run returned. *)
Stop(p) ==
  /\ p \in Stopping
  /\ pc[p] = "serving"
  /\ GiveUp(p, "none")
  /\ UNCHANGED files

(* The process is killed: its descriptors are closed and its files stay. *)
Crash(p) ==
  /\ p \in Crashing
  /\ pc[p] # "gone"
  /\ Goto(p, "gone")
  /\ listening' = [listening EXCEPT ![p] = FALSE]
  /\ UNCHANGED <<files, display, attempt, seen, ownsLock, ownSocket, error>>
-----------------------------------------------------------------------------
Step(p) ==
  \/ ProbeAbstract(p) \/ Link(p) \/ ReadLockPid(p) \/ CheckAlive(p) \/ RemoveStaleLock(p)
  \/ Bind(p) \/ Connect(p) \/ Lstat(p) \/ RemoveStaleSocket(p) \/ Rebind(p)
  \/ Identify(p) \/ Unidentified(p) \/ Chmod(p) \/ Listen(p)
  \/ CheckSocket(p) \/ UnlinkSocket(p) \/ CheckLock(p) \/ UnlinkLock(p)

Next == \E p \in Process : Step(p) \/ Stop(p) \/ Crash(p)

Spec == Init /\ [][Next]_vars

(* The operating system runs every process. *)
FairSpec == Spec /\ \A p \in Process : WF_vars(Step(p))
-----------------------------------------------------------------------------
(* Properties.                                                             *)

(***************************************************************************)
(* No two servers serve the same display.                                  *)
(***************************************************************************)
OneServer ==
  \A p, q \in Process :
    pc[p] = "serving" /\ pc[q] = "serving" /\ display[p] = display[q] => p = q

(***************************************************************************)
(* Every server that is started comes to serve or ends, whatever the       *)
(* others do to the files meanwhile: nobody waits for a busy display, and  *)
(* locks and sockets taken for stale cannot be removed for ever.           *)
(***************************************************************************)
Settles == \A p \in Process : <>(pc[p] \in {"serving", "gone"})

(***************************************************************************)
(* With enough displays, servers that start together all get one.          *)
(***************************************************************************)
AllServe == <>(\A p \in Process : pc[p] = "serving")

(***************************************************************************)
(* A server that ended leaves no file, unless it was killed: not when it   *)
(* gave up half way, nor when others took its files for stale ones.        *)
(***************************************************************************)
NoDebris ==
  \A p \in Process \ Crashing : pc[p] = "gone" =>
    \A d \in Display : lock[d] # p /\ socket[d] # p
=============================================================================
