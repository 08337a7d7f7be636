------------------------------- MODULE Randr --------------------------------
(***************************************************************************)
(* RANDR: the size of the screen, the modes, the one CRTC with the one     *)
(* output, and the monitors.  Every request works on a copy of the state,  *)
(* which replaces the state once the events for it are queued.             *)
(*                                                                         *)
(* Of two dimensions, which are treated alike, the model has one.  A       *)
(* configuration timestamp is only ever compared for equality, and every   *)
(* request has a time of its own, so that a client's timestamp is the      *)
(* current one as long as no configuration was committed since it got it.  *)
(* Requests name the current time, and events are selected on the root.    *)
(*                                                                         *)
(* A definition Name_Mistake in front of Name is Name with a mistake that  *)
(* the code could have made; no specification uses it.                     *)
(***************************************************************************)
EXTENDS EventPlan, SequencesExt

CONSTANTS
  Requester,     \* bound: clients that change the configuration
  Follower,      \* bound: clients that select events
  Positions,     \* bound: where the pointer is moved to
  MaxHeld,       \* bound: moves held while the pointer is frozen
  Timestamped,   \* bound: clients that keep a configuration timestamp
  Extents,       \* bound: the sizes of screens and modes
  InitialWidth,  \* the width the server is started with
  MaxExtent,     \* the largest screen (4096)
  MaxModes,      \* maximum_randr_modes
  MaxModeId,     \* bound: identifiers of modes that are given out
  MonitorName,   \* bound: the names of monitors that clients set
  Automatic,     \* the name of the automatic monitor, XMIN-0
  MaxMonitors,   \* maximum_randr_monitors
  Unknown        \* what a client does not know

ASSUME RandrAssumption ==
  /\ Follower \subseteq Client /\ Requester \subseteq Client
  /\ Extents \subseteq Nat /\ Positions \subseteq Nat
  /\ MaxExtent \in Nat \ {0} /\ InitialWidth \in 1..MaxExtent /\ MaxModeId \in Nat \ {0}
  /\ MaxModes \in Nat \ {0} /\ MaxMonitors \in Nat \ {0} /\ Automatic \notin MonitorName

VARIABLES
  width,     \* width_, and the root window's
  pointer,   \* input_.pointer_x
  frozen,    \* frozen_pointer_event: whether there is one, and the moves it holds
  randr,     \* randr_, but for what no event and no check depends on
  masks,     \* randr_.subscriptions: the kinds of events a client selected
  queue,     \* event_queues_
  current,   \* whether a client's configuration timestamp is the current one
  view,      \* the configuration a client got with its timestamp
  seen       \* what a client knows from events and answers

vars == <<width, pointer, frozen, randr, masks, queue, current, view, seen>>

Kind == {"screen", "crtc", "output", "resources"}
NoMode == 0
InitialMode == 1

Monitor(primary, automatic, x, w, covers) ==
  [primary |-> primary, automatic |-> automatic, x |-> x, width |-> w, covers |-> covers]

(* The mode of the CRTC, or none: modes is a function on the modes there
   are. *)
Enabled(r) == r.current_mode \in DOMAIN r.modes
CrtcWidth(r) == IF Enabled(r) THEN r.modes[r.current_mode].width ELSE 0

Crtc(r) == [mode |-> r.current_mode, width |-> CrtcWidth(r),
            x |-> IF r.current_mode = NoMode THEN 0 ELSE r.crtc_x]
Configuration == [width |-> width, randr |-> randr]

(* A table with one more entry. *)
With(table, key, value) ==
  [k \in DOMAIN table \cup {key} |-> IF k = key THEN value ELSE table[k]]

Init ==
  /\ width = InitialWidth /\ pointer = InitialWidth \div 2
  /\ frozen = [on |-> FALSE, pending |-> <<>>]
  /\ randr = [modes |-> [k \in {InitialMode} |-> [width |-> InitialWidth, built_in |-> TRUE]],
              output_modes |-> {InitialMode}, current_mode |-> InitialMode,
              next_mode_id |-> InitialMode + 1, crtc_x |-> 0, primary_output |-> TRUE,
              monitors |-> [k \in {Automatic} |-> Monitor(TRUE, TRUE, 0, InitialWidth, TRUE)]]
  /\ masks = [c \in Client |-> {}] /\ queue = [c \in Client |-> <<>>]
  /\ current = [c \in Client |-> FALSE]
  /\ view = [c \in Client |-> Unknown]
  /\ seen = [c \in Client |-> [k \in Kind \cup {"monitors"} |-> Unknown]]
-----------------------------------------------------------------------------
(* The automatic monitor follows the CRTC. *)
update_automatic_randr_monitors(r) ==
  [r EXCEPT !.monitors = [n \in DOMAIN @ |->
     IF @[n].automatic
     THEN [@[n] EXCEPT !.x = IF Enabled(r) THEN r.crtc_x ELSE 0, !.width = CrtcWidth(r),
                       !.covers = Enabled(r)]
     ELSE @[n]]]

append_randr_events(r, w, kinds) ==
  [c \in Client |->
     LET selected == masks[c] \cap kinds
         One(k, content) == IF k \in selected THEN <<[kind |-> k, content |-> content]>> ELSE <<>>
     IN One("screen", w) \o One("crtc", Crtc(r)) \o One("output", r.current_mode)
          \o One("resources", Unknown)]

Clamped(x, w) == IF x < w THEN x ELSE w - 1

(* The events of the connection that asks were drained before. *)
Queues(c) == [queue EXCEPT ![c] = <<>>]

(* What a client knows after an event: the names and places of monitors and
   modes must be asked for again. *)
Learn(known, e) ==
  [known EXCEPT ![e.kind] = e.content,
                !["monitors"] = IF e.kind \in {"crtc", "resources"} THEN Unknown ELSE @]
Learned(known, events) ==
  LET after[n \in 0..Len(events)] ==
        IF n = 0 THEN known ELSE Learn(after[n - 1], events[n])
  IN  after[Len(events)]

(* Queues the events, if they all fit, and then sets the state; what was
   queued for the requesting client is read by it. *)
Room(c, plan) == Fits(Queues(c), TotalEvents(Queues(c)), plan)

Commit_Silently(c, r, w, kinds) ==
  LET plan == append_randr_events(r, w, kinds)
      fits == Room(c, plan)
  IN /\ queue' = [d \in Client |-> Queues(c)[d] \o (IF fits THEN plan[d] ELSE <<>>)]
     /\ seen' = [seen EXCEPT ![c] = Learned(@, queue[c])]
     /\ width' = w /\ randr' = r
     /\ current' = [d \in Client |-> current[d] /\ kinds = {}]
     /\ view' = [d \in Client |-> IF current'[d] THEN view[d] ELSE Unknown]
     /\ UNCHANGED <<masks, frozen>>
Commit_Unstamped(c, r, w, kinds) ==
  LET plan == append_randr_events(r, w, kinds)
      fits == Room(c, plan)
  IN /\ queue' = [d \in Client |-> Queues(c)[d] \o (IF fits THEN plan[d] ELSE <<>>)]
     /\ seen' = [seen EXCEPT ![c] = Learned(@, queue[c])]
     /\ width' = (IF fits THEN w ELSE width) /\ randr' = (IF fits THEN r ELSE randr)
     /\ current' = [d \in Client |-> current[d] /\ ~(fits /\ kinds # {"resources"})]
     /\ view' = [d \in Client |-> IF current'[d] THEN view[d] ELSE Unknown]
     /\ UNCHANGED <<masks, frozen>>
Commit(c, r, w, kinds) ==
  LET plan == append_randr_events(r, w, kinds)
      fits == Room(c, plan)
  IN /\ queue' = [d \in Client |-> Queues(c)[d] \o (IF fits THEN plan[d] ELSE <<>>)]
     /\ seen' = [seen EXCEPT ![c] = Learned(@, queue[c])]
     /\ width' = (IF fits THEN w ELSE width) /\ randr' = (IF fits THEN r ELSE randr)
     /\ current' = [d \in Client |-> current[d] /\ ~(fits /\ kinds # {})]
     /\ view' = [d \in Client |-> IF current'[d] THEN view[d] ELSE Unknown]
     /\ UNCHANGED <<masks, frozen>>

commit_randr_state_Manual(c, r, kinds) == Commit(c, r, width, kinds) /\ UNCHANGED pointer
commit_randr_state(c, r, kinds) ==
  Commit(c, update_automatic_randr_monitors(r), width, kinds) /\ UNCHANGED pointer

(* The pointer is moved onto the screen of the new size. *)
resize_randr_screen_Unclamped(c, r, w) ==
  Commit(c, update_automatic_randr_monitors(r), w, Kind) /\ UNCHANGED pointer
resize_randr_screen(c, r, w) ==
  /\ Commit(c, update_automatic_randr_monitors(r), w, Kind)
  /\ pointer' = IF Room(c, append_randr_events(r, w, Kind)) THEN Clamped(pointer, w) ELSE pointer

(* A request that is refused, or only answered. *)
Answer(c) ==
  /\ queue' = Queues(c) /\ seen' = [seen EXCEPT ![c] = Learned(@, queue[c])]
  /\ UNCHANGED <<width, pointer, frozen, randr, masks, current, view>>
-----------------------------------------------------------------------------
(* The size of the screen, and the CRTC.                                   *)

FitsScreen(r, w) == r.crtc_x + CrtcWidth(r) <= w

SetScreenSize(c, w) ==
  /\ IF w \in 1..MaxExtent /\ (Enabled(randr) => FitsScreen(randr, w))
     THEN resize_randr_screen(c, randr, w) ELSE Answer(c)

(* Only the size there is can be asked for, and only with the current
   configuration timestamp. *)
SetScreenConfig(c) ==
  /\ IF current[c] THEN commit_randr_state(c, randr, {"screen", "crtc", "output"}) ELSE Answer(c)

Acceptable_AnyMode(mode, x) ==
  /\ mode \in DOMAIN randr.modes
  /\ x + randr.modes[mode].width <= width
Acceptable(mode, x) ==
  /\ mode \in DOMAIN randr.modes /\ mode \in randr.output_modes
  /\ x + randr.modes[mode].width <= width

(* Whether the named configuration timestamp is none or the current one. *)
Timely(c, named) == named => current[c]

SetCrtcConfig(c, mode, x, named) ==
  /\ IF Timely(c, named) /\ (mode = NoMode \/ Acceptable(mode, x))
     THEN commit_randr_state(c, [randr EXCEPT !.current_mode = mode,
                                              !.crtc_x = IF mode = NoMode THEN 0 ELSE x],
                             {"crtc", "output"})
     ELSE Answer(c)

(* Transforms and panning, of which the model keeps nothing, are committed as
   changes of the CRTC. *)
SetCrtcTransform(c) == commit_randr_state(c, randr, {"crtc"})
SetPanning(c) == commit_randr_state(c, randr, {"crtc"})
-----------------------------------------------------------------------------
(* Modes.                                                                  *)

CreateMode(c, w) ==
  /\ randr.next_mode_id <= MaxModeId
  /\ IF w # 0 /\ Cardinality(DOMAIN randr.modes) < MaxModes
     THEN commit_randr_state(c,
            [randr EXCEPT !.modes = With(@, randr.next_mode_id, [width |-> w, built_in |-> FALSE]),
                          !.next_mode_id = @ + 1], {"resources"})
     ELSE Answer(c)

Destroyable(id) ==
  ~randr.modes[id].built_in /\ randr.current_mode # id /\ id \notin randr.output_modes

DestroyMode(c, id) ==
  /\ IF id \in DOMAIN randr.modes /\ Destroyable(id)
     THEN commit_randr_state(c, [randr EXCEPT !.modes = Restrict(@, DOMAIN @ \ {id})], {"resources"})
     ELSE Answer(c)

AddOutputMode(c, id) ==
  /\ IF id \in DOMAIN randr.modes
     THEN commit_randr_state(c, [randr EXCEPT !.output_modes = @ \cup {id}], {"output", "resources"})
     ELSE Answer(c)

DeleteOutputMode(c, id) ==
  /\ IF /\ id \in DOMAIN randr.modes /\ randr.current_mode # id
        /\ ~randr.modes[id].built_in /\ id \in randr.output_modes
     THEN commit_randr_state(c, [randr EXCEPT !.output_modes = @ \ {id}], {"output", "resources"})
     ELSE Answer(c)
-----------------------------------------------------------------------------
(* Monitors.                                                               *)

SetOutputPrimary(c, output) ==
  /\ commit_randr_state(c,
       [randr EXCEPT !.primary_output = output,
                     !.monitors = [n \in DOMAIN @ |-> [@[n] EXCEPT !.primary = output /\ randr.monitors[n].covers]]],
       {"resources"})

(* A monitor that covers the output takes the place of the automatic one.
   Nothing depends on the place and size it is given. *)
SetMonitor(c, name, primary, covers) ==
  LET others == {n \in DOMAIN randr.monitors :
                   ~(covers /\ randr.monitors[n].automatic /\ randr.monitors[n].covers)}
      kept == [n \in others |->
                 [randr.monitors[n] EXCEPT !.primary = @ /\ ~primary]]
  IN /\ IF name \notin DOMAIN randr.monitors /\ Cardinality(DOMAIN randr.monitors) < MaxMonitors
        THEN commit_randr_state(c,
               [randr EXCEPT !.monitors = With(kept, name, Monitor(primary, FALSE, 0, 0, covers)),
                             !.primary_output = @ \/ (primary /\ covers)], {"resources"})
        ELSE Answer(c)

DeleteMonitor(c, name) ==
  LET rest == Restrict(randr.monitors, DOMAIN randr.monitors \ {name})
      covered == \E n \in DOMAIN rest : rest[n].covers
  IN /\ IF name \in DOMAIN randr.monitors /\ ~randr.monitors[name].automatic
        THEN commit_randr_state(c,
               [randr EXCEPT !.monitors =
                  IF covered \/ randr.current_mode = NoMode \/ Automatic \in DOMAIN rest THEN rest
                  ELSE With(rest, Automatic, Monitor(TRUE, TRUE, 0, 0, TRUE))], {"resources"})
        ELSE Answer(c)
-----------------------------------------------------------------------------
(* Clients.                                                                *)

(* Who selects changes of the screen is told its size at once. *)
select_randr_input(c, kinds) ==
  LET event == IF "screen" \in kinds THEN <<[kind |-> "screen", content |-> width]>> ELSE <<>>
      plan == [d \in Client |-> IF d = c THEN event ELSE <<>>]
      fits == Fits(Queues(c), TotalEvents(Queues(c)), plan)
  IN /\ queue' = [queue EXCEPT ![c] = IF fits THEN event ELSE <<>>]
     /\ masks' = [masks EXCEPT ![c] = IF fits THEN kinds ELSE @]
     /\ seen' = [seen EXCEPT ![c] = [k \in Kind \cup {"monitors"} |->
          IF k = "monitors" \/ k \notin masks'[c] \cap masks[c] THEN Unknown
          ELSE Learned(@, queue[c])[k]]]
     /\ UNCHANGED <<width, pointer, frozen, randr, current, view>>

(* GetScreenResources, GetCrtcInfo, GetOutputInfo, GetMonitors and the other
   questions: what a client learns, and is told changes of. *)
Ask(c) ==
  /\ queue' = Queues(c)
  /\ current' = [current EXCEPT ![c] = c \in Timestamped]
  /\ view' = [view EXCEPT ![c] = IF c \in Timestamped THEN Configuration ELSE Unknown]
  /\ seen' = [seen EXCEPT ![c] = [k \in Kind \cup {"monitors"} |->
       CASE k = "screen" /\ k \in masks[c] -> width
         [] k = "crtc" /\ k \in masks[c] -> Crtc(randr)
         [] k = "output" /\ k \in masks[c] -> randr.current_mode
         [] k = "resources" /\ k \in masks[c] -> [modes |-> randr.modes, listed |-> randr.output_modes,
                                                   primary |-> randr.primary_output]
         [] k = "monitors" /\ {"crtc", "resources"} \subseteq masks[c] -> randr.monitors
         [] OTHER -> Unknown]]
  /\ UNCHANGED <<width, pointer, frozen, randr, masks>>

(* A visit that finds only events to send. *)
Visit(c) == queue[c] # <<>> /\ Answer(c)

(* The pointer moves within the screen, or will when it is thawed. *)
MovePointer(x) ==
  /\ IF frozen.on
     THEN /\ Len(frozen.pending) < MaxHeld
          /\ frozen' = [frozen EXCEPT !.pending = Append(@, Clamped(x, width))]
          /\ UNCHANGED pointer
     ELSE pointer' = Clamped(x, width) /\ UNCHANGED frozen
  /\ UNCHANGED <<width, randr, masks, queue, current, view, seen>>

(* A press that activates a synchronous grab, and AllowEvents, which makes
   the moves that were held, where they were to be made. *)
Freeze ==
  /\ MaxHeld > 0 /\ ~frozen.on /\ frozen' = [on |-> TRUE, pending |-> <<>>]
  /\ UNCHANGED <<width, pointer, randr, masks, queue, current, view, seen>>
AllowEvents ==
  /\ frozen.on /\ frozen' = [on |-> FALSE, pending |-> <<>>]
  /\ pointer' = IF frozen.pending = <<>> THEN pointer ELSE Last(frozen.pending)
  /\ UNCHANGED <<width, randr, masks, queue, current, view, seen>>
-----------------------------------------------------------------------------
Next ==
  \/ \E c \in Requester :
       \/ \E w \in Extents : SetScreenSize(c, w) \/ CreateMode(c, w)
       \/ SetScreenConfig(c) \/ SetCrtcTransform(c) \/ SetPanning(c)
       \/ \E mode \in 0..MaxModeId, x \in Extents, named \in BOOLEAN : SetCrtcConfig(c, mode, x, named)
       \/ \E id \in 1..MaxModeId : DestroyMode(c, id) \/ AddOutputMode(c, id) \/ DeleteOutputMode(c, id)
       \/ \E output \in BOOLEAN : SetOutputPrimary(c, output)
       \/ \E name \in MonitorName, primary, covers \in BOOLEAN : SetMonitor(c, name, primary, covers)
       \/ \E name \in MonitorName : DeleteMonitor(c, name)
  \/ \E c \in Follower \cup Timestamped : Ask(c)
  \/ \E c \in Follower, kinds \in {{}, {"screen"}, Kind} : select_randr_input(c, kinds)
  \/ \E c \in Client : Visit(c)
  \/ (\E x \in Positions : MovePointer(x)) \/ Freeze \/ AllowEvents

Spec == Init /\ [][Next]_vars
-----------------------------------------------------------------------------
Mode == [width : Nat, built_in : BOOLEAN]
MonitorRecord ==
  [primary : BOOLEAN, automatic : BOOLEAN, x : Nat, width : Nat, covers : BOOLEAN]
RandrState(ids, names) ==
  [modes : [ids -> Mode], output_modes : SUBSET (1..MaxModeId), current_mode : 0..MaxModeId,
   next_mode_id : 1..(MaxModeId + 1), crtc_x : Nat, primary_output : BOOLEAN,
   monitors : [names -> MonitorRecord]]

TypeOK ==
  /\ width \in 1..MaxExtent /\ pointer \in Nat
  /\ frozen \in [on : BOOLEAN, pending : Seq(Nat)]
  /\ LET ids == DOMAIN randr.modes
         names == DOMAIN randr.monitors
     IN /\ randr \in RandrState(ids, names)
        /\ ids \subseteq 1..MaxModeId /\ Cardinality(ids) <= MaxModes
        /\ names \subseteq MonitorName \cup {Automatic}
        /\ IsFiniteSet(names) /\ Cardinality(names) <= MaxMonitors
  /\ masks \in [Client -> SUBSET Kind] /\ current \in [Client -> BOOLEAN]
  /\ DOMAIN view = Client

(* The CRTC shows a mode of its output, within the screen, whatever modes
   come and go and however the screen is resized. *)
CrtcFits ==
  /\ randr.output_modes \subseteq DOMAIN randr.modes
  /\ randr.current_mode # NoMode =>
       /\ randr.current_mode \in randr.output_modes
       /\ randr.crtc_x + randr.modes[randr.current_mode].width <= width

(* The pointer stays on a screen that shrinks; only a move that was held
   while the pointer was frozen, on a larger screen, takes it off. *)
PointerStays ==
  [][pointer < width /\ ~(pointer' < width') =>
       frozen.on /\ \E i \in DOMAIN frozen.pending : frozen.pending[i] >= width]_vars

(* An automatic monitor has the place and size of the CRTC. *)
MonitorFollows ==
  \A n \in DOMAIN randr.monitors : randr.monitors[n].automatic =>
    /\ randr.monitors[n].covers = (randr.current_mode # NoMode)
    /\ randr.monitors[n].width = CrtcWidth(randr) /\ randr.monitors[n].x = Crtc(randr).x

(* A client that selected a kind of events knows, once it has read what is
   queued for it, what these events tell of; and what it has asked for and
   was not told to be changed is as it was. *)
FollowersKnow ==
  \A c \in Client :
    LET known == Learned(seen[c], queue[c])
        Is(k, content) == k \in masks[c] => known[k] \in {Unknown, content}
    IN /\ "screen" \in masks[c] => known["screen"] = width
       /\ Is("crtc", Crtc(randr)) /\ Is("output", randr.current_mode)
       /\ Is("resources", [modes |-> randr.modes, listed |-> randr.output_modes,
                           primary |-> randr.primary_output])
       /\ known["monitors"] \in {Unknown, randr.monitors}

(* A client whose configuration timestamp would be accepted has seen the
   configuration that it is about to change. *)
TimestampsTell == \A c \in Client : Timely(c, TRUE) => view[c] = Configuration
=============================================================================
