---------------------------- MODULE Randr_proofs ----------------------------
(***************************************************************************)
(* Proof that the CRTC fits the screen, that the automatic monitor follows *)
(* it, that a timestamp that is accepted tells of the configuration, that  *)
(* the pointer stays on the screen, and that events tell clients what      *)
(* changes, for every number of modes, monitors and clients.               *)
(*                                                                         *)
(* A request asks for a state r of RANDR and a width w of the screen.      *)
(* What is asked for is sound if the state there is is sound, and a commit *)
(* takes it, with the automatic monitor adapted, or leaves all as it was.  *)
(***************************************************************************)
EXTENDS Randr, FiniteSetTheorems, SequenceTheorems, WellFoundedInduction, TLAPS

(* r is a state of RANDR, *)
Typed(r) ==
  /\ r \in RandrState(DOMAIN r.modes, DOMAIN r.monitors)
  /\ DOMAIN r.modes \subseteq 1..MaxModeId /\ Cardinality(DOMAIN r.modes) <= MaxModes
  /\ DOMAIN r.monitors \subseteq MonitorName \cup {Automatic}
  /\ IsFiniteSet(DOMAIN r.monitors) /\ Cardinality(DOMAIN r.monitors) <= MaxMonitors

(* in which the CRTC fits a screen of width w. *)
FitsWithin(r, w) ==
  /\ r.output_modes \subseteq DOMAIN r.modes
  /\ r.current_mode # NoMode =>
       /\ r.current_mode \in r.output_modes
       /\ r.crtc_x + r.modes[r.current_mode].width <= w

(* The next mode has a new identifier.                                     *)
Fresh(r) == \A id \in DOMAIN r.modes : id < r.next_mode_id

Sound(r, w) == Typed(r) /\ Fresh(r) /\ w \in 1..MaxExtent /\ FitsWithin(r, w)

Follows(r) ==
  \A n \in DOMAIN r.monitors : r.monitors[n].automatic =>
    /\ r.monitors[n].covers = (r.current_mode # NoMode)
    /\ r.monitors[n].width = CrtcWidth(r) /\ r.monitors[n].x = Crtc(r).x

Resources(r) == [modes |-> r.modes, listed |-> r.output_modes, primary |-> r.primary_output]

(* The events of some kinds announce what changes from r to newr and from
   the width w to neww, and what may change the monitors. *)
Announced(kinds, r, w, newr, neww) ==
  /\ "screen" \in kinds \/ neww = w
  /\ "crtc" \in kinds \/ Crtc(newr) = Crtc(r)
  /\ "output" \in kinds \/ newr.current_mode = r.current_mode
  /\ "resources" \in kinds \/ Resources(newr) = Resources(r)
  /\ "crtc" \in kinds \/ "resources" \in kinds

(* What SetCrtcConfig, CreateMode and the requests on monitors change. *)
WithCrtc(r, mode, x) ==
  [r EXCEPT !.current_mode = mode, !.crtc_x = IF mode = NoMode THEN 0 ELSE x]
WithMode(r, size) ==
  [r EXCEPT !.modes = With(@, r.next_mode_id, [width |-> size, built_in |-> FALSE]),
            !.next_mode_id = @ + 1]
WithMonitors(r, primary, M) == [r EXCEPT !.primary_output = primary, !.monitors = M]

(* A request that keeps the size of the screen is answered, or commits a
   sound state and announces it. *)
Requested(c) ==
  \/ Answer(c)
  \/ \E r, kinds : /\ Sound(r, width) /\ Announced(kinds, randr, width, r, width)
                   /\ commit_randr_state(c, r, kinds)

IInv == TypeOK /\ Fresh(randr) /\ CrtcFits /\ MonitorFollows /\ TimestampsTell
-----------------------------------------------------------------------------
(* What requests ask for.                                                  *)

(* The modes are finitely many. *)
LEMMA ModesFinite ==
  ASSUME NEW r, Typed(r)
  PROVE  IsFiniteSet(DOMAIN r.modes)
<1>1. IsFiniteSet(1..MaxModeId)
  BY RandrAssumption, FS_Interval
<1> QED BY <1>1, FS_Subset DEF Typed

(* A table with one more entry. *)
LEMMA WithOneMore ==
  ASSUME NEW table, NEW key, NEW value
  PROVE  /\ DOMAIN With(table, key, value) = DOMAIN table \cup {key}
         /\ With(table, key, value)[key] = value
         /\ \A k \in DOMAIN table : k # key => With(table, key, value)[k] = table[k]
BY DEF With

(* Such a table is of the type of the old one. *)
LEMMA WithTyped ==
  ASSUME NEW T, NEW table, table \in [DOMAIN table -> T], NEW key, NEW value \in T
  PROVE  With(table, key, value) \in [DOMAIN With(table, key, value) -> T]
BY DEF With

(* One more entry is one more at most. *)
LEMMA OneMore ==
  ASSUME NEW S, IsFiniteSet(S), NEW x, NEW n \in Nat, Cardinality(S) < n
  PROVE  IsFiniteSet(S \cup {x}) /\ Cardinality(S \cup {x}) <= n
<1>1. Cardinality(S) \in Nat
  BY FS_CardinalityType
<1>2. /\ IsFiniteSet(S \cup {x})
      /\ Cardinality(S \cup {x}) = IF x \in S THEN Cardinality(S) ELSE Cardinality(S) + 1
  BY FS_AddElement
<1> QED BY <1>1, <1>2

(* update_automatic_randr_monitors adapts the monitors and nothing else. *)
LEMMA UpdatedParts ==
  ASSUME NEW r, Typed(r)
  PROVE  LET u == update_automatic_randr_monitors(r)
         IN /\ u.modes = r.modes /\ u.output_modes = r.output_modes
            /\ u.current_mode = r.current_mode /\ u.crtc_x = r.crtc_x
            /\ u.next_mode_id = r.next_mode_id /\ DOMAIN u.monitors = DOMAIN r.monitors
            /\ Typed(u)
            /\ \A n \in DOMAIN r.monitors :
                 /\ u.monitors[n].automatic = r.monitors[n].automatic
                 /\ r.monitors[n].automatic =>
                      /\ u.monitors[n].x = IF Enabled(r) THEN r.crtc_x ELSE 0
                      /\ u.monitors[n].width = CrtcWidth(r)
                      /\ u.monitors[n].covers = Enabled(r)
<1> DEFINE u == update_automatic_randr_monitors(r)
           M == [n \in DOMAIN r.monitors |->
                  IF r.monitors[n].automatic
                  THEN [r.monitors[n] EXCEPT !.x = IF Enabled(r) THEN r.crtc_x ELSE 0,
                                             !.width = CrtcWidth(r), !.covers = Enabled(r)]
                  ELSE r.monitors[n]]
<1>1. /\ DOMAIN r = {"modes", "output_modes", "current_mode", "next_mode_id", "crtc_x",
                     "primary_output", "monitors"}
      /\ r.crtc_x \in Nat /\ r.monitors \in [DOMAIN r.monitors -> MonitorRecord]
      /\ r.modes \in [DOMAIN r.modes -> Mode]
  BY DEF Typed, RandrState
<1>2. u = [r EXCEPT !.monitors = M]
  BY DEF update_automatic_randr_monitors
<1>3. CrtcWidth(r) \in Nat /\ Enabled(r) \in BOOLEAN
  BY <1>1 DEF CrtcWidth, Enabled, Mode
<1>4. ASSUME NEW n \in DOMAIN r.monitors
      PROVE  /\ M[n] \in MonitorRecord /\ M[n].automatic = r.monitors[n].automatic
             /\ r.monitors[n].automatic =>
                  /\ M[n].x = IF Enabled(r) THEN r.crtc_x ELSE 0
                  /\ M[n].width = CrtcWidth(r) /\ M[n].covers = Enabled(r)
  <2>1. r.monitors[n] \in MonitorRecord
    BY <1>1
  <2>2. CASE r.monitors[n].automatic
    <3>1. M[n] = [r.monitors[n] EXCEPT !.x = IF Enabled(r) THEN r.crtc_x ELSE 0,
                                       !.width = CrtcWidth(r), !.covers = Enabled(r)]
      BY <2>2
    <3> QED BY <1>1, <1>3, <2>1, <3>1 DEF MonitorRecord
  <2>3. CASE ~r.monitors[n].automatic
    BY <2>1, <2>3, ZenonT(60)
  <2> QED BY <2>2, <2>3
<1>5. DOMAIN M = DOMAIN r.monitors /\ M \in [DOMAIN r.monitors -> MonitorRecord]
  BY <1>4
<1> HIDE DEF M
<1>6. /\ u.modes = r.modes /\ u.output_modes = r.output_modes
      /\ u.current_mode = r.current_mode /\ u.crtc_x = r.crtc_x /\ u.monitors = M
      /\ u.next_mode_id = r.next_mode_id
  BY <1>1, <1>2
<1>7. Typed(u)
  BY <1>2, <1>5, <1>6 DEF Typed, RandrState
<1> QED BY <1>4, <1>5, <1>6, <1>7

(* The state with the automatic monitor adapted is sound, and it follows. *)
LEMMA UpdatedIsSound ==
  ASSUME NEW r, NEW w, Sound(r, w)
  PROVE  Sound(update_automatic_randr_monitors(r), w) /\ Follows(update_automatic_randr_monitors(r))
<1> PICK u : u = update_automatic_randr_monitors(r)
  OBVIOUS
<1>1. /\ u.modes = r.modes /\ u.output_modes = r.output_modes
      /\ u.current_mode = r.current_mode /\ u.crtc_x = r.crtc_x
      /\ u.next_mode_id = r.next_mode_id /\ DOMAIN u.monitors = DOMAIN r.monitors /\ Typed(u)
      /\ \A n \in DOMAIN r.monitors :
           /\ u.monitors[n].automatic = r.monitors[n].automatic
           /\ r.monitors[n].automatic =>
                /\ u.monitors[n].x = IF Enabled(r) THEN r.crtc_x ELSE 0
                /\ u.monitors[n].width = CrtcWidth(r)
                /\ u.monitors[n].covers = Enabled(r)
  BY UpdatedParts DEF Sound
<1>2. Sound(u, w)
  BY <1>1 DEF Sound, FitsWithin, Fresh
<1>3. Enabled(r) <=> r.current_mode # NoMode
  BY DEF Sound, FitsWithin, Typed, Enabled, NoMode
<1>4. Enabled(r) \in BOOLEAN /\ CrtcWidth(u) = CrtcWidth(r)
      /\ Crtc(u).x = IF Enabled(r) THEN r.crtc_x ELSE 0
  BY <1>1, <1>3 DEF CrtcWidth, Enabled, Crtc
<1>5. Follows(u)
  BY <1>1, <1>3, <1>4 DEF Follows
<1> QED BY <1>2, <1>5

(* The fields of a state of RANDR. *)
LEMMA Fields ==
  ASSUME NEW r, Typed(r)
  PROVE  /\ DOMAIN r = {"modes", "output_modes", "current_mode", "next_mode_id", "crtc_x",
                        "primary_output", "monitors"}
         /\ r.modes \in [DOMAIN r.modes -> Mode] /\ r.output_modes \subseteq 1..MaxModeId
         /\ r.current_mode \in 0..MaxModeId /\ r.next_mode_id \in 1..(MaxModeId + 1)
         /\ r.crtc_x \in Nat /\ r.primary_output \in BOOLEAN
         /\ r.monitors \in [DOMAIN r.monitors -> MonitorRecord]
BY DEF Typed, RandrState

(* SetCrtcConfig. *)
LEMMA CrtcSound ==
  ASSUME NEW r, NEW w, Sound(r, w), NEW mode \in 0..MaxModeId, NEW x \in Nat,
         \/ mode = NoMode
         \/ mode \in DOMAIN r.modes /\ mode \in r.output_modes /\ x + r.modes[mode].width <= w
  PROVE  /\ Sound(WithCrtc(r, mode, x), w)
         /\ Announced({"crtc", "output"}, r, w, WithCrtc(r, mode, x), w)
<1> PICK s : s = WithCrtc(r, mode, x)
  OBVIOUS
<1>0. s = [r EXCEPT !.current_mode = mode, !.crtc_x = IF mode = NoMode THEN 0 ELSE x]
  BY DEF WithCrtc
<1>1. /\ s.modes = r.modes /\ s.output_modes = r.output_modes /\ s.monitors = r.monitors
      /\ s.current_mode = mode /\ (mode # NoMode => s.crtc_x = x) /\ s.next_mode_id = r.next_mode_id
      /\ s.primary_output = r.primary_output
  BY <1>0, Fields DEF Sound
<1>2. Typed(s)
  BY <1>0, <1>1, Fields, ZenonT(60) DEF Sound, Typed, RandrState
<1>3. Sound(s, w)
  BY <1>1, <1>2 DEF Sound, FitsWithin, Fresh
<1>4. Announced({"crtc", "output"}, r, w, s, w)
  BY <1>1 DEF Announced, Resources
<1> QED BY <1>3, <1>4

(* CreateMode. *)
LEMMA CreatedSound ==
  ASSUME NEW r, NEW w, Sound(r, w), NEW size \in Nat, r.next_mode_id <= MaxModeId,
         Cardinality(DOMAIN r.modes) < MaxModes
  PROVE  Sound(WithMode(r, size), w) /\ Announced({"resources"}, r, w, WithMode(r, size), w)
<1> PICK s : s = WithMode(r, size)
  OBVIOUS
<1> PICK id, mode, M : /\ id = r.next_mode_id /\ mode = [width |-> size, built_in |-> FALSE]
                       /\ M = With(r.modes, id, mode)
  OBVIOUS
<1>0. s = [r EXCEPT !.modes = M, !.next_mode_id = id + 1]
  BY DEF WithMode
<1>1. id \in 1..MaxModeId /\ id + 1 \in 1..(MaxModeId + 1) /\ mode \in Mode
  BY Fields, RandrAssumption DEF Sound, Mode
<1>2. /\ DOMAIN M = DOMAIN r.modes \cup {id} /\ M[id] = mode
      /\ \A k \in DOMAIN r.modes : k # id => M[k] = r.modes[k]
      /\ M \in [DOMAIN M -> Mode]
  <2>1. r.modes \in [DOMAIN r.modes -> Mode]
    BY Fields DEF Sound
  <2>2. M \in [DOMAIN M -> Mode]
    BY <1>1, <2>1, WithTyped
  <2>3. /\ DOMAIN M = DOMAIN r.modes \cup {id} /\ M[id] = mode
        /\ \A k \in DOMAIN r.modes : k # id => M[k] = r.modes[k]
    BY DEF With
  <2> QED BY <2>2, <2>3
<1>3. Cardinality(DOMAIN M) <= MaxModes
  BY <1>2, ModesFinite, OneMore, RandrAssumption DEF Sound
<1>4. /\ s.modes = M /\ s.output_modes = r.output_modes /\ s.monitors = r.monitors
      /\ s.current_mode = r.current_mode /\ s.crtc_x = r.crtc_x /\ s.next_mode_id = id + 1
  BY <1>0, Fields DEF Sound
<1>5. Typed(s)
  <2>1. Typed(r) /\ r.current_mode \in 0..MaxModeId /\ r.crtc_x \in Nat
    BY Fields DEF Sound
  <2> QED BY <1>0, <1>1, <1>2, <1>3, <1>4, <2>1, Fields, ZenonT(60) DEF Typed, RandrState
<1>6. \A k \in DOMAIN r.modes : k # id
  BY <1>1 DEF Sound, Fresh, Typed
<1>7. Fresh(s)
  BY <1>1, <1>2, <1>4 DEF Sound, Fresh, Typed
<1>8. FitsWithin(s, w)
  BY <1>2, <1>4, <1>6, ZenonT(60) DEF Sound, FitsWithin
<1>9. Sound(s, w)
  BY <1>5, <1>7, <1>8 DEF Sound
<1>10. Crtc(s) = Crtc(r)
  <2>1. r.current_mode \in DOMAIN r.modes => r.current_mode # id
    BY <1>6
  <2>2. r.current_mode # NoMode => r.current_mode \in DOMAIN r.modes
    BY DEF Sound, FitsWithin
  <2>3. id # NoMode
    BY <1>1 DEF NoMode
  <2>4. Enabled(s) <=> Enabled(r)
    BY <1>2, <1>4, <2>2, <2>3 DEF Enabled
  <2>5. Enabled(r) => M[r.current_mode] = r.modes[r.current_mode]
    BY <1>2, <2>1 DEF Enabled
  <2>6. CrtcWidth(s) = CrtcWidth(r)
    BY <1>4, <2>4, <2>5 DEF CrtcWidth
  <2> QED BY <1>4, <2>6 DEF Crtc
<1>11. Announced({"resources"}, r, w, s, w)
  BY <1>4, <1>10 DEF Announced
<1> QED BY <1>9, <1>11

(* DestroyMode. *)
LEMMA DestroyedSound ==
  ASSUME NEW r, NEW w, Sound(r, w), NEW id \in DOMAIN r.modes, r.current_mode # id,
         id \notin r.output_modes
  PROVE  LET s == [r EXCEPT !.modes = Restrict(@, DOMAIN @ \ {id})]
         IN  Sound(s, w) /\ Announced({"resources"}, r, w, s, w)
<1> DEFINE M == [k \in DOMAIN r.modes \ {id} |-> r.modes[k]]
           s == [r EXCEPT !.modes = M]
<1>1. M = Restrict(r.modes, DOMAIN r.modes \ {id})
  BY DEF Restrict
<1>2. /\ DOMAIN M = DOMAIN r.modes \ {id} /\ M \in [DOMAIN M -> Mode]
      /\ \A k \in DOMAIN M : M[k] = r.modes[k]
  BY Fields DEF Sound
<1> HIDE DEF M
<1>3. Cardinality(DOMAIN M) <= MaxModes
  <2>1. IsFiniteSet(DOMAIN r.modes) /\ Cardinality(DOMAIN r.modes) <= MaxModes
    BY ModesFinite DEF Sound, Typed
  <2>2. IsFiniteSet(DOMAIN M) /\ Cardinality(DOMAIN M) <= Cardinality(DOMAIN r.modes)
    BY <1>2, <2>1, FS_Subset
  <2> QED BY <2>1, <2>2, FS_CardinalityType, RandrAssumption
<1>4. /\ s.modes = M /\ s.output_modes = r.output_modes /\ s.monitors = r.monitors
      /\ s.current_mode = r.current_mode /\ s.crtc_x = r.crtc_x
      /\ s.next_mode_id = r.next_mode_id
  BY Fields DEF Sound
<1>5. Typed(s)
  BY <1>2, <1>3, <1>4, Fields DEF Sound, Typed, RandrState
<1> HIDE DEF s
<1>6. Fresh(s) /\ FitsWithin(s, w)
  BY <1>2, <1>4 DEF Sound, Fresh, FitsWithin
<1>7. Sound(s, w)
  BY <1>5, <1>6 DEF Sound
<1>8. Crtc(s) = Crtc(r)
  <2>1. CrtcWidth(s) = CrtcWidth(r)
    BY <1>2, <1>4 DEF CrtcWidth, Enabled
  <2> QED BY <1>4, <2>1 DEF Crtc
<1>9. Announced({"resources"}, r, w, s, w)
  BY <1>4, <1>8 DEF Announced
<1> QED BY <1>1, <1>7, <1>9 DEF s

(* AddOutputMode and DeleteOutputMode. *)
LEMMA OutputModesSound ==
  ASSUME NEW r, NEW w, Sound(r, w), NEW ids \in SUBSET (DOMAIN r.modes),
         r.current_mode # NoMode => r.current_mode \in ids
  PROVE  LET s == [r EXCEPT !.output_modes = ids]
         IN  Sound(s, w) /\ Announced({"output", "resources"}, r, w, s, w)
<1> DEFINE s == [r EXCEPT !.output_modes = ids]
<1>1. /\ s.modes = r.modes /\ s.output_modes = ids /\ s.monitors = r.monitors
      /\ s.current_mode = r.current_mode /\ s.crtc_x = r.crtc_x
      /\ s.next_mode_id = r.next_mode_id
  BY Fields DEF Sound
<1>2. Typed(s)
  BY <1>1, Fields DEF Sound, Typed, RandrState
<1> HIDE DEF s
<1>3. Sound(s, w)
  BY <1>1, <1>2 DEF Sound, FitsWithin, Fresh
<1>4. Announced({"output", "resources"}, r, w, s, w)
  BY <1>1 DEF Announced, Crtc, CrtcWidth, Enabled
<1> QED BY <1>3, <1>4 DEF s

(* The monitors, and whether the output is the primary one, are nothing the
   CRTC depends on. *)
LEMMA MonitorsSound ==
  ASSUME NEW r, NEW w, Sound(r, w), NEW M, M \in [DOMAIN M -> MonitorRecord],
         DOMAIN M \subseteq MonitorName \cup {Automatic}, IsFiniteSet(DOMAIN M),
         Cardinality(DOMAIN M) <= MaxMonitors, NEW primary \in BOOLEAN
  PROVE  /\ Sound(WithMonitors(r, primary, M), w)
         /\ Announced({"resources"}, r, w, WithMonitors(r, primary, M), w)
<1> PICK s : s = WithMonitors(r, primary, M)
  OBVIOUS
<1>0. s = [r EXCEPT !.primary_output = primary, !.monitors = M]
  BY DEF WithMonitors
<1>1. /\ s.modes = r.modes /\ s.output_modes = r.output_modes /\ s.monitors = M
      /\ s.current_mode = r.current_mode /\ s.crtc_x = r.crtc_x
      /\ s.next_mode_id = r.next_mode_id
  BY <1>0, Fields DEF Sound
<1>2. Typed(s)
  BY <1>0, <1>1, Fields DEF Sound, Typed, RandrState
<1>3. Sound(s, w)
  BY <1>1, <1>2 DEF Sound, FitsWithin, Fresh
<1>4. Announced({"resources"}, r, w, s, w)
  BY <1>1 DEF Announced, Crtc, CrtcWidth, Enabled
<1> QED BY <1>3, <1>4

(* SetScreenSize. *)
LEMMA ResizedSound ==
  ASSUME NEW r, NEW w, Sound(r, w), NEW size \in 1..MaxExtent,
         Enabled(r) => FitsScreen(r, size)
  PROVE  Sound(r, size)
BY DEF Sound, Typed, FitsWithin, Enabled, FitsScreen, CrtcWidth
-----------------------------------------------------------------------------
(* What a commit does.                                                     *)

(* The invariant is about the state of RANDR and what clients know of it. *)
LEMMA StateSound ==
  IInv <=> /\ Sound(randr, width) /\ Follows(randr) /\ TimestampsTell
           /\ pointer \in Nat /\ frozen \in [on : BOOLEAN, pending : Seq(Nat)]
           /\ masks \in [Client -> SUBSET Kind] /\ current \in [Client -> BOOLEAN]
           /\ DOMAIN view = Client
BY DEF IInv, TypeOK, Sound, Typed, FitsWithin, CrtcFits, Follows, MonitorFollows

(* A commit takes what is asked for, and then no timestamp is current, or it
   leaves all as it was. *)
LEMMA CommitEffect ==
  ASSUME IInv, NEW c \in Client, NEW r, NEW w, NEW kinds, kinds # {}, Commit(c, r, w, kinds)
  PROVE  /\ \/ Room(c, append_randr_events(r, w, kinds)) /\ randr' = r /\ width' = w
               /\ \A d \in Client : ~current'[d]
            \/ /\ ~Room(c, append_randr_events(r, w, kinds))
               /\ UNCHANGED <<randr, width, current>>
               /\ \A d \in Client : current[d] => view'[d] = view[d]
         /\ current' \in [Client -> BOOLEAN] /\ DOMAIN view' = Client
         /\ UNCHANGED <<masks, frozen>>
<1> DEFINE fits == Room(c, append_randr_events(r, w, kinds))
<1>1. /\ width' = (IF fits THEN w ELSE width) /\ randr' = (IF fits THEN r ELSE randr)
      /\ current' = [d \in Client |-> current[d] /\ ~(fits /\ kinds # {})]
      /\ view' = [d \in Client |-> IF current'[d] THEN view[d] ELSE Unknown]
      /\ UNCHANGED <<masks, frozen>>
  BY DEF Commit
<1>2. current \in [Client -> BOOLEAN]
  BY DEF IInv, TypeOK
<1> HIDE DEF fits
<1>3. /\ current' \in [Client -> BOOLEAN] /\ DOMAIN view' = Client
      /\ UNCHANGED <<masks, frozen>>
  BY <1>1
<1>4. CASE fits
  BY <1>1, <1>3, <1>4 DEF fits
<1>5. CASE ~fits
  <2>1. current' = current
    BY <1>1, <1>2, <1>5
  <2> QED BY <1>1, <1>2, <1>3, <1>5, <2>1 DEF fits
<1> QED BY <1>4, <1>5

(* A commit of what is sound keeps the invariant. *)
LEMMA CommitKeeps ==
  ASSUME IInv, NEW c \in Client, NEW r, NEW w, Sound(r, w), NEW kinds, kinds # {},
         Commit(c, update_automatic_randr_monitors(r), w, kinds), pointer' \in Nat
  PROVE  IInv'
<1> PICK u : u = update_automatic_randr_monitors(r)
  OBVIOUS
<1>1. Sound(u, w) /\ Follows(u)
  BY UpdatedIsSound
<1>2. /\ Sound(randr, width) /\ Follows(randr) /\ TimestampsTell
      /\ frozen \in [on : BOOLEAN, pending : Seq(Nat)]
      /\ masks \in [Client -> SUBSET Kind]
  BY StateSound
<1>3. Commit(c, u, w, kinds)
  OBVIOUS
<1>4. /\ \/ randr' = u /\ width' = w /\ \A d \in Client : ~current'[d]
         \/ /\ UNCHANGED <<randr, width, current>>
            /\ \A d \in Client : current[d] => view'[d] = view[d]
      /\ current' \in [Client -> BOOLEAN] /\ DOMAIN view' = Client
      /\ UNCHANGED <<masks, frozen>>
  BY <1>3, CommitEffect
<1>5. TimestampsTell'
  BY <1>2, <1>4 DEF TimestampsTell, Timely, Configuration
<1>6. Sound(randr, width)' /\ Follows(randr)'
  <2>1. CASE randr' = u /\ width' = w
    BY <1>1, <2>1 DEF Sound, Typed, Fresh, FitsWithin, Follows, CrtcWidth, Enabled, Crtc
  <2>2. CASE UNCHANGED <<randr, width>>
    BY <1>2, <2>2 DEF Sound, Typed, Fresh, FitsWithin, Follows, CrtcWidth, Enabled, Crtc
  <2> QED BY <1>4, <2>1, <2>2
<1> QED
  <2>1. /\ (frozen \in [on : BOOLEAN, pending : Seq(Nat)])'
        /\ (masks \in [Client -> SUBSET Kind])' /\ (current \in [Client -> BOOLEAN])'
        /\ (DOMAIN view = Client)' /\ (pointer \in Nat)'
    BY <1>2, <1>4
  <2> QED BY <1>5, <1>6, <2>1, StateSound, PTL

(* What a request leaves alone, or only answers, keeps it, too. *)
LEMMA AnswerKeeps ==
  ASSUME IInv, NEW c \in Client, Answer(c)
  PROVE  IInv'
BY DEF Answer, IInv, TypeOK, Fresh, CrtcFits, MonitorFollows, TimestampsTell, Timely,
       Configuration, CrtcWidth, Enabled, Crtc
-----------------------------------------------------------------------------
(* The requests.                                                           *)

(* A request that commits a sound state or is only answered. *)
LEMMA RequestKeeps ==
  ASSUME IInv, NEW c \in Client, Requested(c)
  PROVE  IInv'
<1>1. CASE Answer(c)
  BY <1>1, AnswerKeeps
<1>2. ASSUME NEW r, NEW kinds, Sound(r, width), Announced(kinds, randr, width, r, width),
             commit_randr_state(c, r, kinds)
      PROVE  IInv'
  <2>1. pointer' \in Nat
    BY <1>2, StateSound DEF commit_randr_state
  <2>2. Commit(c, update_automatic_randr_monitors(r), width, kinds)
    BY <1>2 DEF commit_randr_state
  <2>3. kinds # {}
    BY <1>2 DEF Announced
  <2> QED BY <1>2, <2>1, <2>2, <2>3, CommitKeeps
<1> QED BY <1>1, <1>2 DEF Requested

(* What the size of the screen may be set to. *)
LEMMA ResizeKeeps ==
  ASSUME IInv, NEW c \in Client, NEW w \in Extents, SetScreenSize(c, w)
  PROVE  IInv'
<1>1. CASE w \in 1..MaxExtent /\ (Enabled(randr) => FitsScreen(randr, w))
  <2>1. Sound(randr, w)
    BY <1>1, StateSound, ResizedSound
  <2>2. resize_randr_screen(c, randr, w)
    BY <1>1 DEF SetScreenSize
  <2>3. pointer' \in Nat
    BY <1>1, <2>2, StateSound, RandrAssumption DEF resize_randr_screen, Clamped
  <2>4. Kind # {} /\ Commit(c, update_automatic_randr_monitors(randr), w, Kind)
    BY <2>2 DEF resize_randr_screen, Kind
  <2> QED BY <2>1, <2>3, <2>4, CommitKeeps
<1>2. CASE ~(w \in 1..MaxExtent /\ (Enabled(randr) => FitsScreen(randr, w)))
  BY <1>2, AnswerKeeps DEF SetScreenSize
<1> QED BY <1>1, <1>2

(* What the CRTC may be set to. *)
LEMMA CrtcRequested ==
  ASSUME IInv, NEW c \in Client
  PROVE  /\ SetScreenConfig(c) \/ SetCrtcTransform(c) \/ SetPanning(c) => Requested(c)
         /\ \A mode \in 0..MaxModeId, x \in Extents, named \in BOOLEAN :
              SetCrtcConfig(c, mode, x, named) => Requested(c)
<1>1. Sound(randr, width)
  BY StateSound
<1>2. ASSUME NEW kinds, "crtc" \in kinds, commit_randr_state(c, randr, kinds) \/ Answer(c)
      PROVE  Requested(c)
  <2>1. Announced(kinds, randr, width, randr, width)
    BY <1>2 DEF Announced
  <2> QED BY <1>1, <1>2, <2>1 DEF Requested
<1>3. ASSUME SetScreenConfig(c) \/ SetCrtcTransform(c) \/ SetPanning(c)
      PROVE  Requested(c)
  BY <1>2, <1>3 DEF SetScreenConfig, SetCrtcTransform, SetPanning
<1>4. ASSUME NEW mode \in 0..MaxModeId, NEW x \in Extents, NEW named \in BOOLEAN,
             SetCrtcConfig(c, mode, x, named)
      PROVE  Requested(c)
  <2> DEFINE r == [randr EXCEPT !.current_mode = mode, !.crtc_x = IF mode = NoMode THEN 0 ELSE x]
  <2>1. CASE Timely(c, named) /\ (mode = NoMode \/ Acceptable(mode, x))
    <3>1. x \in Nat
      BY RandrAssumption
    <3>2. r = WithCrtc(randr, mode, x)
      BY DEF WithCrtc
    <3>3. commit_randr_state(c, r, {"crtc", "output"})
      BY <1>4, <2>1 DEF SetCrtcConfig
    <3> HIDE DEF r
    <3>4. Sound(r, width) /\ Announced({"crtc", "output"}, randr, width, r, width)
      BY <1>1, <2>1, <3>1, <3>2, CrtcSound DEF Acceptable
    <3> QED BY <3>3, <3>4 DEF Requested
  <2>2. CASE ~(Timely(c, named) /\ (mode = NoMode \/ Acceptable(mode, x)))
    BY <1>4, <2>2 DEF SetCrtcConfig, Requested
  <2> QED BY <2>1, <2>2
<1> QED BY <1>3, <1>4

(* Modes come and go, but for those that are used. *)
LEMMA ModesRequested ==
  ASSUME IInv, NEW c \in Client
  PROVE  /\ \A w \in Extents : CreateMode(c, w) => Requested(c)
         /\ \A id \in 1..MaxModeId :
              DestroyMode(c, id) \/ AddOutputMode(c, id) \/ DeleteOutputMode(c, id) => Requested(c)
<1>1. Sound(randr, width)
  BY StateSound
<1>2. /\ randr.output_modes \subseteq DOMAIN randr.modes
      /\ randr.current_mode # NoMode => randr.current_mode \in randr.output_modes
  BY <1>1 DEF Sound, FitsWithin
<1>3. ASSUME NEW w \in Extents, CreateMode(c, w)
      PROVE  Requested(c)
  <2> DEFINE r == [randr EXCEPT
                     !.modes = With(@, randr.next_mode_id, [width |-> w, built_in |-> FALSE]),
                     !.next_mode_id = @ + 1]
  <2>1. CASE w # 0 /\ Cardinality(DOMAIN randr.modes) < MaxModes
    <3>1. w \in Nat /\ randr.next_mode_id <= MaxModeId
      BY <1>3, RandrAssumption DEF CreateMode
    <3>2. r = WithMode(randr, w)
      BY DEF WithMode
    <3>3. commit_randr_state(c, r, {"resources"})
      BY <1>3, <2>1 DEF CreateMode
    <3> HIDE DEF r
    <3>4. Sound(r, width) /\ Announced({"resources"}, randr, width, r, width)
      BY <1>1, <2>1, <3>1, <3>2, CreatedSound
    <3> QED BY <3>3, <3>4 DEF Requested
  <2>2. CASE ~(w # 0 /\ Cardinality(DOMAIN randr.modes) < MaxModes)
    BY <1>3, <2>2 DEF CreateMode, Requested
  <2> QED BY <2>1, <2>2
<1>4. ASSUME NEW id \in 1..MaxModeId, DestroyMode(c, id)
      PROVE  Requested(c)
  <2> DEFINE r == [randr EXCEPT !.modes = Restrict(@, DOMAIN @ \ {id})]
  <2>1. CASE id \in DOMAIN randr.modes /\ Destroyable(id)
    <3>1. Sound(r, width) /\ Announced({"resources"}, randr, width, r, width)
      BY <1>1, <2>1, DestroyedSound DEF Destroyable
    <3>2. commit_randr_state(c, r, {"resources"})
      BY <1>4, <2>1 DEF DestroyMode
    <3> HIDE DEF r
    <3> QED BY <3>1, <3>2 DEF Requested
  <2>2. CASE ~(id \in DOMAIN randr.modes /\ Destroyable(id))
    BY <1>4, <2>2 DEF DestroyMode, Requested
  <2> QED BY <2>1, <2>2
<1>5. ASSUME NEW id \in 1..MaxModeId, AddOutputMode(c, id)
      PROVE  Requested(c)
  <2> DEFINE r == [randr EXCEPT !.output_modes = @ \cup {id}]
  <2>1. CASE id \in DOMAIN randr.modes
    <3>1. Sound(r, width) /\ Announced({"output", "resources"}, randr, width, r, width)
      BY <1>1, <1>2, <2>1, OutputModesSound
    <3>2. commit_randr_state(c, r, {"output", "resources"})
      BY <1>5, <2>1 DEF AddOutputMode
    <3> HIDE DEF r
    <3> QED BY <3>1, <3>2 DEF Requested
  <2>2. CASE id \notin DOMAIN randr.modes
    BY <1>5, <2>2 DEF AddOutputMode, Requested
  <2> QED BY <2>1, <2>2
<1>6. ASSUME NEW id \in 1..MaxModeId, DeleteOutputMode(c, id)
      PROVE  Requested(c)
  <2> DEFINE r == [randr EXCEPT !.output_modes = @ \ {id}]
             used == /\ id \in DOMAIN randr.modes /\ randr.current_mode # id
                     /\ ~randr.modes[id].built_in /\ id \in randr.output_modes
  <2>1. CASE used
    <3>1. Sound(r, width) /\ Announced({"output", "resources"}, randr, width, r, width)
      BY <1>1, <1>2, <2>1, OutputModesSound
    <3>2. commit_randr_state(c, r, {"output", "resources"})
      BY <1>6, <2>1 DEF DeleteOutputMode
    <3> HIDE DEF r
    <3> QED BY <3>1, <3>2 DEF Requested
  <2>2. CASE ~used
    BY <1>6, <2>2 DEF DeleteOutputMode, Requested
  <2> QED BY <2>1, <2>2
<1> QED BY <1>3, <1>4, <1>5, <1>6

(* There are no more monitors than there may be. *)
LEMMA MonitorsRequested ==
  ASSUME IInv, NEW c \in Client
  PROVE  /\ \A output \in BOOLEAN : SetOutputPrimary(c, output) => Requested(c)
         /\ \A name \in MonitorName, primary \in BOOLEAN, covers \in BOOLEAN :
              SetMonitor(c, name, primary, covers) => Requested(c)
         /\ \A name \in MonitorName : DeleteMonitor(c, name) => Requested(c)
<1> DEFINE old == randr.monitors
<1>1. Sound(randr, width)
  BY StateSound
<1>2. /\ old \in [DOMAIN old -> MonitorRecord] /\ randr.primary_output \in BOOLEAN
      /\ DOMAIN old \subseteq MonitorName \cup {Automatic} /\ IsFiniteSet(DOMAIN old)
      /\ Cardinality(DOMAIN old) <= MaxMonitors /\ Cardinality(DOMAIN old) \in Nat
  BY <1>1, Fields, FS_CardinalityType DEF Sound, Typed
<1>3. DOMAIN randr = {"modes", "output_modes", "current_mode", "next_mode_id", "crtc_x",
                      "primary_output", "monitors"}
  BY <1>1, Fields DEF Sound
<1> HIDE DEF old
<1>4. ASSUME NEW output \in BOOLEAN, SetOutputPrimary(c, output)
      PROVE  Requested(c)
  <2> DEFINE M == [n \in DOMAIN old |-> [old[n] EXCEPT !.primary = output /\ old[n].covers]]
             r == [randr EXCEPT !.primary_output = output, !.monitors = M]
  <2>1. DOMAIN M = DOMAIN old /\ M \in [DOMAIN M -> MonitorRecord]
    BY <1>2 DEF MonitorRecord
  <2>2. commit_randr_state(c, r, {"resources"})
    BY <1>4 DEF SetOutputPrimary, old
  <2> HIDE DEF M
  <2>3. r = WithMonitors(randr, output, M)
    BY DEF WithMonitors
  <2> HIDE DEF r
  <2>4. Sound(r, width) /\ Announced({"resources"}, randr, width, r, width)
    BY <1>1, <1>2, <2>1, <2>3, MonitorsSound
  <2> QED BY <2>2, <2>4 DEF Requested
<1>5. ASSUME NEW name \in MonitorName, NEW primary \in BOOLEAN, NEW covers \in BOOLEAN,
             SetMonitor(c, name, primary, covers)
      PROVE  Requested(c)
  <2> DEFINE others == {n \in DOMAIN old : ~(covers /\ old[n].automatic /\ old[n].covers)}
             kept == [n \in others |-> [old[n] EXCEPT !.primary = @ /\ ~primary]]
             new == Monitor(primary, FALSE, 0, 0, covers)
             M == With(kept, name, new)
             p == randr.primary_output \/ (primary /\ covers)
             r == [randr EXCEPT !.primary_output = p, !.monitors = M]
             room == name \notin DOMAIN old /\ Cardinality(DOMAIN old) < MaxMonitors
  <2>1. CASE room
    <3>1. new \in MonitorRecord
      BY DEF Monitor, MonitorRecord
    <3>2. DOMAIN kept = others /\ kept \in [DOMAIN kept -> MonitorRecord]
      BY <1>2 DEF MonitorRecord
    <3>3. others \subseteq DOMAIN old
      OBVIOUS
    <3>4. commit_randr_state(c,
            [randr EXCEPT !.monitors = M, !.primary_output = @ \/ (primary /\ covers)],
            {"resources"})
      BY <1>5, <2>1 DEF SetMonitor, old
    <3> HIDE DEF others, kept, new
    <3>5. M \in [DOMAIN M -> MonitorRecord] /\ DOMAIN M = others \cup {name}
      BY <3>1, <3>2 DEF With
    <3>6. IsFiniteSet(others) /\ Cardinality(others) <= Cardinality(DOMAIN old)
      BY <1>2, <3>3, FS_Subset
    <3>7. Cardinality(others) \in Nat /\ Cardinality(others) < MaxMonitors
      BY <1>2, <2>1, <3>6, FS_CardinalityType, RandrAssumption
    <3>8. IsFiniteSet(others \cup {name}) /\ Cardinality(others \cup {name}) <= MaxMonitors
      BY <3>6, <3>7, OneMore, RandrAssumption
    <3>9. p \in BOOLEAN /\ DOMAIN M \subseteq MonitorName \cup {Automatic}
      BY <1>2, <3>3, <3>5
    <3> HIDE DEF M
    <3>10. commit_randr_state(c, r, {"resources"})
      <4>1. r = [randr EXCEPT !.monitors = M, !.primary_output = @ \/ (primary /\ covers)]
        BY <1>3
      <4> QED BY <3>4, <4>1
    <3> HIDE DEF p
    <3>11. r = WithMonitors(randr, p, M)
      BY DEF WithMonitors
    <3> HIDE DEF r
    <3>12. Sound(r, width) /\ Announced({"resources"}, randr, width, r, width)
      BY <1>1, <3>5, <3>8, <3>9, <3>11, MonitorsSound
    <3> QED BY <3>10, <3>12 DEF Requested
  <2>2. CASE ~room
    BY <1>5, <2>2 DEF SetMonitor, Requested, old
  <2> QED BY <2>1, <2>2
<1>6. ASSUME NEW name \in MonitorName, DeleteMonitor(c, name)
      PROVE  Requested(c)
  <2> DEFINE rest == Restrict(old, DOMAIN old \ {name})
             covered == \E n \in DOMAIN rest : rest[n].covers
             stays == covered \/ randr.current_mode = NoMode \/ Automatic \in DOMAIN rest
             new == Monitor(TRUE, TRUE, 0, 0, TRUE)
             M == IF stays THEN rest ELSE With(rest, Automatic, new)
             r == [randr EXCEPT !.monitors = M]
             given == name \in DOMAIN old /\ ~old[name].automatic
  <2>1. CASE given
    <3>1. new \in MonitorRecord
      BY DEF Monitor, MonitorRecord
    <3>2. DOMAIN rest = DOMAIN old \ {name} /\ rest \in [DOMAIN rest -> MonitorRecord]
      BY <1>2 DEF Restrict
    <3>3. commit_randr_state(c, r, {"resources"})
      BY <1>6, <2>1 DEF DeleteMonitor, old
    <3>4. /\ IsFiniteSet(DOMAIN rest) /\ Cardinality(DOMAIN rest) \in Nat
          /\ Cardinality(DOMAIN rest) < MaxMonitors
      <4>1. /\ IsFiniteSet(DOMAIN old \ {name})
            /\ Cardinality(DOMAIN old \ {name}) = Cardinality(DOMAIN old) - 1
        BY <1>2, <2>1, FS_RemoveElement
      <4>2. Cardinality(DOMAIN old \ {name}) \in Nat
        BY <4>1, FS_CardinalityType
      <4> QED BY <1>2, <3>2, <4>1, <4>2, RandrAssumption
    <3> HIDE DEF new, rest
    <3>5. /\ M \in [DOMAIN M -> MonitorRecord]
          /\ DOMAIN M \subseteq DOMAIN rest \cup {Automatic}
          /\ IsFiniteSet(DOMAIN M) /\ Cardinality(DOMAIN M) <= MaxMonitors
      <4>1. CASE stays
        BY <3>2, <3>4, <4>1, RandrAssumption
      <4>2. CASE ~stays
        <5>1. M = With(rest, Automatic, new)
          BY <4>2
        <5>2. M \in [DOMAIN M -> MonitorRecord] /\ DOMAIN M = DOMAIN rest \cup {Automatic}
          BY <3>1, <3>2, <5>1 DEF With
        <5>3. /\ IsFiniteSet(DOMAIN rest \cup {Automatic})
              /\ Cardinality(DOMAIN rest \cup {Automatic}) <= MaxMonitors
          BY <3>4, OneMore, RandrAssumption
        <5> QED BY <5>2, <5>3
      <4> QED BY <4>1, <4>2
    <3>6. DOMAIN M \subseteq MonitorName \cup {Automatic}
      BY <1>2, <3>2, <3>5
    <3> HIDE DEF M
    <3>7. r = WithMonitors(randr, randr.primary_output, M)
      BY <1>3 DEF WithMonitors
    <3> HIDE DEF r
    <3>8. Sound(r, width) /\ Announced({"resources"}, randr, width, r, width)
      BY <1>1, <1>2, <3>5, <3>6, <3>7, MonitorsSound
    <3> QED BY <3>3, <3>8 DEF Requested
  <2>2. CASE ~given
    BY <1>6, <2>2 DEF DeleteMonitor, Requested, old
  <2> QED BY <2>1, <2>2
<1> QED BY <1>4, <1>5, <1>6
-----------------------------------------------------------------------------
(* What clients and the pointer do.                                        *)

(* The answer to a question tells of the configuration there is. *)
LEMMA AskKeeps ==
  ASSUME IInv, NEW c, Ask(c)
  PROVE  IInv'
<1>1. /\ current' = [current EXCEPT ![c] = c \in Timestamped]
      /\ view' = [view EXCEPT ![c] = IF c \in Timestamped THEN Configuration ELSE Unknown]
      /\ UNCHANGED <<width, pointer, frozen, randr, masks>>
  BY DEF Ask
<1>2. current \in [Client -> BOOLEAN] /\ DOMAIN view = Client /\ TimestampsTell
  BY DEF IInv, TypeOK
<1>3. current' \in [Client -> BOOLEAN] /\ DOMAIN view' = Client
  <2>1. CASE c \in Timestamped
    <3>1. current' = [current EXCEPT ![c] = TRUE]
      BY <1>1, <2>1, Zenon
    <3> QED BY <1>1, <1>2, <3>1
  <2>2. CASE c \notin Timestamped
    <3>1. (c \in Timestamped) = FALSE
      BY <2>2
    <3>2. current' = [current EXCEPT ![c] = FALSE]
      BY <1>1, <3>1, Zenon
    <3> QED BY <1>1, <1>2, <3>2
  <2> QED BY <2>1, <2>2
<1>4. TimestampsTell'
  <2>1. Configuration' = Configuration
    BY <1>1 DEF Configuration
  <2>2. ASSUME NEW d \in Client, current'[d]
        PROVE  view'[d] = Configuration
    <3>1. CASE d = c
      BY <1>1, <1>2, <2>2, <3>1
    <3>2. CASE d # c
      BY <1>1, <1>2, <2>2, <3>2 DEF TimestampsTell, Timely
    <3> QED BY <3>1, <3>2
  <2> QED BY <2>1, <2>2 DEF TimestampsTell, Timely
<1> QED BY <1>1, <1>3, <1>4 DEF IInv, TypeOK, Fresh, CrtcFits, MonitorFollows, CrtcWidth, Enabled, Crtc

(* Who selects other events is told nothing new of the configuration. *)
LEMMA SelectKeeps ==
  ASSUME IInv, NEW c \in Client, NEW kinds \in SUBSET Kind, select_randr_input(c, kinds)
  PROVE  IInv'
<1>1. UNCHANGED <<width, pointer, frozen, randr, current, view>>
  BY DEF select_randr_input
<1>2. masks' \in [Client -> SUBSET Kind]
  BY DEF select_randr_input, IInv, TypeOK
<1> QED BY <1>1, <1>2 DEF IInv, TypeOK, Fresh, CrtcFits, MonitorFollows, TimestampsTell, Timely,
                        Configuration, CrtcWidth, Enabled, Crtc

(* A place on the screen. *)
LEMMA ClampedIsOn ==
  ASSUME NEW x \in Nat, NEW w \in Nat \ {0}
  PROVE  Clamped(x, w) \in Nat /\ Clamped(x, w) < w
BY DEF Clamped

(* Moves of the pointer, held or made, change nothing but the pointer. *)
LEMMA PointerKeeps ==
  ASSUME IInv, (\E x \in Positions : MovePointer(x)) \/ Freeze \/ AllowEvents
  PROVE  IInv'
<1>1. UNCHANGED <<width, randr, masks, current, view>>
  BY DEF MovePointer, Freeze, AllowEvents
<1>2. /\ width \in Nat \ {0} /\ pointer \in Nat
      /\ frozen \in [on : BOOLEAN, pending : Seq(Nat)]
  BY RandrAssumption DEF IInv, TypeOK
<1>3. pointer' \in Nat /\ frozen' \in [on : BOOLEAN, pending : Seq(Nat)]
  <2>1. ASSUME NEW x \in Positions, MovePointer(x)
        PROVE  pointer' \in Nat /\ frozen' \in [on : BOOLEAN, pending : Seq(Nat)]
    <3>1. PICK y \in Nat : y = Clamped(x, width)
      BY <1>2, ClampedIsOn, RandrAssumption
    <3>2. CASE frozen.on
      <4>1. frozen' = [frozen EXCEPT !.pending = Append(@, y)] /\ pointer' = pointer
        BY <2>1, <3>1, <3>2 DEF MovePointer
      <4>2. Append(frozen.pending, y) \in Seq(Nat)
        BY <1>2
      <4> QED BY <1>2, <4>1, <4>2
    <3>3. CASE ~frozen.on
      BY <1>2, <2>1, <3>1, <3>3 DEF MovePointer
    <3> QED BY <3>2, <3>3
  <2>2. CASE Freeze
    BY <1>2, <2>2 DEF Freeze
  <2>3. CASE AllowEvents
    BY <1>2, <2>3 DEF AllowEvents, Last
  <2> QED BY <2>1, <2>2, <2>3
<1> QED BY <1>1, <1>3 DEF IInv, TypeOK, Fresh, CrtcFits, MonitorFollows, TimestampsTell, Timely,
                        Configuration, CrtcWidth, Enabled, Crtc
-----------------------------------------------------------------------------
(* The invariant, and what follows from it.                                *)

(* The server starts with one mode, the size of the screen, and one automatic
   monitor. *)
LEMMA InitIInv == Init => IInv
<1> SUFFICES ASSUME Init
             PROVE  IInv
  OBVIOUS
<1>1. /\ randr.modes = [k \in {1} |-> [width |-> InitialWidth, built_in |-> TRUE]]
      /\ randr.output_modes = {1} /\ randr.current_mode = 1 /\ randr.next_mode_id = 2
      /\ randr.crtc_x = 0 /\ randr.primary_output \in BOOLEAN
      /\ randr.monitors = [k \in {Automatic} |->
           [primary |-> TRUE, automatic |-> TRUE, x |-> 0, width |-> InitialWidth, covers |-> TRUE]]
      /\ DOMAIN randr.modes = {1} /\ DOMAIN randr.monitors = {Automatic}
  BY DEF Init, InitialMode, Monitor
<1>2. \A x : IsFiniteSet({x}) /\ Cardinality({x}) = 1
  BY FS_Singleton
<1>3. width = InitialWidth /\ InitialWidth \in Nat
  BY RandrAssumption DEF Init
<1>4. Typed(randr)
  <2>1. randr \in RandrState({1}, {Automatic})
    <3>1. /\ randr.modes \in [{1} -> Mode] /\ randr.monitors \in [{Automatic} -> MonitorRecord]
      BY <1>1, <1>3 DEF Mode, MonitorRecord
    <3>2. randr = [modes |-> randr.modes, output_modes |-> randr.output_modes,
                   current_mode |-> randr.current_mode, next_mode_id |-> randr.next_mode_id,
                   crtc_x |-> randr.crtc_x, primary_output |-> randr.primary_output,
                   monitors |-> randr.monitors]
      BY DEF Init
    <3>3. /\ randr.output_modes \in SUBSET (1..MaxModeId) /\ randr.current_mode \in 0..MaxModeId
          /\ randr.next_mode_id \in 1..(MaxModeId + 1) /\ randr.crtc_x \in Nat
          /\ randr.primary_output \in BOOLEAN
      <4>1. MaxModeId \in Nat /\ MaxModeId >= 1
        BY RandrAssumption
      <4>2. {1} \in SUBSET (1..MaxModeId) /\ 1 \in 0..MaxModeId /\ 2 \in 1..(MaxModeId + 1)
        BY <4>1
      <4>3. randr.crtc_x \in Nat /\ randr.primary_output \in BOOLEAN
        BY <1>1
      <4>4. /\ randr.output_modes \in SUBSET (1..MaxModeId) /\ randr.current_mode \in 0..MaxModeId
            /\ randr.next_mode_id \in 1..(MaxModeId + 1)
        BY <1>1, <4>2, Zenon
      <4> QED BY <4>3, <4>4
    <3> QED BY <3>1, <3>2, <3>3 DEF RandrState
  <2>2. IsFiniteSet({Automatic}) /\ Cardinality({1}) = 1 /\ Cardinality({Automatic}) = 1
    BY <1>2
  <2>3. {1} \subseteq 1..MaxModeId
    BY RandrAssumption
  <2>4. Cardinality(DOMAIN randr.modes) <= MaxModes
    BY <1>1, <2>2, RandrAssumption
  <2>5. /\ IsFiniteSet(DOMAIN randr.monitors) /\ Cardinality(DOMAIN randr.monitors) <= MaxMonitors
        /\ DOMAIN randr.monitors \subseteq MonitorName \cup {Automatic}
    BY <1>1, <2>2, RandrAssumption
  <2>6. DOMAIN randr.modes = {1} /\ DOMAIN randr.monitors = {Automatic}
    BY <1>1
  <2>7. randr \in RandrState(DOMAIN randr.modes, DOMAIN randr.monitors)
    BY <2>1, <2>6
  <2>8. DOMAIN randr.modes \subseteq 1..MaxModeId
    BY <2>3, <2>6
  <2> QED BY <2>4, <2>5, <2>7, <2>8 DEF Typed
<1>5. Fresh(randr) /\ FitsWithin(randr, width) /\ Follows(randr)
  <2>1. /\ Fresh(randr) /\ FitsWithin(randr, width)
        /\ CrtcWidth(randr) = InitialWidth /\ Crtc(randr).x = 0
    BY <1>1, <1>3 DEF Fresh, FitsWithin, CrtcWidth, Enabled, Crtc, NoMode
  <2>2. /\ randr.monitors[Automatic].width = InitialWidth /\ randr.monitors[Automatic].x = 0
        /\ randr.monitors[Automatic].covers = TRUE
    BY <1>1
  <2>3. (randr.current_mode # NoMode) = TRUE
    BY <1>1 DEF NoMode
  <2>4. randr.monitors[Automatic].covers = (randr.current_mode # NoMode)
    BY <2>2, <2>3, Zenon
  <2>5. \A n \in DOMAIN randr.monitors : n = Automatic
    BY <1>1
  <2> QED BY <2>1, <2>2, <2>4, <2>5 DEF Follows
<1>6. /\ width \in 1..MaxExtent /\ pointer \in Nat
      /\ frozen \in [on : BOOLEAN, pending : Seq(Nat)]
      /\ masks \in [Client -> SUBSET Kind] /\ current \in [Client -> BOOLEAN]
      /\ DOMAIN view = Client
  BY RandrAssumption DEF Init
<1>7. TimestampsTell
  BY DEF Init, TimestampsTell, Timely
<1> QED BY <1>4, <1>5, <1>6, <1>7, StateSound DEF Sound

(* The steps there are. *)
LEMMA Steps ==
  ASSUME IInv, Next
  PROVE  \/ \E c \in Client : Requested(c) \/ \E w \in Extents : SetScreenSize(c, w)
         \/ \E c \in Client, kinds \in SUBSET Kind : select_randr_input(c, kinds)
         \/ \E c \in Follower \cup Timestamped : Ask(c)
         \/ (\E x \in Positions : MovePointer(x)) \/ Freeze \/ AllowEvents
<1> DEFINE requests == \E c \in Client : Requested(c) \/ \E w \in Extents : SetScreenSize(c, w)
<1>1. ASSUME NEW c \in Requester
      PROVE  /\ \A w \in Extents : SetScreenSize(c, w) \/ CreateMode(c, w) => requests
             /\ SetScreenConfig(c) \/ SetCrtcTransform(c) \/ SetPanning(c) => requests
             /\ \A mode \in 0..MaxModeId, x \in Extents, named \in BOOLEAN :
                  SetCrtcConfig(c, mode, x, named) => requests
             /\ \A id \in 1..MaxModeId :
                  DestroyMode(c, id) \/ AddOutputMode(c, id) \/ DeleteOutputMode(c, id) => requests
             /\ \A output \in BOOLEAN : SetOutputPrimary(c, output) => requests
             /\ \A name \in MonitorName, primary \in BOOLEAN, covers \in BOOLEAN :
                  SetMonitor(c, name, primary, covers) => requests
             /\ \A name \in MonitorName : DeleteMonitor(c, name) => requests
  <2>1. c \in Client
    BY RandrAssumption
  <2>2. Requested(c) => requests
    BY <2>1
  <2>3. \A w \in Extents : SetScreenSize(c, w) => requests
    BY <2>1
  <2> HIDE DEF requests
  <2>4. /\ SetScreenConfig(c) \/ SetCrtcTransform(c) \/ SetPanning(c) => requests
        /\ \A mode \in 0..MaxModeId, x \in Extents, named \in BOOLEAN :
             SetCrtcConfig(c, mode, x, named) => requests
    BY <2>1, <2>2, CrtcRequested
  <2>5. /\ \A w \in Extents : CreateMode(c, w) => requests
        /\ \A id \in 1..MaxModeId :
             DestroyMode(c, id) \/ AddOutputMode(c, id) \/ DeleteOutputMode(c, id) => requests
    BY <2>1, <2>2, ModesRequested
  <2>6. /\ \A output \in BOOLEAN : SetOutputPrimary(c, output) => requests
        /\ \A name \in MonitorName, primary \in BOOLEAN, covers \in BOOLEAN :
             SetMonitor(c, name, primary, covers) => requests
        /\ \A name \in MonitorName : DeleteMonitor(c, name) => requests
    BY <2>1, <2>2, MonitorsRequested
  <2> QED BY <2>3, <2>4, <2>5, <2>6
<1>2. ASSUME NEW c \in Client, Visit(c)
      PROVE  requests
  BY <1>2 DEF Visit, Requested
<1>3. ASSUME NEW c \in Follower, NEW kinds \in {{}, {"screen"}, Kind}, select_randr_input(c, kinds)
      PROVE  \E d \in Client, k \in SUBSET Kind : select_randr_input(d, k)
  <2>1. kinds \in SUBSET Kind /\ c \in Client
    BY RandrAssumption DEF Kind
  <2> QED BY <1>3, <2>1
<1> HIDE DEF requests
<1>4. CASE \E c \in Requester :
             \/ \E w \in Extents : SetScreenSize(c, w) \/ CreateMode(c, w)
             \/ SetScreenConfig(c) \/ SetCrtcTransform(c) \/ SetPanning(c)
             \/ \E mode \in 0..MaxModeId, x \in Extents, named \in BOOLEAN :
                  SetCrtcConfig(c, mode, x, named)
             \/ \E id \in 1..MaxModeId :
                  DestroyMode(c, id) \/ AddOutputMode(c, id) \/ DeleteOutputMode(c, id)
             \/ \E output \in BOOLEAN : SetOutputPrimary(c, output)
             \/ \E name \in MonitorName, primary, covers \in BOOLEAN :
                  SetMonitor(c, name, primary, covers)
             \/ \E name \in MonitorName : DeleteMonitor(c, name)
  <2>1. requests
    BY <1>1, <1>4
  <2> QED BY <2>1 DEF requests
<1>5. CASE \E c \in Client : Visit(c)
  <2>1. requests
    BY <1>2, <1>5
  <2> QED BY <2>1 DEF requests
<1>6. CASE \E c \in Follower, kinds \in {{}, {"screen"}, Kind} : select_randr_input(c, kinds)
  BY <1>3, <1>6
<1> QED BY <1>4, <1>5, <1>6 DEF Next

(* Every step keeps the invariant, by the lemma on its kind of step. *)
LEMMA NextIInv == IInv /\ [Next]_vars => IInv'
<1> SUFFICES ASSUME IInv, [Next]_vars
             PROVE  IInv'
  OBVIOUS
<1>1. ASSUME NEW c \in Client, Requested(c) \/ \E w \in Extents : SetScreenSize(c, w)
      PROVE  IInv'
  BY <1>1, RequestKeeps, ResizeKeeps
<1>2. ASSUME NEW c \in Client, NEW kinds \in SUBSET Kind, select_randr_input(c, kinds)
      PROVE  IInv'
  BY <1>2, SelectKeeps
<1>3. ASSUME NEW c \in Follower \cup Timestamped, Ask(c)
      PROVE  IInv'
  BY <1>3, AskKeeps
<1>4. CASE (\E x \in Positions : MovePointer(x)) \/ Freeze \/ AllowEvents
  BY <1>4, PointerKeeps
<1>5. CASE UNCHANGED vars
  BY <1>5 DEF vars, IInv, TypeOK, Fresh, CrtcFits, MonitorFollows, TimestampsTell, Timely,
              Configuration, CrtcWidth, Enabled, Crtc
<1> QED BY <1>1, <1>2, <1>3, <1>4, <1>5, Steps

(* The types are kept, with no more modes and monitors than there may be; a
   new mode never takes the identifier of another; and the CRTC, the
   automatic monitor and the timestamps are as they should be. *)
THEOREM Inductive == Spec => []IInv
BY InitIInv, NextIInv, PTL DEF Spec

(* The CRTC shows a mode of its output within the screen, whatever order the
   modes come and go in and the screen is resized in. *)
THEOREM CrtcStaysOnScreen == Spec => []CrtcFits
<1>1. IInv => CrtcFits
  BY DEF IInv
<1> QED BY <1>1, Inductive, PTL

(* An automatic monitor is where the CRTC is, whatever request moved it. *)
THEOREM MonitorIsAutomatic == Spec => []MonitorFollows
<1>1. IInv => MonitorFollows
  BY DEF IInv
<1> QED BY <1>1, Inductive, PTL

(* A client whose configuration timestamp is accepted knows the configuration
   that it changes. *)
THEOREM TimestampIsProof == Spec => []TimestampsTell
<1>1. IInv => TimestampsTell
  BY DEF IInv
<1> QED BY <1>1, Inductive, PTL
-----------------------------------------------------------------------------
(* The pointer.                                                            *)

(* Whether there is room for the events of a commit does not depend on the
   automatic monitor. *)
LEMMA SameEvents ==
  ASSUME NEW r, Typed(r), NEW w, NEW kinds
  PROVE  append_randr_events(update_automatic_randr_monitors(r), w, kinds)
           = append_randr_events(r, w, kinds)
<1> PICK u : u = update_automatic_randr_monitors(r)
  OBVIOUS
<1>1. u.modes = r.modes /\ u.current_mode = r.current_mode /\ u.crtc_x = r.crtc_x
  BY UpdatedParts
<1>2. CrtcWidth(u) = CrtcWidth(r)
  BY <1>1 DEF CrtcWidth, Enabled
<1>3. Crtc(u) = Crtc(r)
  BY <1>1, <1>2 DEF Crtc
<1>4. append_randr_events(u, w, kinds) = append_randr_events(r, w, kinds)
  BY <1>1, <1>3 DEF append_randr_events
<1> QED BY <1>4

(* The pointer is on the screen after the step, or still off it, or moved to
   a place where it was held. *)
Stays ==
  pointer < width /\ ~(pointer' < width') =>
    frozen.on /\ \E i \in DOMAIN frozen.pending : frozen.pending[i] >= width

(* A request that keeps the size of the screen. *)
LEMMA RequestStays ==
  ASSUME IInv, NEW c \in Client, Requested(c)
  PROVE  Stays
<1>1. ASSUME NEW r, NEW kinds, commit_randr_state(c, r, kinds)
      PROVE  Stays
  <2>1. Commit(c, update_automatic_randr_monitors(r), width, kinds) /\ pointer' = pointer
    BY <1>1 DEF commit_randr_state
  <2>2. width' = width
    BY <2>1 DEF Commit
  <2> QED BY <2>1, <2>2 DEF Stays
<1>2. CASE Answer(c)
  BY <1>2 DEF Answer, Stays
<1> QED BY <1>1, <1>2 DEF Requested

(* A screen that shrinks takes the pointer with it. *)
LEMMA ResizeStays ==
  ASSUME IInv, NEW c \in Client, NEW w \in Extents, SetScreenSize(c, w)
  PROVE  Stays
<1>1. CASE w \in 1..MaxExtent /\ (Enabled(randr) => FitsScreen(randr, w))
  <2>1. resize_randr_screen(c, randr, w)
    BY <1>1 DEF SetScreenSize
  <2>2. /\ Commit(c, update_automatic_randr_monitors(randr), w, Kind) /\ Kind # {}
        /\ pointer' = IF Room(c, append_randr_events(randr, w, Kind))
                      THEN Clamped(pointer, w) ELSE pointer
    BY <2>1 DEF resize_randr_screen, Kind
  <2>3. Typed(randr) /\ pointer \in Nat
    BY StateSound DEF Sound
  <2>4. append_randr_events(update_automatic_randr_monitors(randr), w, Kind)
          = append_randr_events(randr, w, Kind)
    BY <2>3, SameEvents
  <2>5. CASE Room(c, append_randr_events(randr, w, Kind))
    <3>1. width' = w
      BY <2>2, <2>4, <2>5, CommitEffect
    <3>2. Clamped(pointer, w) < w
      BY <1>1, <2>3, ClampedIsOn, RandrAssumption
    <3> QED BY <2>2, <2>5, <3>1, <3>2 DEF Stays
  <2>6. CASE ~Room(c, append_randr_events(randr, w, Kind))
    <3>1. width' = width
      BY <2>2, <2>4, <2>6, CommitEffect
    <3> QED BY <2>2, <2>6, <3>1 DEF Stays
  <2> QED BY <2>5, <2>6
<1>2. CASE ~(w \in 1..MaxExtent /\ (Enabled(randr) => FitsScreen(randr, w)))
  BY <1>2 DEF SetScreenSize, Answer, Stays
<1> QED BY <1>1, <1>2

(* Only the moves that were held are made on a screen that may have shrunk. *)
LEMMA MovesStay ==
  ASSUME IInv, (\E x \in Positions : MovePointer(x)) \/ Freeze \/ AllowEvents
  PROVE  Stays
<1>1. /\ width' = width /\ width \in Nat \ {0} /\ pointer \in Nat
      /\ frozen \in [on : BOOLEAN, pending : Seq(Nat)]
  BY RandrAssumption DEF MovePointer, Freeze, AllowEvents, IInv, TypeOK
<1>2. ASSUME NEW x \in Positions, MovePointer(x)
      PROVE  Stays
  <2>1. Clamped(x, width) < width
    BY <1>1, ClampedIsOn, RandrAssumption
  <2> QED BY <1>1, <1>2, <2>1 DEF MovePointer, Stays
<1>3. CASE Freeze
  BY <1>1, <1>3 DEF Freeze, Stays
<1>4. CASE AllowEvents
  <2>1. CASE frozen.pending = <<>>
    BY <1>1, <1>4, <2>1 DEF AllowEvents, Stays
  <2>2. CASE frozen.pending # <<>>
    <3> DEFINE last == Len(frozen.pending)
    <3>1. last \in DOMAIN frozen.pending /\ frozen.pending[last] \in Nat
      BY <1>1, <2>2
    <3>2. frozen.on /\ pointer' = frozen.pending[last]
      BY <1>4, <2>2 DEF AllowEvents, Last
    <3> QED BY <1>1, <3>1, <3>2 DEF Stays
  <2> QED BY <2>1, <2>2
<1> QED BY <1>2, <1>3, <1>4

(* No step but AllowEvents takes the pointer off the screen. *)
LEMMA NextStays == IInv /\ [Next]_vars => Stays
<1> SUFFICES ASSUME IInv, [Next]_vars
             PROVE  Stays
  OBVIOUS
<1>1. ASSUME NEW c \in Client, Requested(c) \/ \E w \in Extents : SetScreenSize(c, w)
      PROVE  Stays
  BY <1>1, RequestStays, ResizeStays
<1>2. CASE \/ \E c \in Client, kinds \in SUBSET Kind : select_randr_input(c, kinds)
           \/ \E c \in Follower \cup Timestamped : Ask(c)
  BY <1>2 DEF Ask, select_randr_input, Stays
<1>3. CASE (\E x \in Positions : MovePointer(x)) \/ Freeze \/ AllowEvents
  BY <1>3, MovesStay
<1>4. CASE UNCHANGED vars
  BY <1>4 DEF vars, Stays
<1> QED BY <1>1, <1>2, <1>3, <1>4, Steps

(* The pointer stays on a screen that is resized, unless it was frozen. *)
THEOREM PointerStaysOnScreen == Spec => PointerStays
<1>1. IInv /\ [Next]_vars => [Stays]_vars
  BY NextStays
<1> QED BY <1>1, Inductive, PTL DEF Spec, PointerStays, Stays
-----------------------------------------------------------------------------
(* What clients know.                                                      *)

(***************************************************************************)
(* A client that selected events hears of a change by the events of the    *)
(* commit, one after the other.  What it hears of and what it asked for is *)
(* then the state, or something it must ask for again.                     *)
(***************************************************************************)
Topic == Kind \cup {"monitors"}
Content == Nat \cup [mode : 0..MaxModeId, width : Nat, x : Nat] \cup {Unknown}
Notice == [kind : Kind, content : Content]

(* What a client knows that selected some kinds of events.  It is told of a
   change of the monitors as of one of the CRTC or of the resources. *)
Knows(known, selected, r, w) ==
  /\ DOMAIN known = Topic
  /\ "screen" \in selected => known["screen"] = w
  /\ "crtc" \in selected => known["crtc"] \in {Unknown, Crtc(r)}
  /\ "output" \in selected => known["output"] \in {Unknown, r.current_mode}
  /\ "resources" \in selected => known["resources"] \in {Unknown, Resources(r)}
  /\ known["monitors"] \in {Unknown, r.monitors}
  /\ known["monitors"] # Unknown => {"crtc", "resources"} \subseteq selected

(* What it knows once it has read what is queued for it. *)
Heard(d) == Learned(seen[d], queue[d])

KInv ==
  /\ queue \in [Client -> Seq(Notice)] /\ DOMAIN seen = Client
  /\ \A d \in Client : Knows(Heard(d), masks[d], randr, width)

(* What is true of 0, and of each number if of the one before, is true.    *)
LEMMA StepByStep ==
  ASSUME NEW n \in Nat, NEW Good, 0 \in Good,
         \A i \in 0..(n - 1) : i \in Good => i + 1 \in Good
  PROVE  n \in Good
<1> SUFFICES ASSUME n \notin Good PROVE FALSE
  OBVIOUS
<1> DEFINE Bad == (0..n) \ Good
<1>1. Bad \subseteq Nat /\ Bad # {}
  OBVIOUS
<1>2. \E x \in Bad : \A y \in Bad : ~ (<<y, x>> \in OpToRel(<, Nat))
  BY <1>1, WFMin, NatLessThanWellFounded, Zenon
<1>3. PICK x \in Bad : \A y \in Bad : ~ (y < x)
  BY <1>1, <1>2, Zenon DEF OpToRel
<1>4. x > 0 /\ x - 1 \in 0..(n - 1)
  OBVIOUS
<1>5. x - 1 \notin Bad
  BY <1>3
<1> QED
  BY <1>4, <1>5

(* f is what is known after each of the first n events. *)
Runs(f, known, events, n) ==
  f[0] = known /\ \A i \in 1..n : f[i] = Learn(f[i - 1], events[i])

LEMMA LearnedRuns ==
  ASSUME NEW known, NEW events, Len(events) \in Nat
  PROVE  \E f : /\ Runs(f, known, events, Len(events))
                /\ Learned(known, events) = f[Len(events)]
<1> DEFINE n == Len(events)
           Part(f, k) == [i \in 0..k |-> IF i = 0 THEN known ELSE Learn(f[i - 1], events[i])]
           Good == {k \in 0..n : \E f : f = Part(f, k)}
<1> HIDE DEF n
<1>1. n \in Nat
  BY DEF n
<1>2. 0 \in Good
  <2> DEFINE f == [i \in 0..0 |-> known]
  <2>1. f = Part(f, 0)
    OBVIOUS
  <2> HIDE DEF f
  <2> QED BY <1>1, <2>1
<1>3. ASSUME NEW k \in 0..(n - 1), k \in Good PROVE k + 1 \in Good
  <2>1. PICK f : f = Part(f, k)
    BY <1>3
  <2> DEFINE g == [i \in 0..(k + 1) |-> IF i = k + 1 THEN Learn(f[k], events[k + 1]) ELSE f[i]]
  <2>2. \A i \in 0..k : f[i] = IF i = 0 THEN known ELSE Learn(f[i - 1], events[i])
    BY <2>1
  <2>3. (\A i \in 0..k : g[i] = f[i]) /\ g[k + 1] = Learn(f[k], events[k + 1])
    BY <1>1
  <2>4. g = [i \in 0..(k + 1) |-> g[i]]
    OBVIOUS
  <2> HIDE DEF g
  <2>5. \A i \in 0..(k + 1) : g[i] = IF i = 0 THEN known ELSE Learn(g[i - 1], events[i])
    <3> TAKE i \in 0..(k + 1)
    <3>1. CASE i = k + 1
      <4>1. k \in 0..k /\ i # 0 /\ i - 1 = k
        BY <1>1, <3>1
      <4> QED BY <2>3, <3>1, <4>1
    <3>2. CASE i \in 0..k
      <4>1. i # 0 => i - 1 \in 0..k
        BY <1>1, <3>2
      <4> QED BY <2>2, <2>3, <3>2, <4>1
    <3> QED BY <1>1, <3>1, <3>2
  <2>6. g = Part(g, k + 1)
    BY <2>4, <2>5
  <2>7. k + 1 \in 0..n
    BY <1>1
  <2> QED BY <2>6, <2>7
<1> HIDE DEF Part
<1>4. n \in Good
  <2> HIDE DEF Good
  <2> QED BY <1>1, <1>2, <1>3, StepByStep
<1>5. \E f : f = Part(f, n)
  BY <1>4
<1> DEFINE run == CHOOSE f : f = Part(f, n)
<1>6. run = Part(run, n)
  BY <1>5
<1>7. Learned(known, events) = run[n]
  BY DEF Learned, Part, n
<1> HIDE DEF run
<1>8. \A i \in 0..n : run[i] = IF i = 0 THEN known ELSE Learn(run[i - 1], events[i])
  BY <1>6 DEF Part
<1>9. Runs(run, known, events, n)
  BY <1>1, <1>8 DEF Runs
<1> QED BY <1>7, <1>9 DEF n

(* Lists that begin with the same n events. *)
Alike(events, more, n) == \A i \in 1..n : events[i] = more[i]

LEMMA RunsAgree ==
  ASSUME NEW known, NEW events, NEW more, NEW n \in Nat, NEW f, NEW g,
         Runs(f, known, events, n), Runs(g, known, more, n),
         Alike(events, more, n)
  PROVE  f[n] = g[n]
<1> DEFINE Good == {i \in 0..n : f[i] = g[i]}
<1>1. 0 \in Good
  BY DEF Runs
<1>2. ASSUME NEW i \in 0..(n - 1), i \in Good PROVE i + 1 \in Good
  <2>1. i + 1 \in 1..n /\ (i + 1) - 1 = i
    OBVIOUS
  <2> QED BY <1>2, <2>1 DEF Runs, Alike
<1> HIDE DEF Good
<1>3. n \in Good
  BY <1>1, <1>2, StepByStep
<1> QED BY <1>3 DEF Good

(* Nothing is learned from no event, and one thing from one more. *)
LEMMA LearnedNothing ==
  ASSUME NEW known
  PROVE  Learned(known, <<>>) = known
<1>1. Len(<<>>) = 0
  OBVIOUS
<1>2. PICK f : Runs(f, known, <<>>, 0) /\ Learned(known, <<>>) = f[0]
  BY <1>1, LearnedRuns
<1> QED BY <1>2 DEF Runs

LEMMA LearnedMore ==
  ASSUME NEW known, NEW events \in Seq(Notice), NEW e \in Notice
  PROVE  Learned(known, Append(events, e)) = Learn(Learned(known, events), e)
<1> PICK n, more : n = Len(events) /\ more = Append(events, e)
  OBVIOUS
<1>1. /\ n \in Nat /\ Len(more) = n + 1 /\ more[n + 1] = e
      /\ \A i \in 1..n : more[i] = events[i]
  <2>1. n \in Nat
    BY LenProperties
  <2>2. /\ Len(more) = Len(events) + 1 /\ more[Len(events) + 1] = e
        /\ \A i \in 1..Len(events) : more[i] = events[i]
    BY AppendProperties
  <2> QED BY <2>1, <2>2
<1>2. PICK f : Runs(f, known, events, n) /\ Learned(known, events) = f[n]
  BY <1>1, LearnedRuns
<1>3. PICK g : Runs(g, known, more, n + 1) /\ Learned(known, more) = g[n + 1]
  <2>1. Len(more) \in Nat
    BY <1>1
  <2>2. PICK g : Runs(g, known, more, Len(more)) /\ Learned(known, more) = g[Len(more)]
    BY <2>1, LearnedRuns
  <2> QED BY <1>1, <2>2
<1>4. Runs(g, known, more, n) /\ g[n + 1] = Learn(g[n], e)
  <2>1. n + 1 \in 1..(n + 1) /\ (n + 1) - 1 = n /\ 1..n \subseteq 1..(n + 1)
    BY <1>1
  <2> QED BY <1>1, <1>3, <2>1 DEF Runs
<1>5. f[n] = g[n]
  <2>1. Alike(events, more, n)
    BY <1>1 DEF Alike
  <2>2. n \in Nat /\ Runs(f, known, events, n) /\ Runs(g, known, more, n)
    BY <1>1, <1>2, <1>4
  <2> QED BY <2>1, <2>2, RunsAgree
<1> QED BY <1>2, <1>3, <1>4, <1>5

(* An event of one kind for who selected it, after others, and what is then
   known. *)
One(k, content, selected) ==
  IF k \in selected THEN <<[kind |-> k, content |-> content]>> ELSE <<>>
Step(known, k, content, selected) ==
  IF k \in selected THEN Learn(known, [kind |-> k, content |-> content]) ELSE known

LEMMA LearnedOne ==
  ASSUME NEW known, NEW events \in Seq(Notice), NEW k \in Kind, NEW content \in Content,
         NEW selected
  PROVE  /\ One(k, content, selected) \in Seq(Notice)
         /\ events \o One(k, content, selected) \in Seq(Notice)
         /\ Learned(known, events \o One(k, content, selected))
              = Step(Learned(known, events), k, content, selected)
<1>a. PICK e : e = [kind |-> k, content |-> content]
  OBVIOUS
<1>1. e \in Notice /\ <<e>> \in Seq(Notice) /\ << >> \in Seq(Notice)
  BY <1>a DEF Notice
<1>2. CASE k \in selected
  <2>1. One(k, content, selected) = <<e>> /\ events \o <<e>> = Append(events, e)
        /\ Append(events, e) \in Seq(Notice)
    BY <1>a, <1>1, <1>2 DEF One
  <2>2. Learned(known, Append(events, e)) = Learn(Learned(known, events), e)
    BY <1>1, LearnedMore
  <2> QED BY <1>a, <1>1, <1>2, <2>1, <2>2 DEF Step
<1>3. CASE k \notin selected
  <2>1. One(k, content, selected) = << >> /\ events \o << >> = events
    BY <1>3 DEF One
  <2> QED BY <1>1, <1>3, <2>1 DEF Step
<1> QED BY <1>2, <1>3

LEMMA StepIs ==
  ASSUME NEW known, DOMAIN known = Topic, NEW k \in Kind, NEW content, NEW selected,
         NEW after, after = Step(known, k, content, selected)
  PROVE  /\ DOMAIN after = Topic
         /\ after[k] = IF k \in selected THEN content ELSE known[k]
         /\ \A j \in Kind : j # k => after[j] = known[j]
         /\ after["monitors"] = IF k \in selected /\ (k = "crtc" \/ k = "resources")
                                THEN Unknown ELSE known["monitors"]
<1> PICK e : e = [kind |-> k, content |-> content]
  OBVIOUS
<1>e. e.kind = k /\ e.content = content
  OBVIOUS
<1> PICK l : l = Learn(known, e)
  OBVIOUS
<1>1. k # "monitors" /\ k \in Topic /\ "monitors" \in Topic /\ Kind \subseteq Topic
      /\ "monitors" \notin Kind
  BY DEF Kind, Topic
<1>2. l = [[known EXCEPT ![k] = content] EXCEPT !["monitors"] =
                 IF k \in {"crtc", "resources"} THEN Unknown ELSE known["monitors"]]
  BY <1>1, <1>e DEF Learn
<1>3. /\ DOMAIN l = Topic /\ l[k] = content
      /\ \A j \in Kind : j # k => l[j] = known[j]
      /\ l["monitors"] = IF k = "crtc" \/ k = "resources" THEN Unknown ELSE known["monitors"]
  BY <1>1, <1>2
<1>4. after = IF k \in selected THEN l ELSE known
  BY DEF Step
<1> QED BY <1>1, <1>3, <1>4

(* The events of a commit, one kind after the other.                       *)
LEMMA PlanIs ==
  ASSUME NEW r, NEW w, NEW kinds, NEW d \in Client, NEW selected, selected = masks[d] \cap kinds
  PROVE  append_randr_events(r, w, kinds)[d]
           = One("screen", w, selected) \o One("crtc", Crtc(r), selected)
               \o One("output", r.current_mode, selected) \o One("resources", Unknown, selected)
BY DEF append_randr_events, One

(* What is known after them is what they tell, or what was known before.   *)
LEMMA PlanTells ==
  ASSUME NEW known, NEW events \in Seq(Notice), DOMAIN Learned(known, events) = Topic,
         NEW selected, NEW screen \in Content, NEW crtc \in Content, NEW output \in Content
  PROVE  LET plan == One("screen", screen, selected) \o One("crtc", crtc, selected)
                       \o One("output", output, selected) \o One("resources", Unknown, selected)
             before == Learned(known, events)
             after == Learned(known, events \o plan)
         IN /\ plan \in Seq(Notice) /\ events \o plan \in Seq(Notice)
            /\ DOMAIN after = Topic
            /\ after["screen"] = IF "screen" \in selected THEN screen ELSE before["screen"]
            /\ after["crtc"] = IF "crtc" \in selected THEN crtc ELSE before["crtc"]
            /\ after["output"] = IF "output" \in selected THEN output ELSE before["output"]
            /\ after["resources"] = IF "resources" \in selected THEN Unknown
                                    ELSE before["resources"]
            /\ after["monitors"] = IF "crtc" \in selected \/ "resources" \in selected
                                   THEN Unknown ELSE before["monitors"]
<1>1. "screen" \in Kind /\ "crtc" \in Kind /\ "output" \in Kind /\ "resources" \in Kind
      /\ Unknown \in Content
  BY DEF Kind, Content
<1>a. PICK a, b, c, d : /\ a = One("screen", screen, selected) /\ b = One("crtc", crtc, selected)
                        /\ c = One("output", output, selected)
                        /\ d = One("resources", Unknown, selected)
  OBVIOUS
<1>q. PICK q1, q2, q3, q4 : q1 = events \o a /\ q2 = q1 \o b /\ q3 = q2 \o c /\ q4 = q3 \o d
  OBVIOUS
<1>k. PICK k0, k1, k2, k3, k4 :
        /\ k0 = Learned(known, events) /\ k1 = Learned(known, q1) /\ k2 = Learned(known, q2)
        /\ k3 = Learned(known, q3) /\ k4 = Learned(known, q4)
  OBVIOUS
<1>2. a \in Seq(Notice) /\ q1 \in Seq(Notice) /\ k1 = Step(k0, "screen", screen, selected)
  <2>1. a = One("screen", screen, selected) /\ q1 = events \o a
    BY <1>a, <1>q
  <2>2. /\ One("screen", screen, selected) \in Seq(Notice) /\ events \o One("screen", screen, selected) \in Seq(Notice)
        /\ Learned(known, events \o One("screen", screen, selected)) = Step(Learned(known, events), "screen", screen, selected)
    BY <1>1, <2>1, LearnedOne
  <2> QED BY <1>k, <2>1, <2>2
<1>3. b \in Seq(Notice) /\ q2 \in Seq(Notice) /\ k2 = Step(k1, "crtc", crtc, selected)
  <2>1. b = One("crtc", crtc, selected) /\ q2 = q1 \o b /\ q1 \in Seq(Notice)
    BY <1>a, <1>q, <1>2
  <2>2. /\ One("crtc", crtc, selected) \in Seq(Notice) /\ q1 \o One("crtc", crtc, selected) \in Seq(Notice)
        /\ Learned(known, q1 \o One("crtc", crtc, selected)) = Step(Learned(known, q1), "crtc", crtc, selected)
    BY <1>1, <2>1, LearnedOne
  <2> QED BY <1>k, <2>1, <2>2
<1>4. c \in Seq(Notice) /\ q3 \in Seq(Notice) /\ k3 = Step(k2, "output", output, selected)
  <2>1. c = One("output", output, selected) /\ q3 = q2 \o c /\ q2 \in Seq(Notice)
    BY <1>a, <1>q, <1>3
  <2>2. /\ One("output", output, selected) \in Seq(Notice) /\ q2 \o One("output", output, selected) \in Seq(Notice)
        /\ Learned(known, q2 \o One("output", output, selected)) = Step(Learned(known, q2), "output", output, selected)
    BY <1>1, <2>1, LearnedOne
  <2> QED BY <1>k, <2>1, <2>2
<1>5. d \in Seq(Notice) /\ q4 \in Seq(Notice) /\ k4 = Step(k3, "resources", Unknown, selected)
  <2>1. d = One("resources", Unknown, selected) /\ q4 = q3 \o d /\ q3 \in Seq(Notice)
    BY <1>a, <1>q, <1>4
  <2>2. /\ One("resources", Unknown, selected) \in Seq(Notice) /\ q3 \o One("resources", Unknown, selected) \in Seq(Notice)
        /\ Learned(known, q3 \o One("resources", Unknown, selected)) = Step(Learned(known, q3), "resources", Unknown, selected)
    BY <1>1, <2>1, LearnedOne
  <2> QED BY <1>k, <2>1, <2>2
<1>6. events \o (a \o b \o c \o d) = q4 /\ a \o b \o c \o d \in Seq(Notice)
  <2>1. PICK ab, abc, abcd : ab = a \o b /\ abc = ab \o c /\ abcd = abc \o d
    OBVIOUS
  <2>2. /\ a \in Seq(Notice) /\ b \in Seq(Notice) /\ c \in Seq(Notice) /\ d \in Seq(Notice)
    BY <1>2, <1>3, <1>4, <1>5
  <2>3. ab \in Seq(Notice)
    BY <2>1, <2>2, ConcatProperties
  <2>4. abc \in Seq(Notice)
    BY <2>1, <2>2, <2>3, ConcatProperties
  <2>5. abcd \in Seq(Notice)
    BY <2>1, <2>2, <2>4, ConcatProperties
  <2>6. (events \o abc) \o d = events \o (abc \o d)
    <3>1. \A t \in Seq(Notice), u \in Seq(Notice) : (events \o t) \o u = events \o (t \o u)
      BY ConcatAssociative, SMTT(40)
    <3> QED BY <2>2, <2>4, <3>1, Zenon
  <2>7. (events \o ab) \o c = events \o (ab \o c)
    <3>1. \A t \in Seq(Notice), u \in Seq(Notice) : (events \o t) \o u = events \o (t \o u)
      BY ConcatAssociative
    <3> QED BY <2>2, <2>3, <3>1, Zenon
  <2>8. (events \o a) \o b = events \o (a \o b)
    <3>1. \A t \in Seq(Notice), u \in Seq(Notice) : (events \o t) \o u = events \o (t \o u)
      BY ConcatAssociative
    <3> QED BY <2>2, <3>1, Zenon
  <2>9. events \o abcd = q4 /\ a \o b \o c \o d = abcd
    BY <1>q, <2>1, <2>6, <2>7, <2>8, Zenon
  <2> QED BY <2>5, <2>9
<1>7. DOMAIN k0 = Topic
  BY <1>k
<1>8. /\ DOMAIN k1 = Topic /\ k1["screen"] = IF "screen" \in selected THEN screen ELSE k0["screen"]
      /\ k1["crtc"] = k0["crtc"] /\ k1["output"] = k0["output"]
      /\ k1["resources"] = k0["resources"] /\ k1["monitors"] = k0["monitors"]
  <2>1. /\ DOMAIN k1 = Topic /\ k1["screen"] = IF "screen" \in selected THEN screen ELSE k0["screen"]
        /\ \A j \in Kind : j # "screen" => k1[j] = k0[j]
        /\ k1["monitors"] = IF "screen" \in selected /\ ("screen" = "crtc" \/ "screen" = "resources")
                            THEN Unknown ELSE k0["monitors"]
    BY <1>1, <1>2, <1>7, StepIs
  <2> QED BY <1>1, <2>1
<1>9. /\ DOMAIN k2 = Topic /\ k2["crtc"] = IF "crtc" \in selected THEN crtc ELSE k1["crtc"]
      /\ k2["screen"] = k1["screen"] /\ k2["output"] = k1["output"]
      /\ k2["resources"] = k1["resources"]
      /\ k2["monitors"] = IF "crtc" \in selected THEN Unknown ELSE k1["monitors"]
  <2>1. /\ DOMAIN k2 = Topic /\ k2["crtc"] = IF "crtc" \in selected THEN crtc ELSE k1["crtc"]
        /\ \A j \in Kind : j # "crtc" => k2[j] = k1[j]
        /\ k2["monitors"] = IF "crtc" \in selected THEN Unknown ELSE k1["monitors"]
    BY <1>1, <1>3, <1>8, StepIs
  <2> QED BY <1>1, <2>1
<1>10. /\ DOMAIN k3 = Topic /\ k3["output"] = IF "output" \in selected THEN output ELSE k2["output"]
       /\ k3["screen"] = k2["screen"] /\ k3["crtc"] = k2["crtc"]
       /\ k3["resources"] = k2["resources"] /\ k3["monitors"] = k2["monitors"]
  <2>1. /\ DOMAIN k3 = Topic /\ k3["output"] = IF "output" \in selected THEN output ELSE k2["output"]
        /\ \A j \in Kind : j # "output" => k3[j] = k2[j]
        /\ k3["monitors"] = IF "output" \in selected /\ ("output" = "crtc" \/ "output" = "resources")
                            THEN Unknown ELSE k2["monitors"]
    BY <1>1, <1>4, <1>9, StepIs
  <2> QED BY <1>1, <2>1
<1>11. /\ DOMAIN k4 = Topic
       /\ k4["resources"] = IF "resources" \in selected THEN Unknown ELSE k3["resources"]
       /\ k4["screen"] = k3["screen"] /\ k4["crtc"] = k3["crtc"] /\ k4["output"] = k3["output"]
       /\ k4["monitors"] = IF "resources" \in selected THEN Unknown ELSE k3["monitors"]
  <2>1. /\ DOMAIN k4 = Topic
        /\ k4["resources"] = IF "resources" \in selected THEN Unknown ELSE k3["resources"]
        /\ \A j \in Kind : j # "resources" => k4[j] = k3[j]
        /\ k4["monitors"] = IF "resources" \in selected THEN Unknown ELSE k3["monitors"]
    BY <1>1, <1>5, <1>10, StepIs
  <2> QED BY <1>1, <2>1
<1>12. /\ k4["screen"] = IF "screen" \in selected THEN screen ELSE k0["screen"]
       /\ k4["crtc"] = IF "crtc" \in selected THEN crtc ELSE k0["crtc"]
       /\ k4["output"] = IF "output" \in selected THEN output ELSE k0["output"]
       /\ k4["resources"] = IF "resources" \in selected THEN Unknown ELSE k0["resources"]
       /\ k4["monitors"] = IF "crtc" \in selected \/ "resources" \in selected
                           THEN Unknown ELSE k0["monitors"]
  BY <1>8, <1>9, <1>10, <1>11
<1> QED BY <1>a, <1>k, <1>5, <1>6, <1>11, <1>12

-----------------------------------------------------------------------------
LEMMA ToldKnows ==
  ASSUME NEW before, NEW after, NEW m, NEW kinds, NEW selected, selected = m \cap kinds,
         NEW r, NEW w, NEW newr, NEW neww,
         Knows(before, m, r, w), Announced(kinds, r, w, newr, neww), DOMAIN after = Topic,
         after["screen"] = IF "screen" \in selected THEN neww ELSE before["screen"],
         after["crtc"] = IF "crtc" \in selected THEN Crtc(newr) ELSE before["crtc"],
         after["output"] = IF "output" \in selected THEN newr.current_mode ELSE before["output"],
         after["resources"] = IF "resources" \in selected THEN Unknown ELSE before["resources"],
         after["monitors"] = IF "crtc" \in selected \/ "resources" \in selected
                             THEN Unknown ELSE before["monitors"]
  PROVE  Knows(after, m, newr, neww)
<1>1. "screen" \in m => after["screen"] = neww
  BY DEF Knows, Announced
<1>2. "crtc" \in m => after["crtc"] \in {Unknown, Crtc(newr)}
  BY DEF Knows, Announced
<1>3. "output" \in m => after["output"] \in {Unknown, newr.current_mode}
  BY DEF Knows, Announced
<1>4. "resources" \in m => after["resources"] \in {Unknown, Resources(newr)}
  BY DEF Knows, Announced
<1>5. after["monitors"] = Unknown
  BY DEF Knows, Announced
<1> QED BY <1>1, <1>2, <1>3, <1>4, <1>5 DEF Knows

(* The automatic monitor is nothing that an event tells of. *)
LEMMA UpdatedTells ==
  ASSUME NEW r, NEW w, Sound(r, w)
  PROVE  LET u == update_automatic_randr_monitors(r)
         IN /\ Crtc(u) = Crtc(r) /\ Resources(u) = Resources(r)
            /\ u.current_mode = r.current_mode
            /\ w \in Content /\ Crtc(u) \in Content /\ u.current_mode \in Content
<1> PICK u : u = update_automatic_randr_monitors(r)
  OBVIOUS
<1>1. /\ u.modes = r.modes /\ u.output_modes = r.output_modes
      /\ u.current_mode = r.current_mode /\ u.crtc_x = r.crtc_x
      /\ u.primary_output = r.primary_output
  <2>1. /\ u.modes = r.modes /\ u.output_modes = r.output_modes
        /\ u.current_mode = r.current_mode /\ u.crtc_x = r.crtc_x
    BY UpdatedParts DEF Sound
  <2>2. u.primary_output = r.primary_output
    <3>1. \E M : u = [r EXCEPT !.monitors = M]
      BY Zenon DEF update_automatic_randr_monitors
    <3>2. PICK M : u = [r EXCEPT !.monitors = M]
      BY <3>1
    <3> QED BY <3>2, Fields DEF Sound
  <2> QED BY <2>1, <2>2
<1>2. CrtcWidth(u) = CrtcWidth(r)
  BY <1>1 DEF CrtcWidth, Enabled
<1>3. Crtc(u) = Crtc(r) /\ Resources(u) = Resources(r)
  BY <1>1, <1>2 DEF Crtc, Resources
<1>4. /\ r.modes \in [DOMAIN r.modes -> Mode] /\ r.current_mode \in 0..MaxModeId
      /\ r.crtc_x \in Nat /\ MaxModeId \in Nat /\ w \in Nat
  BY Fields, RandrAssumption DEF Sound
<1>5. CrtcWidth(r) \in Nat
  BY <1>4 DEF CrtcWidth, Enabled, Mode
<1>6. Crtc(r) \in [mode : 0..MaxModeId, width : Nat, x : Nat]
  BY <1>4, <1>5 DEF Crtc
<1>7. w \in Content /\ Crtc(u) \in Content /\ u.current_mode \in Content
  BY <1>1, <1>3, <1>4, <1>6 DEF Content
<1> QED BY <1>1, <1>3, <1>7

(* The client that asks has read what was queued for it. *)
LEMMA Drained ==
  ASSUME KInv, NEW c \in Client, seen' = [seen EXCEPT ![c] = Learned(@, queue[c])],
         NEW d \in Client
  PROVE  /\ Queues(c)[d] \in Seq(Notice) /\ Learned(seen'[d], Queues(c)[d]) = Heard(d)
         /\ DOMAIN seen' = Client /\ DOMAIN Queues(c) = Client
<1>1. queue \in [Client -> Seq(Notice)] /\ DOMAIN seen = Client
  BY DEF KInv
<1>2. CASE d = c
  <2>1. Queues(c)[d] = <<>> /\ seen'[d] = Learned(seen[d], queue[d])
    BY <1>1, <1>2 DEF Queues
  <2>2. Learned(seen'[d], <<>>) = seen'[d]
    BY LearnedNothing
  <2>3. <<>> \in Seq(Notice)
    OBVIOUS
  <2> QED BY <1>1, <2>1, <2>2, <2>3 DEF Heard, Queues
<1>3. CASE d # c
  BY <1>1, <1>3 DEF Heard, Queues
<1> QED BY <1>2, <1>3

(* A client knows of a commit what it is told of it. *)
LEMMA CommitKnows ==
  ASSUME IInv, KInv, NEW c \in Client, NEW r, NEW w, Sound(r, w), NEW kinds,
         Announced(kinds, randr, width, r, w),
         Commit(c, update_automatic_randr_monitors(r), w, kinds)
  PROVE  KInv'
<1>a. PICK u : u = update_automatic_randr_monitors(r)
  OBVIOUS
<1>1. /\ Crtc(u) = Crtc(r) /\ Resources(u) = Resources(r) /\ u.current_mode = r.current_mode
      /\ w \in Content /\ Crtc(u) \in Content /\ u.current_mode \in Content
  BY <1>a, UpdatedTells
<1>2. Announced(kinds, randr, width, u, w)
  BY <1>1 DEF Announced
<1>b. PICK plan, fits : plan = append_randr_events(u, w, kinds) /\ fits = Room(c, plan)
  OBVIOUS
<1>3. /\ queue' = [d \in Client |-> Queues(c)[d] \o (IF fits THEN plan[d] ELSE <<>>)]
      /\ seen' = [seen EXCEPT ![c] = Learned(@, queue[c])]
      /\ width' = (IF fits THEN w ELSE width) /\ randr' = (IF fits THEN u ELSE randr)
      /\ masks' = masks
  BY <1>a, <1>b DEF Commit
<1>4. ASSUME NEW d \in Client
      PROVE  queue'[d] \in Seq(Notice) /\ Knows(Heard(d)', masks[d], randr', width')
  <2>a. PICK q, known, before, m, selected :
          /\ q = Queues(c)[d] /\ known = seen'[d] /\ before = Heard(d) /\ m = masks[d]
          /\ selected = m \cap kinds
    OBVIOUS
  <2>1. q \in Seq(Notice) /\ Learned(known, q) = before
    BY <1>3, <2>a, Drained
  <2>2. Knows(before, m, randr, width) /\ DOMAIN before = Topic
    BY <2>a DEF KInv, Knows
  <2>3. CASE fits
    <3>a. PICK told, after : /\ told = One("screen", w, selected) \o One("crtc", Crtc(u), selected)
                                  \o One("output", u.current_mode, selected)
                                  \o One("resources", Unknown, selected)
                             /\ after = Learned(known, q \o told)
      OBVIOUS
    <3>b. DOMAIN Learned(known, q) = Topic
      BY <2>1, <2>2
    <3>1. /\ q \o told \in Seq(Notice)
          /\ DOMAIN after = Topic
          /\ after["screen"] = IF "screen" \in selected THEN w ELSE before["screen"]
          /\ after["crtc"] = IF "crtc" \in selected THEN Crtc(u) ELSE before["crtc"]
          /\ after["output"] = IF "output" \in selected THEN u.current_mode ELSE before["output"]
          /\ after["resources"] = IF "resources" \in selected THEN Unknown ELSE before["resources"]
          /\ after["monitors"] = IF "crtc" \in selected \/ "resources" \in selected
                                 THEN Unknown ELSE before["monitors"]
      BY <1>1, <2>1, <3>a, <3>b, PlanTells
    <3>2. Knows(after, m, u, w)
      BY <1>2, <2>a, <2>2, <3>1, ToldKnows
    <3>3. plan[d] = told
      <4>1. selected = masks[d] \cap kinds
        BY <2>a
      <4>2. append_randr_events(u, w, kinds)[d]
              = One("screen", w, selected) \o One("crtc", Crtc(u), selected)
                  \o One("output", u.current_mode, selected) \o One("resources", Unknown, selected)
        BY <4>1, PlanIs, SMTT(40)
      <4> QED BY <1>b, <3>a, <4>2
    <3>4. queue'[d] = q \o told /\ width' = w /\ randr' = u
      BY <1>3, <2>3, <2>a, <3>3
    <3>5. Heard(d)' = after
      BY <2>a, <3>a, <3>4 DEF Heard
    <3> QED BY <2>a, <3>1, <3>2, <3>4, <3>5
  <2>4. CASE ~fits
    <3>1. queue'[d] = q /\ width' = width /\ randr' = randr
      BY <1>3, <2>1, <2>4, <2>a
    <3>2. Heard(d)' = before
      BY <2>a, <2>1, <3>1 DEF Heard
    <3> QED BY <2>a, <2>1, <2>2, <3>1, <3>2
  <2> QED BY <2>3, <2>4
<1>5. DOMAIN queue' = Client /\ DOMAIN seen' = Client
  BY <1>3 DEF KInv
<1>6. queue' \in [Client -> Seq(Notice)]
  BY <1>3, <1>4, <1>5
<1> QED BY <1>3, <1>4, <1>5, <1>6 DEF KInv

LEMMA AnswerKnows ==
  ASSUME KInv, NEW c \in Client, Answer(c)
  PROVE  KInv'
<1>1. /\ queue' = Queues(c) /\ seen' = [seen EXCEPT ![c] = Learned(@, queue[c])]
      /\ UNCHANGED <<width, randr, masks>>
  BY DEF Answer
<1>2. ASSUME NEW d \in Client
      PROVE  queue'[d] \in Seq(Notice) /\ Knows(Heard(d)', masks[d], randr, width)
  <2>1. queue'[d] \in Seq(Notice) /\ Heard(d)' = Heard(d)
    BY <1>1, Drained DEF Heard
  <2> QED BY <2>1 DEF KInv
<1>3. DOMAIN queue' = Client /\ DOMAIN seen' = Client
  BY <1>1 DEF KInv, Queues
<1>4. queue' \in [Client -> Seq(Notice)]
  <2>1. queue' = [d \in Client |-> queue'[d]]
    BY <1>1, <1>3 DEF Queues, KInv
  <2> QED BY <1>2, <2>1
<1> QED BY <1>1, <1>2, <1>3, <1>4 DEF KInv

(* The requests. *)
LEMMA RequestKnows ==
  ASSUME IInv, KInv, NEW c \in Client, Requested(c)
  PROVE  KInv'
<1>1. CASE Answer(c)
  BY <1>1, AnswerKnows
<1>2. ASSUME NEW r, NEW kinds, Sound(r, width), Announced(kinds, randr, width, r, width),
             commit_randr_state(c, r, kinds)
      PROVE  KInv'
  <2>1. Commit(c, update_automatic_randr_monitors(r), width, kinds)
    BY <1>2 DEF commit_randr_state
  <2> QED BY <1>2, <2>1, CommitKnows
<1> QED BY <1>1, <1>2 DEF Requested

LEMMA ResizeKnows ==
  ASSUME IInv, KInv, NEW c \in Client, NEW w \in Extents, SetScreenSize(c, w)
  PROVE  KInv'
<1>1. CASE w \in 1..MaxExtent /\ (Enabled(randr) => FitsScreen(randr, w))
  <2>1. Sound(randr, w)
    BY <1>1, StateSound, ResizedSound
  <2>2. resize_randr_screen(c, randr, w)
    BY <1>1 DEF SetScreenSize
  <2>3. Commit(c, update_automatic_randr_monitors(randr), w, Kind)
    BY <2>2 DEF resize_randr_screen
  <2>4. Announced(Kind, randr, width, randr, w)
    BY DEF Announced, Kind
  <2> QED BY <2>1, <2>3, <2>4, CommitKnows
<1>2. CASE ~(w \in 1..MaxExtent /\ (Enabled(randr) => FitsScreen(randr, w)))
  BY <1>2, AnswerKnows DEF SetScreenSize
<1> QED BY <1>1, <1>2

(* Who asks is told what there is. *)
LEMMA AskKnows ==
  ASSUME IInv, KInv, NEW c \in Client, Ask(c)
  PROVE  KInv'
<1>1. UNCHANGED <<width, randr, masks>> /\ queue' = Queues(c)
  BY DEF Ask
<1>2. queue \in [Client -> Seq(Notice)] /\ DOMAIN seen = Client
  BY DEF KInv
<1>a. PICK answer, m : m = masks[c] /\ answer = [k \in Topic |->
       CASE k = "screen" /\ k \in m -> width
         [] k = "crtc" /\ k \in m -> Crtc(randr)
         [] k = "output" /\ k \in m -> randr.current_mode
         [] k = "resources" /\ k \in m -> Resources(randr)
         [] k = "monitors" /\ {"crtc", "resources"} \subseteq m -> randr.monitors
         [] OTHER -> Unknown]
  OBVIOUS
<1>3. seen' = [seen EXCEPT ![c] = answer]
  BY <1>a DEF Ask, Topic, Resources
<1>4. Knows(answer, m, randr, width)
  <2>1. "screen" \in Topic /\ "crtc" \in Topic /\ "output" \in Topic /\ "resources" \in Topic
        /\ "monitors" \in Topic
    BY DEF Topic, Kind
  <2>2. DOMAIN answer = Topic
    BY <1>a
  <2>3. "screen" \in m => answer["screen"] = width
    BY <1>a, <2>1
  <2>4. "crtc" \in m => answer["crtc"] = Crtc(randr)
    BY <1>a, <2>1
  <2>5. "output" \in m => answer["output"] = randr.current_mode
    BY <1>a, <2>1
  <2>6. "resources" \in m => answer["resources"] = Resources(randr)
    BY <1>a, <2>1
  <2>7. answer["monitors"] = IF {"crtc", "resources"} \subseteq m THEN randr.monitors ELSE Unknown
    BY <1>a, <2>1
  <2> QED BY <2>2, <2>3, <2>4, <2>5, <2>6, <2>7 DEF Knows
<1>5. ASSUME NEW d \in Client
      PROVE  queue'[d] \in Seq(Notice) /\ Knows(Heard(d)', masks[d], randr, width)
  <2>1. CASE d = c
    <3>1. queue'[d] = <<>> /\ seen'[d] = answer /\ <<>> \in Seq(Notice)
      BY <1>1, <1>2, <1>3, <2>1 DEF Queues
    <3>2. Learned(answer, <<>>) = answer
      BY LearnedNothing
    <3>3. Heard(d)' = answer
      BY <3>1, <3>2 DEF Heard
    <3> QED BY <1>a, <1>4, <2>1, <3>1, <3>3
  <2>2. CASE d # c
    <3>1. queue'[d] = queue[d] /\ seen'[d] = seen[d] /\ queue[d] \in Seq(Notice)
      BY <1>1, <1>2, <1>3, <2>2 DEF Queues
    <3>2. Heard(d)' = Heard(d)
      BY <3>1 DEF Heard
    <3> QED BY <3>1, <3>2 DEF KInv
  <2> QED BY <2>1, <2>2
<1>6. DOMAIN queue' = Client /\ DOMAIN seen' = Client /\ queue' = [d \in Client |-> queue'[d]]
  BY <1>1, <1>2, <1>3 DEF Queues
<1>7. queue' \in [Client -> Seq(Notice)]
  BY <1>5, <1>6
<1> QED BY <1>1, <1>5, <1>6, <1>7 DEF KInv

(* Who selects other events forgets what it is no longer told of. *)
LEMMA SelectKnows ==
  ASSUME IInv, KInv, NEW c \in Client, NEW kinds \in SUBSET Kind, select_randr_input(c, kinds)
  PROVE  KInv'
<1>p. PICK old, before, event :
        /\ old = masks[c] /\ before = Heard(c)
        /\ event = (IF "screen" \in kinds THEN <<[kind |-> "screen", content |-> width]>> ELSE <<>>)
  OBVIOUS
<1>f. PICK fits :
        fits = Fits(Queues(c), TotalEvents(Queues(c)), [d \in Client |-> IF d = c THEN event ELSE <<>>])
  OBVIOUS
<1>n. PICK new : new = (IF fits THEN kinds ELSE old)
  OBVIOUS
<1>k. PICK known :
        known = [k \in Topic |-> IF k = "monitors" \/ k \notin new \cap old THEN Unknown
                                  ELSE before[k]]
  OBVIOUS
<1>a. /\ old = masks[c] /\ new = (IF fits THEN kinds ELSE old) /\ before = Heard(c)
      /\ event = (IF "screen" \in kinds THEN <<[kind |-> "screen", content |-> width]>> ELSE <<>>)
      /\ fits = Fits(Queues(c), TotalEvents(Queues(c)), [d \in Client |-> IF d = c THEN event ELSE <<>>])
      /\ known = [k \in Topic |-> IF k = "monitors" \/ k \notin new \cap old THEN Unknown
                                  ELSE before[k]]
  BY <1>p, <1>f, <1>n, <1>k
<1>1. /\ queue \in [Client -> Seq(Notice)] /\ DOMAIN seen = Client
      /\ masks \in [Client -> SUBSET Kind] /\ Knows(before, old, randr, width)
  BY <1>a DEF KInv, IInv, TypeOK
<1>2. /\ queue' = [queue EXCEPT ![c] = IF fits THEN event ELSE <<>>]
      /\ masks' = [masks EXCEPT ![c] = new]
      /\ UNCHANGED <<width, randr>>
  BY <1>a DEF select_randr_input
<1>3. seen' = [seen EXCEPT ![c] = known]
  <2>1. masks'[c] = new
    BY <1>1, <1>2
  <2>2. seen' = [seen EXCEPT ![c] = [k \in Topic |->
          IF k = "monitors" \/ k \notin masks'[c] \cap masks[c] THEN Unknown
          ELSE Learned(@, queue[c])[k]]]
    BY DEF select_randr_input, Topic
  <2>3. seen' = [seen EXCEPT ![c] = [k \in Topic |->
          IF k = "monitors" \/ k \notin masks'[c] \cap masks[c] THEN Unknown
          ELSE before[k]]]
    BY <1>a, <2>2 DEF Heard
  <2> QED BY <1>a, <2>1, <2>3
<1>4. event \in Seq(Notice) /\ <<>> \in Seq(Notice) /\ "screen" \in Kind /\ width \in Content
  <2>1. "screen" \in Kind /\ width \in Content
    BY DEF Kind, Content, IInv, TypeOK
  <2>n. PICK w : w = width
    OBVIOUS
  <2>2. PICK e : e = [kind |-> "screen", content |-> width] /\ e \in Notice
    <3>1. [kind |-> "screen", content |-> w] \in Notice
      BY <2>1, <2>n DEF Notice
    <3> QED BY <2>n, <3>1
  <2>3. <<e>> \in Seq(Notice) /\ <<>> \in Seq(Notice)
    BY <2>2
  <2>4. event = (IF "screen" \in kinds THEN <<e>> ELSE <<>>)
    BY <1>a, <2>2
  <2> QED BY <2>1, <2>3, <2>4
<1>5. /\ DOMAIN known = Topic /\ known["monitors"] = Unknown
      /\ \A k \in Kind : known[k] = IF k \in new \cap old THEN before[k] ELSE Unknown
  <2>1. "monitors" \in Topic /\ Kind \subseteq Topic /\ "monitors" \notin Kind
    BY DEF Topic, Kind
  <2> QED BY <1>a, <2>1
<1>b. PICK after : after = Heard(c)'
  OBVIOUS
<1>6. Knows(after, new, randr, width)
  <2>1. seen'[c] = known /\ queue'[c] = (IF fits THEN event ELSE <<>>)
    BY <1>1, <1>2, <1>3
  <2>2. after = Learned(known, IF fits THEN event ELSE <<>>)
    BY <1>b, <2>1 DEF Heard
  <2>3. CASE fits
    <3>1. event = One("screen", width, kinds) /\ new = kinds
      BY <1>a, <2>3 DEF One
    <3>2. Learned(known, <<>> \o One("screen", width, kinds))
            = Step(Learned(known, <<>>), "screen", width, kinds)
      BY <1>4, LearnedOne, ZenonT(60)
    <3>3. <<>> \o event = event /\ Learned(known, <<>>) = known
      BY <1>4, LearnedNothing
    <3>4. after = Step(known, "screen", width, kinds)
      BY <2>2, <2>3, <3>1, <3>2, <3>3
    <3>5. /\ DOMAIN after = Topic
          /\ after["screen"] = IF "screen" \in kinds THEN width ELSE known["screen"]
          /\ \A j \in Kind : j # "screen" => after[j] = known[j]
          /\ after["monitors"] = IF "screen" \in kinds /\ ("screen" = "crtc" \/ "screen" = "resources")
                                 THEN Unknown ELSE known["monitors"]
      BY <1>4, <1>5, <3>4, StepIs
    <3>6. "crtc" \in Kind /\ "output" \in Kind /\ "resources" \in Kind
      BY DEF Kind
    <3> QED BY <1>1, <1>5, <3>1, <3>5, <3>6 DEF Knows
  <2>4. CASE ~fits
    <3>1. after = known /\ new = old
      BY <1>a, <2>2, <2>4, LearnedNothing
    <3>2. "screen" \in Kind /\ "crtc" \in Kind /\ "output" \in Kind /\ "resources" \in Kind
      BY DEF Kind
    <3> QED BY <1>1, <1>5, <3>1, <3>2 DEF Knows
  <2> QED BY <2>3, <2>4
<1>7. ASSUME NEW d \in Client
      PROVE  queue'[d] \in Seq(Notice) /\ Knows(Heard(d)', masks'[d], randr, width)
  <2>1. CASE d = c
    <3>1. queue'[d] \in Seq(Notice) /\ masks'[d] = new
      BY <1>1, <1>2, <1>4, <2>1
    <3> QED BY <1>b, <1>6, <2>1, <3>1
  <2>2. CASE d # c
    <3>1. queue'[d] = queue[d] /\ seen'[d] = seen[d] /\ queue[d] \in Seq(Notice)
          /\ masks'[d] = masks[d]
      BY <1>1, <1>2, <1>3, <2>2
    <3>2. Heard(d)' = Heard(d)
      BY <3>1 DEF Heard
    <3> QED BY <3>1, <3>2 DEF KInv
  <2> QED BY <2>1, <2>2
<1>8. DOMAIN queue' = Client /\ DOMAIN seen' = Client /\ queue' = [d \in Client |-> queue'[d]]
  BY <1>1, <1>2, <1>3
<1>9. queue' \in [Client -> Seq(Notice)]
  BY <1>7, <1>8
<1> QED BY <1>2, <1>7, <1>8, <1>9 DEF KInv

(* A step of the pointer, and a step of others, tell a client nothing.     *)
LEMMA OthersKnow ==
  ASSUME KInv, UNCHANGED <<width, randr, masks, queue, seen>>
  PROVE  KInv'
BY DEF KInv, Heard

LEMMA InitKnows == Init => KInv
<1> SUFFICES ASSUME Init
             PROVE  KInv
  OBVIOUS
<1>1. /\ queue = [c \in Client |-> <<>>] /\ masks = [c \in Client |-> {}]
      /\ seen = [c \in Client |-> [k \in Topic |-> Unknown]]
  BY DEF Init, Topic
<1>2. <<>> \in Seq(Notice)
  OBVIOUS
<1>3. ASSUME NEW d \in Client
      PROVE  Knows(Heard(d), masks[d], randr, width)
  <2>a. PICK nothing : nothing = [k \in Topic |-> Unknown]
    OBVIOUS
  <2>1. queue[d] = <<>> /\ masks[d] = {} /\ seen[d] = nothing
    BY <1>1, <2>a
  <2>2. Heard(d) = nothing
    BY <2>1, LearnedNothing DEF Heard
  <2>3. "monitors" \in Topic
    BY DEF Topic
  <2> QED BY <2>a, <2>1, <2>2, <2>3 DEF Knows
<1> QED BY <1>1, <1>2, <1>3 DEF KInv

(* Every step tells a client what it has to know. *)
LEMMA NextKnows == IInv /\ KInv /\ [Next]_vars => KInv'
<1> SUFFICES ASSUME IInv, KInv, [Next]_vars
             PROVE  KInv'
  OBVIOUS
<1>1. ASSUME NEW c \in Client, Requested(c) \/ \E w \in Extents : SetScreenSize(c, w)
      PROVE  KInv'
  BY <1>1, RequestKnows, ResizeKnows
<1>2. ASSUME NEW c \in Client, NEW kinds \in SUBSET Kind, select_randr_input(c, kinds)
      PROVE  KInv'
  BY <1>2, SelectKnows
<1>3. ASSUME NEW c \in Follower \cup Timestamped, Ask(c)
      PROVE  KInv'
  <2>1. CASE c \in Client
    BY <1>3, <2>1, AskKnows
  <2>2. CASE c \notin Client
    <3>1. queue \in [Client -> Seq(Notice)] /\ DOMAIN seen = Client
      BY DEF KInv
    <3>2. \A d \in Client : queue'[d] = queue[d] /\ seen'[d] = seen[d]
      BY <1>3, <2>2, <3>1 DEF Ask, Queues
    <3>3. UNCHANGED <<width, randr, masks>> /\ DOMAIN seen' = Client
          /\ queue' \in [Client -> Seq(Notice)]
      BY <1>3, <2>2, <3>1 DEF Ask, Queues
    <3> QED BY <3>2, <3>3 DEF KInv, Heard
  <2> QED BY <2>1, <2>2
<1>4. CASE \/ (\E x \in Positions : MovePointer(x)) \/ Freeze \/ AllowEvents
           \/ UNCHANGED vars
  BY <1>4, OthersKnow DEF MovePointer, Freeze, AllowEvents, vars
<1> QED BY <1>1, <1>2, <1>3, <1>4, Steps

(* A client that selected events of a kind knows from them, once it has read
   those that are queued, what they are about, however the requests of others,
   its own questions and full queues came between. *)
THEOREM FollowersStayInformed == Spec => []FollowersKnow
<1>1. KInv => FollowersKnow
  <2> SUFFICES ASSUME KInv
               PROVE  FollowersKnow
    OBVIOUS
  <2>1. \A c \in Client : Knows(Learned(seen[c], queue[c]), masks[c], randr, width)
    BY DEF KInv, Heard
  <2> QED BY <2>1 DEF Knows, Resources, FollowersKnow
<1>2. Spec => []KInv
  BY Inductive, InitKnows, NextKnows, PTL DEF Spec
<1> QED BY <1>1, <1>2, PTL

=============================================================================
