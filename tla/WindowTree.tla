----------------------------- MODULE WindowTree -----------------------------
(***************************************************************************)
(* The windows of the server and everything that refers to them: the       *)
(* stacking order, the input focus, active and passive grabs, selections   *)
(* and save sets, and what happens to all of it when a client leaves.      *)
(*                                                                         *)
(* Requests run one at a time.  Their effect is written as operators on    *)
(* the state as a record, so that the teardown of a client can apply many  *)
(* of them in one step.  Events are left out except that a request whose   *)
(* events do not fit is refused; geometry, timestamps, details and         *)
(* modifiers are left out, so that any viewable window may hold the        *)
(* pointer and any passive grab may match.                                 *)
(*                                                                         *)
(* A definition Name_Mistake in front of Name is Name with a mistake that  *)
(* the code could have made; no specification uses it.                     *)
(***************************************************************************)
EXTENDS Naturals, Sequences, FiniteSets, SequencesExt

CONSTANTS
  Window,      \* identifiers of windows other than the root
  Client,      \* clients
  Selection,   \* selections
  Root,        \* root_window_id
  None,        \* no window, no client, no grab
  Ops,         \* the groups of requests the clients use
  SaveKinds,   \* pairs <<to_root, map>> of the save set entries they make
  MaxPassive   \* bound: passive grabs at a time

Op == {"create", "classes", "destroy", "reparent", "stack", "map", "redirect", "focus",
       "grab", "passive", "input", "select", "save", "leave"}

ASSUME TreeAssumption ==
  /\ Root \notin Window /\ None \notin Window \cup Client \cup {Root}
  /\ Ops \subseteq Op /\ SaveKinds \subseteq BOOLEAN \X BOOLEAN
  /\ MaxPassive \in Nat /\ IsFiniteSet(Window)

VARIABLES
  windows,       \* windows_: a record for each window there is
  focus,         \* input_.focus
  pointerGrab,   \* input_.pointer_grab
  keyboardGrab,  \* input_.keyboard_grab
  passive,       \* passive_grabs_
  selections,    \* selections_
  saveSets,      \* save_sets_
  clients        \* clients_

vars == <<windows, focus, pointerGrab, keyboardGrab, passive, selections, saveSets, clients>>

Id == Window \cup {Root}
WindowRecord ==
  [parent : Id \cup {None}, children : Seq(Window), owner : Client \cup {None},
   class : {"io", "input"}, mapped : BOOLEAN, override : BOOLEAN,
   redirect : Client \cup {None}]
ActiveGrab ==
  [owner : Client, window : Id, confine : Id \cup {None},
   kind : {"explicit", "passive", "automatic"}]
PassiveGrab == [kind : {"key", "button"}, owner : Client, window : Id,
                confine : Id \cup {None}]
SaveSetEntry == [window : Window, root : BOOLEAN, map : BOOLEAN]

TypeOK ==
  /\ DOMAIN windows \subseteq Id /\ Root \in DOMAIN windows
  /\ \A w \in DOMAIN windows : windows[w] \in WindowRecord
  /\ focus \in [kind : {"none", "pointer_root", "window"}, window : Id \cup {None},
                revert : {"none", "pointer_root", "parent"}]
  /\ pointerGrab \in ActiveGrab \cup {None}
  /\ keyboardGrab \in ActiveGrab \cup {None}
  /\ passive \subseteq PassiveGrab
  /\ selections \in [Selection -> [window : Id \cup {None}, client : Client \cup {None}]]
  /\ saveSets \in [Client -> Seq(SaveSetEntry)]
  /\ clients \subseteq Client

Init ==
  /\ windows = [w \in {Root} |->
       [parent |-> None, children |-> <<>>, owner |-> None, class |-> "io",
        mapped |-> TRUE, override |-> FALSE, redirect |-> None]]
  /\ focus = [kind |-> "pointer_root", window |-> None, revert |-> "none"]
  /\ pointerGrab = None /\ keyboardGrab = None /\ passive = {}
  /\ selections = [s \in Selection |-> [window |-> None, client |-> None]]
  /\ saveSets = [c \in Client |-> <<>>]
  /\ clients = Client
-----------------------------------------------------------------------------
(* The state as a record, and queries on it.                               *)

State ==
  [windows |-> windows, focus |-> focus, pointer |-> pointerGrab,
   keyboard |-> keyboardGrab, passive |-> passive, selections |-> selections,
   saves |-> saveSets]

Become(S) ==
  /\ windows' = S.windows /\ focus' = S.focus
  /\ pointerGrab' = S.pointer /\ keyboardGrab' = S.keyboard
  /\ passive' = S.passive /\ selections' = S.selections /\ saveSets' = S.saves

(* With a window A has the parent of the window. *)
Closed(S, A) == \A x \in A \ {Root} : S.windows[x].parent \in A

(* w and the windows it is in: what every closed set around w has. *)
Path(S, w) ==
  {a \in DOMAIN S.windows :
     \A A \in SUBSET DOMAIN S.windows : w \in A /\ Closed(S, A) => a \in A}

Subtree(S, w) == {x \in DOMAIN S.windows : w \in Path(S, x)}

(* map_state returns Viewable. *)
Viewable(S, w) == w \in DOMAIN S.windows /\ \A x \in Path(S, w) : S.windows[x].mapped

(* The elements of a sequence at the places wanted. *)
Picked(seq, wanted) ==
  LET part[n \in 0..Len(seq)] ==
        IF n = 0 THEN <<>>
        ELSE IF n \in wanted THEN Append(part[n - 1], seq[n]) ELSE part[n - 1]
  IN part[Len(seq)]

Without(seq, w) == Picked(seq, {i \in DOMAIN seq : seq[i] # w})
EntriesWithout(entries, gone) ==
  Picked(entries, {i \in DOMAIN entries : entries[i].window \notin gone})
-----------------------------------------------------------------------------
(* Mapping, focus reversion, reparenting.                                  *)

(* The closest ancestor of w among the windows wanted, or None. *)
ClosestAncestor(S, w, wanted) ==
  LET candidates == (Path(S, w) \ {w}) \cap wanted
  IN IF candidates = {} THEN None
     ELSE CHOOSE a \in candidates : \A b \in candidates : b \in Path(S, a)

reverted_focus_state_Parent(S, unavailable) ==
  LET f == S.focus
      usable == {w \in Path(S, f.window) : unavailable \notin Path(S, w) /\ Viewable(S, w)}
  IN IF f.kind # "window" \/ f.window \in usable THEN f
     ELSE CASE f.revert = "none" -> [f EXCEPT !.kind = "none", !.window = None]
            [] f.revert = "pointer_root" -> [f EXCEPT !.kind = "pointer_root", !.window = None]
            [] f.revert = "parent" ->
                 [f EXCEPT !.revert = "none", !.window = S.windows[f.window].parent]
reverted_focus_state(S, unavailable) ==
  LET f == S.focus
      usable == {w \in Path(S, f.window) : unavailable \notin Path(S, w) /\ Viewable(S, w)}
      ancestor == ClosestAncestor(S, f.window, usable)
  IN IF f.kind # "window" \/ f.window \in usable THEN f
     ELSE CASE f.revert = "none" -> [f EXCEPT !.kind = "none", !.window = None]
            [] f.revert = "pointer_root" -> [f EXCEPT !.kind = "pointer_root", !.window = None]
            [] f.revert = "parent" ->
                 [kind |-> IF ancestor = None THEN "none" ELSE "window",
                  window |-> ancestor, revert |-> "none"]

PointerGrabLost(S) ==
  /\ S.pointer # None
  /\ \/ ~Viewable(S, S.pointer.window)
     \/ S.pointer.confine # None /\ ~Viewable(S, S.pointer.confine)

KeyboardGrabLost_Never(S) == FALSE
KeyboardGrabLost(S) == S.keyboard # None /\ ~Viewable(S, S.keyboard.window)

(* What S loses because windows in it are no longer viewable. *)
Revoked(S) ==
  [S EXCEPT !.focus = reverted_focus_state(S, None),
            !.pointer = IF PointerGrabLost(S) THEN None ELSE S.pointer,
            !.keyboard = IF KeyboardGrabLost(S) THEN None ELSE S.keyboard]

update_window_mappings(S, changed, mapped) ==
  LET T == [S EXCEPT !.windows = [w \in DOMAIN @ |->
              IF w \in changed THEN [@[w] EXCEPT !.mapped = mapped] ELSE @[w]]]
  IN IF mapped THEN T ELSE Revoked(T)

set_window_mapped(S, w, mapped) ==
  IF S.windows[w].mapped = mapped THEN S ELSE update_window_mappings(S, {w}, mapped)

set_subwindows_mapped(S, w, mapped) ==
  LET changed == {x \in ToSet(S.windows[w].children) : S.windows[x].mapped # mapped}
  IN IF changed = {} THEN S ELSE update_window_mappings(S, changed, mapped)

(* id leaves its parent's list and goes on top of the other's. *)
Moved_KeepsOld(S, id, parent) ==
  [S EXCEPT !.windows = [S.windows EXCEPT ![id].parent = parent,
                                          ![parent].children = Append(@, id)]]
Moved(S, id, parent) ==
  LET old == S.windows[id].parent
      cut == [S.windows EXCEPT ![old].children = Without(@, id), ![id].parent = parent]
  IN [S EXCEPT !.windows = [cut EXCEPT ![parent].children = Append(@, id)]]

(* Focus and grabs are judged with the window unmapped. *)
reparent_window(S, id, parent) ==
  LET T == IF S.windows[id].mapped
           THEN update_window_mappings(S, {id}, FALSE) ELSE S
  IN [Moved(S, id, parent) EXCEPT !.focus = T.focus, !.pointer = T.pointer,
                                  !.keyboard = T.keyboard]
-----------------------------------------------------------------------------
(* Destruction.                                                            *)

revert_focus_from(S, w) ==
  IF S.focus.kind = "window" /\ S.focus.window \in Subtree(S, w)
  THEN [S EXCEPT !.focus = reverted_focus_state(S, w)]
  ELSE S

clear_selections_for_windows_Kept(S, gone) == S.selections
clear_selections_for_windows(S, gone) ==
  [s \in Selection |->
     IF S.selections[s].window \in gone THEN [window |-> None, client |-> None]
     ELSE S.selections[s]]

ErasedSaves(S, gone) ==
  [c \in Client |-> EntriesWithout(S.saves[c], gone)]

erase_window_tree(S, w) ==
  LET gone == Subtree(S, w)
      R == revert_focus_from(S, w)
      refers(g) == g.window \in gone \/ g.confine \in gone
      rest == [x \in DOMAIN S.windows \ gone |-> S.windows[x]]
  IN [R EXCEPT
       !.windows = [rest EXCEPT ![S.windows[w].parent].children = Without(@, w)],
       !.pointer = IF @ # None /\ refers(@) THEN None ELSE @,
       !.keyboard = IF @ # None /\ @.window \in gone THEN None ELSE @,
       !.passive = {g \in @ : ~refers(g)},
       !.selections = clear_selections_for_windows(S, gone),
       !.saves = ErasedSaves(S, gone)]

destroy_window(S, w) == erase_window_tree(set_window_mapped(S, w, FALSE), w)

(* The children are unmapped together, then erased, the last first. *)
destroy_subwindows(S, w) ==
  LET list == Reverse(S.windows[w].children)
      after[n \in 0..Len(list)] ==
        IF n = 0 THEN set_subwindows_mapped(S, w, FALSE)
        ELSE erase_window_tree(after[n - 1], list[n])
  IN after[Len(list)]
-----------------------------------------------------------------------------
(* A client leaves.                                                        *)

(* The first window from w upwards that the client does not own. *)
ForeignParent(S, c, w) ==
  IF S.windows[w].owner # c THEN w
  ELSE ClosestAncestor(S, w, {a \in DOMAIN S.windows : S.windows[a].owner # c})

(* reparent_window, or the move without its events when they do not fit. *)
Rescued_WhenTold(S, w, parent, fits) == IF w \in fits THEN reparent_window(S, w, parent) ELSE S
Rescued(S, w, parent, fits) ==
  IF w \in fits THEN reparent_window(S, w, parent) ELSE Moved(S, w, parent)

Saved(S, c, entry, fits) ==
  LET w == entry.window
      parent == IF entry.root THEN Root ELSE ForeignParent(S, c, S.windows[w].parent)
      hidden == IF entry.map THEN S ELSE set_window_mapped(S, w, FALSE)
      placed == IF S.windows[w].parent = parent THEN S ELSE Rescued(hidden, w, parent, fits)
  IN IF S.windows[w].owner = c THEN S
     ELSE IF entry.map THEN set_window_mapped(placed, w, TRUE) ELSE placed

apply_save_set(S, c, fits) ==
  LET entries == S.saves[c]
      after[n \in 0..Len(entries)] ==
        IF n = 0 THEN [S EXCEPT !.saves[c] = <<>>]
        ELSE Saved(after[n - 1], c, entries[n], fits)
  IN after[Len(entries)]

(* destroy_window, or the same without its events when they do not fit. *)
Torn(S, w, fits) ==
  IF w \notin DOMAIN S.windows THEN S
  ELSE IF w \in fits THEN destroy_window(S, w)
  ELSE LET hidden == [S EXCEPT !.windows[w].mapped = FALSE]
       IN erase_window_tree(revert_focus_from(hidden, w), w)

OwnedBy(S, c) == {w \in DOMAIN S.windows : S.windows[w].owner = c}

(* The windows a client owns go one by one, in the order of a hash table. *)
TearDown(S, order, fits) ==
  LET after[n \in 0..Len(order)] ==
        IF n = 0 THEN S ELSE Torn(after[n - 1], order[n], fits)
  IN after[Len(order)]

ReleasedBy(S, c) ==
  [S EXCEPT
    !.windows = [w \in DOMAIN S.windows |->
                   [S.windows[w] EXCEPT !.redirect = IF @ = c THEN None ELSE @]],
    !.pointer = IF @ # None /\ @.owner = c THEN None ELSE @,
    !.keyboard = IF @ # None /\ @.owner = c THEN None ELSE @,
    !.passive = {g \in @ : g.owner # c},
    !.selections = [s \in Selection |-> IF @[s].client = c
                      THEN [window |-> None, client |-> None] ELSE @[s]]]

disconnect_client(c) ==
  /\ "leave" \in Ops /\ c \in clients
  /\ LET owned == OwnedBy(State, c)
         saved == {saveSets[c][i].window : i \in DOMAIN saveSets[c]}
     IN \E fits \in SUBSET saved, fit \in SUBSET owned, order \in SetToSeqs(owned) :
          Become(TearDown(ReleasedBy(apply_save_set(State, c, fits), c), order, fit))
  /\ clients' = clients \ {c}

(* Another client takes the slot. *)
register_client(c) ==
  /\ c \notin clients
  /\ clients' = clients \cup {c}
  /\ Become(State)
-----------------------------------------------------------------------------
(* Requests.  A refused request changes nothing and is not a step.         *)

May(op) == op \in Ops

Created(S, c, w, parent, class, override) ==
  LET added == [parent |-> parent, children |-> <<>>, owner |-> c, class |-> class,
                mapped |-> FALSE, override |-> override, redirect |-> None]
      grown == [x \in DOMAIN S.windows \cup {w} |-> IF x = w THEN added ELSE S.windows[x]]
  IN [S EXCEPT !.windows = [grown EXCEPT ![parent].children = Append(@, w)]]

handle_create_window(c, w, parent, class, override) ==
  /\ May("create") /\ c \in clients
  /\ w \notin DOMAIN windows /\ parent \in DOMAIN windows
  /\ class = "io" => windows[parent].class = "io"
  /\ class = "io" \/ May("classes")
  /\ override => May("redirect")
  /\ Become(Created(State, c, w, parent, class, override))
  /\ UNCHANGED clients

handle_select_redirect(c, w) ==
  /\ May("redirect") /\ c \in clients /\ w \in DOMAIN windows
  /\ windows[w].redirect = None
  /\ Become([State EXCEPT !.windows[w].redirect = c])
  /\ UNCHANGED clients

(* The client to which a request on w by c is redirected, or None. *)
Redirected(c, w) ==
  LET holder == windows[windows[w].parent].redirect
  IN IF windows[w].override \/ holder = c THEN None ELSE holder

handle_destroy_window(c, w) ==
  /\ May("destroy") /\ c \in clients /\ w \in DOMAIN windows \ {Root}
  /\ Become(destroy_window(State, w))
  /\ UNCHANGED clients

handle_destroy_subwindows(c, w) ==
  /\ May("destroy") /\ c \in clients /\ w \in DOMAIN windows
  /\ Become(destroy_subwindows(State, w))
  /\ UNCHANGED clients

handle_reparent_window(c, w, parent) ==
  /\ May("reparent") /\ c \in clients
  /\ w \in DOMAIN windows \ {Root} /\ parent \in DOMAIN windows
  /\ ~(windows[parent].class = "input" /\ windows[w].class = "io")
  /\ w \notin Path(State, parent)
  /\ Become(reparent_window(State, w, parent))
  /\ UNCHANGED clients

handle_map_window(c, w) ==
  /\ May("map") /\ c \in clients /\ w \in DOMAIN windows \ {Root}
  /\ Redirected(c, w) = None
  /\ Become(set_window_mapped(State, w, TRUE))
  /\ UNCHANGED clients

handle_unmap_window(c, w) ==
  /\ May("map") /\ c \in clients /\ w \in DOMAIN windows \ {Root}
  /\ Become(set_window_mapped(State, w, FALSE))
  /\ UNCHANGED clients

handle_map_subwindows(c, w, mapped) ==
  /\ May("map") /\ c \in clients /\ w \in DOMAIN windows
  /\ Become(set_subwindows_mapped(State, w, mapped))
  /\ UNCHANGED clients

(* The children of the parent with w put where sibling and mode say. *)
Restacked(children, w, sibling, above) ==
  LET rest == Without(children, w)
      at == IF sibling = None THEN (IF above THEN Len(rest) ELSE 0)
            ELSE LET i == CHOOSE i \in DOMAIN rest : rest[i] = sibling
                 IN IF above THEN i ELSE i - 1
  IN InsertAt(rest, at + 1, w)

handle_configure_window(c, w, sibling, above) ==
  /\ May("stack") /\ c \in clients /\ w \in DOMAIN windows \ {Root}
  /\ sibling # None =>
       sibling \in DOMAIN windows \ {w} /\ windows[sibling].parent = windows[w].parent
  /\ Redirected(c, w) = None
  /\ Become([State EXCEPT !.windows[windows[w].parent].children =
                            Restacked(@, w, sibling, above)])
  /\ UNCHANGED clients

(* The lowest mapped child is raised, or the highest lowered. *)
handle_circulate_window(c, w, raise) ==
  /\ May("stack") /\ c \in clients /\ w \in DOMAIN windows
  /\ windows[w].redirect \in {None, c}
  /\ Len(windows[w].children) > 1
  /\ LET children == windows[w].children
         mapped == {i \in DOMAIN children : windows[children[i]].mapped}
         at == CHOOSE i \in mapped : \A j \in mapped : IF raise THEN i <= j ELSE i >= j
     IN /\ mapped # {}
        /\ Become([State EXCEPT !.windows[w].children =
                     Restacked(@, children[at], None, raise)])
  /\ UNCHANGED clients

handle_set_input_focus(c, kind, w, revert) ==
  /\ May("focus") /\ c \in clients
  /\ kind = "window" => Viewable(State, w)
  /\ kind # "window" => w = None
  /\ Become([State EXCEPT !.focus = [kind |-> kind, window |-> w, revert |-> revert]])
  /\ UNCHANGED clients

handle_grab_pointer(c, w, confine) ==
  /\ May("grab") /\ c \in clients
  /\ pointerGrab # None => pointerGrab.owner = c
  /\ Viewable(State, w) /\ (confine # None => Viewable(State, confine))
  /\ Become([State EXCEPT !.pointer = [owner |-> c, window |-> w, confine |-> confine,
                                       kind |-> "explicit"]])
  /\ UNCHANGED clients

handle_grab_keyboard(c, w) ==
  /\ May("grab") /\ c \in clients
  /\ keyboardGrab # None => keyboardGrab.owner = c
  /\ Viewable(State, w)
  /\ Become([State EXCEPT !.keyboard = [owner |-> c, window |-> w, confine |-> None,
                                        kind |-> "explicit"]])
  /\ UNCHANGED clients

handle_ungrab(c) ==
  /\ May("grab") /\ c \in clients
  /\ \/ /\ pointerGrab # None /\ pointerGrab.owner = c
        /\ Become([State EXCEPT !.pointer = None])
     \/ /\ keyboardGrab # None /\ keyboardGrab.owner = c
        /\ Become([State EXCEPT !.keyboard = None])
  /\ UNCHANGED clients

(* The details and modifiers of every two grabs of a kind overlap. *)
handle_grab_button_or_key(c, g) ==
  /\ May("passive") /\ c \in clients /\ g.owner = c
  /\ g.window \in DOMAIN windows
  /\ g.confine # None => g.kind = "button" /\ g.confine \in DOMAIN windows
  /\ ~\E h \in passive : h.kind = g.kind /\ h.window = g.window /\ h.owner # c
  /\ LET grabs == {h \in passive : ~(h.kind = g.kind /\ h.window = g.window)} \cup {g}
     IN Cardinality(grabs) <= MaxPassive /\ Become([State EXCEPT !.passive = grabs])
  /\ UNCHANGED clients

handle_ungrab_button_or_key(c, g) ==
  /\ May("passive") /\ c \in clients /\ g.owner = c
  /\ g \in passive
  /\ Become([State EXCEPT !.passive = @ \ {g}])
  /\ UNCHANGED clients

handle_set_selection_owner(c, s, w) ==
  /\ May("select") /\ c \in clients
  /\ w # None => w \in DOMAIN windows
  /\ Become([State EXCEPT !.selections[s] =
       [window |-> w, client |-> IF w = None THEN None ELSE c]])
  /\ UNCHANGED clients

handle_change_save_set(c, w, kind) ==
  /\ May("save") /\ c \in clients
  /\ w \in DOMAIN windows \ {Root} /\ windows[w].owner # c
  /\ ~\E i \in DOMAIN saveSets[c] : saveSets[c][i].window = w
  /\ Become([State EXCEPT !.saves[c] =
       Append(@, [window |-> w, root |-> kind[1], map |-> kind[2]])])
  /\ UNCHANGED clients

handle_delete_from_save_set(c, w) ==
  /\ May("save") /\ c \in clients
  /\ w \in DOMAIN windows \ {Root} /\ windows[w].owner # c
  /\ Become([State EXCEPT !.saves[c] = EntriesWithout(@, {w})])
  /\ UNCHANGED clients
-----------------------------------------------------------------------------
(* Input.                                                                  *)

(* The window a key event starts from when the pointer is in w. *)
KeySource(S, w) ==
  CASE S.focus.kind = "none" -> None
    [] S.focus.kind = "pointer_root" -> w
    [] S.focus.kind = "window" ->
         IF S.focus.window \in Path(S, w) THEN w ELSE S.focus.window

PressKey(w) ==
  /\ May("input") /\ keyboardGrab = None /\ Viewable(State, w)
  /\ \E g \in passive :
       /\ g.kind = "key" /\ KeySource(State, w) # None
       /\ g.window \in Path(State, KeySource(State, w))
       /\ Become([State EXCEPT !.keyboard = [owner |-> g.owner, window |-> g.window,
                                             confine |-> None, kind |-> "passive"]])
  /\ UNCHANGED clients

(* A passive grab on the way up from w, or the automatic grab of the client
   that selected the press on a window on that way. *)
ButtonGrabs(S, conn, w) ==
  LET matching == {g \in S.passive : g.kind = "button" /\ g.window \in Path(S, w)}
  IN IF matching # {} THEN {[g EXCEPT !.kind = "passive"] : g \in matching}
     ELSE [owner : conn, window : Path(S, w), confine : {None}, kind : {"automatic"}]

PressButton(w) ==
  /\ May("input") /\ pointerGrab = None /\ Viewable(State, w)
  /\ \E g \in ButtonGrabs(State, clients, w) : Become([State EXCEPT !.pointer = g])
  /\ UNCHANGED clients

Release ==
  /\ May("input")
  /\ \/ /\ keyboardGrab # None /\ keyboardGrab.kind = "passive"
        /\ Become([State EXCEPT !.keyboard = None])
     \/ /\ pointerGrab # None /\ pointerGrab.kind # "explicit"
        /\ Become([State EXCEPT !.pointer = None])
  /\ UNCHANGED clients
-----------------------------------------------------------------------------
TreeRequest(c) ==
  \/ \E w \in Window, p \in Id, class \in {"io", "input"}, o \in BOOLEAN :
       handle_create_window(c, w, p, class, o)
  \/ \E w \in Window : \/ handle_destroy_window(c, w)
                       \/ handle_map_window(c, w)
                       \/ handle_unmap_window(c, w)
  \/ \E w \in Id : handle_destroy_subwindows(c, w) \/ handle_select_redirect(c, w)
  \/ \E w \in Window, p \in Id : handle_reparent_window(c, w, p)
  \/ \E w \in Id, b \in BOOLEAN : handle_map_subwindows(c, w, b) \/ handle_circulate_window(c, w, b)
  \/ \E w \in Window, s \in Window \cup {None}, b \in BOOLEAN : handle_configure_window(c, w, s, b)

InputRequest(c) ==
  \/ \E kind \in {"none", "pointer_root", "window"}, w \in Id \cup {None},
        revert \in {"none", "pointer_root", "parent"} : handle_set_input_focus(c, kind, w, revert)
  \/ \E w \in Id, x \in Id \cup {None} : handle_grab_pointer(c, w, x)
  \/ \E w \in Id : handle_grab_keyboard(c, w)
  \/ handle_ungrab(c)
  \/ \E g \in PassiveGrab : handle_grab_button_or_key(c, g) \/ handle_ungrab_button_or_key(c, g)

OtherRequest(c) ==
  \/ \E s \in Selection, w \in Id \cup {None} : handle_set_selection_owner(c, s, w)
  \/ \E w \in Window, kind \in SaveKinds : handle_change_save_set(c, w, kind)
  \/ \E w \in Window : handle_delete_from_save_set(c, w)

Next ==
  \/ \E c \in Client : \/ TreeRequest(c) \/ InputRequest(c) \/ OtherRequest(c)
                       \/ disconnect_client(c) \/ register_client(c)
  \/ \E w \in Id : PressKey(w) \/ PressButton(w)
  \/ Release

Spec == Init /\ [][Next]_vars
-----------------------------------------------------------------------------
(* Properties.                                                             *)

(***************************************************************************)
(* The windows form one tree whatever is created, moved, restacked and     *)
(* destroyed in whatever order: each is once in the list of its parent,    *)
(* each is below the root, none that draws is inside one that only takes   *)
(* input, and none belongs to a client that has left.                      *)
(***************************************************************************)
IsTree ==
  /\ TypeOK
  /\ \A p \in DOMAIN windows :
       /\ IsInjective(windows[p].children)
       /\ ToSet(windows[p].children) = {w \in DOMAIN windows : windows[w].parent = p}
  /\ \A w \in DOMAIN windows : Root \in Path(State, w)
  /\ \A w \in DOMAIN windows \ {Root} :
       /\ windows[w].parent \in DOMAIN windows
       /\ windows[w].class = "io" => windows[windows[w].parent].class = "io"
       /\ windows[w].owner \in clients

(***************************************************************************)
(* The focus is never on a window that cannot be seen, after any sequence  *)
(* of unmapping, reparenting, destruction and departure of clients.        *)
(***************************************************************************)
FocusViewable == focus.kind = "window" => Viewable(State, focus.window)

(***************************************************************************)
(* A grab ends with the visibility of its window and of the window that    *)
(* confines the pointer.  (A passive grab is activated without a look at   *)
(* the confining window, so for that the second part is not claimed.)      *)
(***************************************************************************)
GrabsViewable ==
  /\ pointerGrab # None =>
       /\ Viewable(State, pointerGrab.window)
       /\ pointerGrab.kind = "explicit" /\ pointerGrab.confine # None =>
            Viewable(State, pointerGrab.confine)
  /\ keyboardGrab # None => Viewable(State, keyboardGrab.window)

(***************************************************************************)
(* Nothing refers to a window that is gone or is kept for a client that    *)
(* has left: identifiers are reused, and the next window or client would   *)
(* inherit it.                                                             *)
(***************************************************************************)
NothingDangles ==
  /\ \A g \in passive : {g.window, g.confine} \subseteq DOMAIN windows \cup {None}
                        /\ g.owner \in clients
  /\ \A g \in {pointerGrab, keyboardGrab} \ {None} :
       {g.window, g.confine} \subseteq DOMAIN windows \cup {None} /\ g.owner \in clients
  /\ \A s \in Selection : \/ selections[s] = [window |-> None, client |-> None]
                          \/ /\ selections[s].window \in DOMAIN windows
                             /\ selections[s].client \in clients
  /\ \A c \in Client : \A i \in DOMAIN saveSets[c] : /\ c \in clients
                                                     /\ saveSets[c][i].window \in DOMAIN windows
  /\ \A w \in DOMAIN windows : windows[w].redirect \in clients \cup {None}

(* The windows around w belong to c up to a point, and to others above it. *)
OnlyWithin(c, w) ==
  \A a \in Path(State, w) \ {w} :
    windows[a].owner = c =>
      \A b \in Path(State, w) \cap Subtree(State, a) : b = w \/ windows[b].owner = c

(***************************************************************************)
(* A window in the save set of a client that leaves survives it, and is    *)
(* mapped if the entry says so, even when event queues are full: unless    *)
(* a window of a third client lies between it and the windows of the       *)
(* leaving client.                                                         *)
(***************************************************************************)
SaveSetSurvives ==
  [][\A c \in clients \ clients' :
       \A i \in DOMAIN saveSets[c] :
         LET entry == saveSets[c][i]
         IN (entry.root \/ OnlyWithin(c, entry.window)) =>
              /\ entry.window \in DOMAIN windows'
              /\ entry.map => windows'[entry.window].mapped]_vars
=============================================================================
