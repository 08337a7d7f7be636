------------------------------- MODULE Viewer -------------------------------
(***************************************************************************)
(* The viewer: it watches the windows of the guest, collects what DAMAGE   *)
(* says has been drawn, and reads those rectangles of the root.  Its       *)
(* questions to the server take turns with what the guest's clients do.    *)
(*                                                                         *)
(* The server composes the root from its windows when it is read, and      *)
(* only where it is read; scene_dirty_ says whether anything has changed   *)
(* since it was composed as a whole.  For the properties a cell of the     *)
(* screen is all there is to an image: it is up to date or it is not.      *)
(*                                                                         *)
(* A definition Name_Mistake in front of Name is Name with a mistake that  *)
(* the code could have made; no specification uses it.                     *)
(***************************************************************************)
EXTENDS DirtyAreas, FiniteSets

CONSTANTS
  Window,      \* identifiers of windows, the root left out
  Places,      \* the rectangles [x, y, width, height] windows can have
  Silent,      \* whether clients change the screen in ways that send no event
  Failing,     \* whether drawing requests fail after they have drawn
  Refusing,    \* whether the server may refuse a damage object
  Scenes       \* what the viewer may find, and how much will still be changed

ASSUME ViewerAssumption ==
  /\ {Silent, Failing, Refusing} \subseteq BOOLEAN
  /\ Places \subseteq [x : Int, y : Int, width : Nat, height : Nat] /\ Places # {}

Root == "root"
None == "none"
Tree == Window \cup {Root}

\* The windows there are; two levels below the root are enough for every case.
Scene ==
  {s \in [parent : [Window -> Tree \cup {None}], mapped : SUBSET Window,
          place : [Window -> Places], left : Nat] :
     \A w \in Window :
       /\ s.parent[w] \in Window => w # s.parent[w] /\ s.parent[s.parent[w]] = Root
       /\ w \in s.mapped => s.parent[w] # None}

ASSUME ScenesAssumption == Scenes \subseteq Scene

VARIABLES
  parent,      \* of a window, or None
  mapped,      \* windows that are mapped
  place,       \* where a window is on the root
  selected,    \* windows whose structure events the viewer gets
  damaged,     \* windows with a damage object of the viewer
  queue,       \* events on their way to the viewer
  dirty,       \* scene_dirty_
  cached,      \* cells at which composited_root_ is up to date
  left,        \* changes the clients can still make
  watched,     \* watched_windows_
  areas,       \* pending_frames_
  shared,      \* whether pixels come through shared memory
  pc,          \* what the viewer is doing
  shown,       \* cells that were up to date when last read and are still
  missed,      \* windows that nothing leads the viewer to watch
  untold,      \* cells changed without an event that were not read since
  lost         \* cells changed without a mark in dirty

server == <<parent, mapped, place, selected, damaged>>
scene == <<dirty, cached, shown, missed, untold, lost>>
viewer == <<watched, areas, shared, pc>>
vars == <<server, scene, viewer, queue, left>>

Exists(w) == w \in {Root} \cup {v \in Window : parent[v] # None}

\* The ancestors of a window that exists, itself included.
Up(w) ==
  IF w = Root THEN {Root}
  ELSE IF parent[w] = Root THEN {w, Root}
  ELSE {w, parent[w], Root}

Viewable(w) == Exists(w) /\ Up(w) \subseteq mapped \cup {Root}
Children(w) == {v \in Window : parent[v] = w}
Subtree(w) == {v \in Window : parent[v] # None /\ w \in Up(v)}

PlaceOf(w) == IF w = Root THEN [x |-> 0, y |-> 0, width |-> Width, height |-> Height]
              ELSE place[w]
AreaOf(w) == LET p == PlaceOf(w) IN Clipped(p.x, p.y, p.width, p.height)
Visible(w) == IF Viewable(w) THEN CellsOf(AreaOf(w)) ELSE {}
VisibleBelow(w) == UNION {Visible(v) : v \in Subtree(w)}

-----------------------------------------------------------------------------
(* The server and the guest's clients. *)

\* The image changes at some cells.
Changes(X) == cached' = cached \ X /\ shown' = shown \ X

Spend == left > 0 /\ left' = left - 1

\* A structure event, from the window and from its parent.
Structure(type, w) ==
  LET e == [type |-> type, window |-> w]
  IN (IF w \in selected THEN <<e>> ELSE <<>>)
     \o (IF parent[w] \in selected THEN <<e>> ELSE <<>>)

DamageNotify(w) == <<[type |-> "damage", window |-> w, place |-> PlaceOf(w)]>>

\* The window, or one around it, is not watched, and the viewer cannot know.
Missed(w) == Up(w) \cap missed # {}

\* Cells change because of w, which marks the scene, and the viewer is told.
Tell(w, events, X) ==
  /\ queue' = queue \o events
  /\ Changes(X) /\ dirty' = TRUE /\ UNCHANGED lost
  /\ untold' = IF events = <<>> /\ Missed(w) THEN untold \cup X ELSE untold

\* The viewer takes a new window for the old one whose identifier it remembers.
add_window(w, p, r) ==
  /\ Spend /\ ~ Exists(w)
  /\ Exists(p) /\ p # w /\ (p # Root => parent[p] = Root)
  /\ parent' = [parent EXCEPT ![w] = p] /\ place' = [place EXCEPT ![w] = r]
  /\ missed' = IF w \in watched THEN missed \cup {w} ELSE missed
  /\ Tell(p, IF p \in selected THEN <<[type |-> "create", window |-> w]>> ELSE <<>>, {})
  /\ UNCHANGED <<mapped, selected, damaged, viewer>>

set_window_mapped(w, on) ==
  /\ Spend /\ w \in Window /\ Exists(w) /\ (w \in mapped) # on
  /\ mapped' = IF on THEN mapped \cup {w} ELSE mapped \ {w}
  /\ UNCHANGED <<parent, place, selected, damaged, missed, viewer>>
  /\ Tell(w, Structure(IF on THEN "map" ELSE "unmap", w), VisibleBelow(w) \cup (VisibleBelow(w))')

\* What it shows is unmapped; nothing says that it and those below it are gone.
destroy_window(w) ==
  /\ Spend /\ Exists(w)
  /\ parent' = [v \in Window |-> IF v \in Subtree(w) THEN None ELSE parent[v]]
  /\ mapped' = mapped \ Subtree(w) /\ missed' = missed \ Subtree(w)
  /\ selected' = selected \ Subtree(w) /\ damaged' = damaged \ Subtree(w)
  /\ Tell(w, IF w \in mapped THEN Structure("unmap", w) ELSE <<>>, VisibleBelow(w))
  /\ UNCHANGED <<place, viewer>>

\* What is below a window moves with it.
Moved(w, to) == [v \in Window |-> IF v \in Subtree(w) THEN to[v] ELSE place[v]]

configure_window(w, to) ==
  /\ Spend /\ Exists(w) /\ Moved(w, to) # place
  /\ UNCHANGED <<parent, mapped, selected, damaged, missed, viewer>>
  /\ place' = Moved(w, to)
  /\ Tell(w, Structure("configure", w), VisibleBelow(w) \cup (VisibleBelow(w))')

\* A drawing request ends with finish_draw: DAMAGE reports all of the window.
finish_draw(w) ==
  /\ Spend /\ Exists(w)
  /\ Tell(w, IF w \in damaged THEN DamageNotify(w) ELSE <<>>, Visible(w))
  /\ UNCHANGED <<server, missed, viewer>>

\* Requests that mark the scene and tell no one who did not ask about them:
\* SHAPE, the colour of a border, redirection, a drawing request whose DAMAGE events
\* find no room; and ReparentWindow.
ChangeSilently(w) ==
  /\ Silent /\ Spend /\ Exists(w)
  /\ Changes(Visible(w)) /\ dirty' = TRUE
  /\ untold' = untold \cup Visible(w)
  /\ UNCHANGED <<server, queue, missed, lost, viewer>>

reparent_window(w, p, to) ==
  /\ Silent /\ Spend /\ Exists(w) /\ Exists(p) /\ p \notin Subtree(w)
  /\ (p # Root => parent[p] = Root /\ Children(w) = {})
  /\ parent' = [parent EXCEPT ![w] = p] /\ place' = Moved(w, to)
  /\ missed' = missed \cup (Subtree(w) \ damaged)
  /\ UNCHANGED <<mapped, selected, damaged, queue, lost, viewer>>
  /\ LET X == VisibleBelow(w) \cup (VisibleBelow(w))'
     IN Changes(X) /\ untold' = untold \cup X
  /\ dirty' = TRUE

\* PolyText with a later item in error, CopyArea whose NoExpose finds no room.
DrawAndFail(w) ==
  /\ Failing /\ Spend /\ Exists(w)
  /\ Changes(Visible(w))
  /\ untold' = untold \cup Visible(w) /\ lost' = lost \cup Visible(w)
  /\ UNCHANGED <<server, queue, dirty, missed, viewer>>

\* composite_scene, and the pixels of an area of the root.
composite_scene_Clears(X) ==
  /\ cached' = IF dirty THEN cached \cup X ELSE cached
  /\ lost' = IF dirty THEN lost \ X ELSE lost
  /\ dirty' = FALSE
composite_scene(X) ==
  /\ cached' = IF dirty THEN cached \cup X ELSE cached
  /\ lost' = IF dirty THEN lost \ X ELSE lost
  /\ dirty' = (dirty /\ X # Cell)

Read(X) ==
  /\ composite_scene(X)
  /\ shown' = (shown \ X) \cup (X \cap cached')
  /\ untold' = untold \ (X \cap cached')
  /\ UNCHANGED missed

\* Another client reads the root.
GetImage ==
  /\ Spend
  /\ composite_scene(Cell)
  /\ UNCHANGED <<server, shown, missed, untold, queue, viewer>>

ClientNext ==
  \/ \E w \in Window :
       \/ \E p \in Tree, r \in Places : add_window(w, p, r)
       \/ \E p \in Tree, to \in [Window -> Places] : reparent_window(w, p, to)
       \/ \E on \in BOOLEAN : set_window_mapped(w, on)
       \/ destroy_window(w)
       \/ \E to \in [Window -> Places] : configure_window(w, to)
       \/ ChangeSilently(w) \/ DrawAndFail(w)
  \/ \E w \in Tree : finish_draw(w)
  \/ GetImage

-----------------------------------------------------------------------------
(* The viewer. *)

Polling == [step |-> "poll"]

\* watch_window_tree: a window is popped, watched unless it is known, and its
\* children are pushed.
Watching(step, todo) == [step |-> step, todo |-> todo]
First == Last(pc.todo)

Init ==
  /\ \E s \in Scenes :
       parent = s.parent /\ mapped = s.mapped /\ place = s.place /\ left = s.left
  /\ selected = {} /\ damaged = {} /\ queue = <<>>
  /\ dirty = TRUE /\ cached = {} /\ shown = {}
  /\ missed = {} /\ untold = {} /\ lost = {}
  /\ watched = {} /\ areas = mark_full_frame /\ shared \in BOOLEAN
  /\ pc = Watching("attributes", <<Root>>)

\* watch_window, question by question.  A window that is gone is left alone.
GetWindowAttributes ==
  /\ pc.step = "attributes"
  /\ pc' = [pc EXCEPT !.step = IF First \in watched \/ ~ Exists(First) THEN "tree" ELSE "select"]
  /\ UNCHANGED <<server, scene, queue, left, watched, areas, shared>>

SelectEvents ==
  /\ pc.step = "select"
  /\ IF Exists(First)
       THEN selected' = selected \cup {First} /\ pc' = [pc EXCEPT !.step = "damage"]
       ELSE UNCHANGED selected /\ pc' = [pc EXCEPT !.step = "tree"]
  /\ UNCHANGED <<parent, mapped, place, damaged, scene, queue, left, watched, areas, shared>>

\* A new damage object reports all of its window.  It is refused if the window is
\* gone, and for want of room: in the table of damage objects, among the client's
\* resources or in its event queue.  The window is then asked for again when it is
\* mapped or its parent's tree is searched, and not before.
CreateDamage ==
  /\ pc.step = "damage"
  /\ \/ /\ Exists(First)
        /\ damaged' = damaged \cup {First} /\ watched' = watched \cup {First}
        /\ missed' = missed \ {First}
        /\ queue' = queue \o DamageNotify(First)
     \/ /\ Exists(First) => Refusing
        /\ missed' = IF Exists(First) THEN missed \cup {First} ELSE missed
        /\ UNCHANGED <<damaged, watched, queue>>
  /\ pc' = [pc EXCEPT !.step = "tree"]
  /\ UNCHANGED <<parent, mapped, place, selected, dirty, cached, shown, untold, lost,
                 left, areas, shared>>

AfterTree(todo) ==
  IF todo = <<>> THEN Polling ELSE Watching("attributes", todo)

QueryTree ==
  /\ pc.step = "tree"
  /\ LET todo == Front(pc.todo)
                 \o (IF Exists(First) THEN SetToSeq(Children(First)) ELSE <<>>)
     IN /\ pc' = AfterTree(todo)
        \* The screen is read as a whole once the windows are watched.
        /\ areas' = IF todo = <<>> THEN mark_full_frame ELSE areas
  /\ UNCHANGED <<server, scene, queue, left, watched, shared>>

Handled(e) ==
  IF e.type = "damage"
    THEN mark_frame(areas, e.place.x, e.place.y, e.place.width, e.place.height)
  ELSE IF e.type \in {"unmap", "configure"} THEN mark_full_frame
  ELSE areas

Follows(type) == type \in {"create", "map"}

PollEvent ==
  /\ pc = Polling /\ queue # <<>>
  /\ queue' = Tail(queue)
  /\ areas' = Handled(Head(queue))
  /\ pc' = IF Follows(Head(queue).type)
             THEN Watching("attributes", <<Head(queue).window>>) ELSE Polling
  /\ UNCHANGED <<server, scene, left, watched, shared>>

\* No event has arrived, whatever is on its way; there is something to read.
BeginCapture ==
  /\ pc = Polling /\ areas # <<>>
  /\ pc' = [step |-> "capture", row |-> areas[1].top]
  /\ UNCHANGED <<server, scene, queue, left, watched, areas, shared>>

\* capture: the first area, at once or in tiles of a row.
Tile(a, row) == [a EXCEPT !.top = row, !.bottom = row + 1]

Captured_Keeps(list) == list
Captured(list) == Tail(list)

AfterCapture == IF Len(areas) > 1 THEN [step |-> "capture", row |-> areas[2].top] ELSE Polling

CaptureShared ==
  /\ pc.step = "capture" /\ shared
  /\ Read(CellsOf(areas[1]))
  /\ areas' = Captured(areas) /\ pc' = AfterCapture
  /\ UNCHANGED <<server, queue, left, watched, shared>>

CaptureTile ==
  /\ pc.step = "capture" /\ ~ shared
  /\ Read(CellsOf(Tile(areas[1], pc.row)))
  /\ IF pc.row + 1 = areas[1].bottom
       THEN areas' = Captured(areas) /\ pc' = AfterCapture
       ELSE pc' = [pc EXCEPT !.row = @ + 1] /\ UNCHANGED areas
  /\ UNCHANGED <<server, queue, left, watched, shared>>

\* The server refuses: from then on pixels come through the connection.
release_shared_frame ==
  /\ pc.step = "capture" /\ shared
  /\ shared' = FALSE
  /\ UNCHANGED <<server, scene, queue, left, watched, areas, pc>>

ViewerNext ==
  \/ GetWindowAttributes \/ SelectEvents \/ CreateDamage \/ QueryTree
  \/ PollEvent \/ BeginCapture \/ CaptureShared \/ CaptureTile \/ release_shared_frame

Next == ClientNext \/ ViewerNext

Spec == Init /\ [][Next]_vars

\* The viewer's loop goes on, and the server answers it.
FairSpec == Spec /\ WF_vars(ViewerNext)

-----------------------------------------------------------------------------
(* Properties. *)

\* The viewer has nothing to do.
Quiet == pc = Polling /\ queue = <<>> /\ areas = <<>>

\* What the server has composed is what its windows show wherever the scene is
\* not marked; reads of single areas do not clear the mark.
CacheCurrent == ~ dirty => Cell \ cached \subseteq lost


\* Once the guest is still the viewer comes to rest.
Settles == <>[]Quiet

=============================================================================
