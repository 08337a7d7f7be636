----------------------------- MODULE DirtyAreas -----------------------------
(***************************************************************************)
(* The rectangles of the guest's screen that the viewer has still to read. *)
(* A new one absorbs those it meets, in one pass over the list; too many   *)
(* become the whole screen.                                                *)
(*                                                                         *)
(* A definition Name_Mistake in front of Name is Name with a mistake that  *)
(* the code could have made; no specification uses it.                     *)
(***************************************************************************)
EXTENDS Integers, Sequences, SequencesExt

CONSTANTS
  Width, Height,   \* of the screen
  MaxAreas         \* maximum_dirty_rectangles

ASSUME AreasAssumption ==
  Width \in Nat \ {0} /\ Height \in Nat \ {0} /\ MaxAreas \in Nat \ {0}

Cell == (0..(Width - 1)) \X (0..(Height - 1))

Full == [left |-> 0, top |-> 0, right |-> Width, bottom |-> Height]

CellsOf(a) == {c \in Cell : /\ a.left <= c[1] /\ c[1] < a.right
                            /\ a.top <= c[2] /\ c[2] < a.bottom}

Lesser(a, b) == IF a < b THEN a ELSE b
Greater(a, b) == IF a < b THEN b ELSE a

\* What of a rectangle is on the screen.
Clipped(x, y, width, height) ==
  [left |-> Greater(0, x), top |-> Greater(0, y),
   right |-> Lesser(Width, x + width), bottom |-> Lesser(Height, y + height)]

Apart(a, b) ==
  a.right < b.left \/ b.right < a.left \/ a.bottom < b.top \/ b.bottom < a.top

Hull(a, b) ==
  [left |-> Lesser(a.left, b.left), top |-> Lesser(a.top, b.top),
   right |-> Greater(a.right, b.right), bottom |-> Greater(a.bottom, b.bottom)]

mark_full_frame == <<Full>>

\* One pass: the rectangles that are left, and what the new one has become.
Absorb(list, a) ==
  FoldLeft(LAMBDA s, b : IF Apart(s.added, b) THEN [s EXCEPT !.kept = Append(@, b)]
                         ELSE [s EXCEPT !.added = Hull(@, b)],
           [kept |-> <<>>, added |-> a], list)

mark_frame(list, x, y, width, height) ==
  LET a == Clipped(x, y, width, height)
      s == Absorb(list, a)
      marked == Append(s.kept, s.added)
  IN IF a.left >= a.right \/ a.top >= a.bottom \/ list = mark_full_frame THEN list
     ELSE IF Len(marked) > MaxAreas THEN mark_full_frame
     ELSE marked
=============================================================================
