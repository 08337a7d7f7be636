------------------------------ MODULE MCViewer ------------------------------
EXTENDS Viewer

CONSTANTS w1, w2

\* A row each, with one between them; the second reaches past the screen.
Above == [x |-> 0, y |-> 0, width |-> 1, height |-> 1]
Below == [x |-> 0, y |-> 2, width |-> 2, height |-> 2]
Ends == {Above, Below}

\* No window; a window with one in it; and two windows beside each other.
Empty ==
  [parent |-> (w1 :> None @@ w2 :> None), mapped |-> {},
   place |-> (w1 :> Above @@ w2 :> Below), left |-> 2]
Nested ==
  [parent |-> (w1 :> Root @@ w2 :> w1), mapped |-> {w1, w2},
   place |-> (w1 :> Above @@ w2 :> Above), left |-> 2]
Beside ==
  [parent |-> (w1 :> Root @@ w2 :> Root), mapped |-> {w1, w2},
   place |-> (w1 :> Above @@ w2 :> Below), left |-> 2]
Scenarios == {Empty, Nested, Beside}
=============================================================================
