CONSTANTS
 Window = {w1, w2}
 Client = {c1}
 Selection = {s1}
 Root = root
 None = none
 Ops = {"create", "map", "reparent", "destroy", "stack", "grab", "passive", "input", "select"}
 SaveKinds <- NoSaveKinds
 MaxPassive = 1
SPECIFICATION Spec
CHECK_DEADLOCK FALSE
SYMMETRY Symmetry
INVARIANTS IsTree GrabsViewable NothingDangles
