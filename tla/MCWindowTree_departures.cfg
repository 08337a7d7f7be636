CONSTANTS
 Window = {w1, w2}
 Client = {c1, c2}
 Selection = {}
 Root = root
 None = none
 Ops = {"create", "save", "leave", "redirect", "focus", "map", "reparent"}
 SaveKinds <- OneSaveKind
 MaxPassive = 0
SPECIFICATION Spec
CHECK_DEADLOCK FALSE
SYMMETRY Symmetry
INVARIANTS FocusViewable
PROPERTY SaveSetSurvives
