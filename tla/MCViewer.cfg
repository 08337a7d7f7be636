CONSTANTS
 w1 = w1
 w2 = w2
 Width = 1
 Height = 3
 MaxAreas = 1
 Window = {w1, w2}
 Places <- Ends
 Scenes <- Scenarios
 Silent = TRUE
 Failing = TRUE
 Refusing = TRUE
SPECIFICATION FairSpec
CHECK_DEADLOCK FALSE
INVARIANTS CacheCurrent 
PROPERTY Settles
