\* A release rolled out in two containers while imports are under way, and taken back.
SPECIFICATION FairSpec
CONSTANTS
    a1 = a1  a2 = a2  w1 = w1  w2 = w2
    App = {a1, a2}
    Worker = {w1, w2}
    Operator = Operator
    Seed = TRUE
    MaxCrashes = 1
    MaxDowngrades = 1
INVARIANTS SchemaIsWhole
PROPERTIES ComesUp
