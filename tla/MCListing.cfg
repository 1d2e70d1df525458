\* Walks through pages of two rows in both orders, answers to questions, and
\* statistics, over three assets that are written meanwhile.
SPECIFICATION Spec
CONSTANTS
    a1 = a1
    a2 = a2
    a3 = a3
    t1 = t1
    t2 = t2
    Asset <- ThreeAssets
    Type <- TwoTypes
    TypeOf <- TypesOfAssets
    Everything = Everything
    Filters <- FiltersUsed
    Orders <- BothOrders
    Expired <- ExpiredAssets
    PageSize = 2
    MaxTime = 2
SYMMETRY Symmetry
INVARIANTS TypeOK SkipsOnlyAfterFall PageFits StatsGrow AnswerWhole
