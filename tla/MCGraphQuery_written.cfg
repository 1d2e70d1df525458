\* A graph that grows and shrinks while it is read: subgraphs and exports.
SPECIFICATION FairSpec
CONSTANTS
    a1 = a1  a2 = a2  a3 = a3  Nobody = Nobody
    Asset = {a1, a2, a3}
    Link <- Links
    Depths = {1, 2}
INVARIANTS TypeOK NoDanglingEdge ReachFound NothingOutOfReach ExportDanglesOnlyToNew
PROPERTIES RequestEnds
