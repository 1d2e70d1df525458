\* Two assets under every kind of request, and a clock.
SPECIFICATION Spec
CONSTANTS
    k1 = k1  k2 = k2  t = t  m = m  v = v  NoRow = NoRow
    s1 = s1  s2 = s2
    Session = {s1, s2}
    Key = {k1, k2}
    Tag = {t}
    MetaKey = {m}
    MetaValue = {v}
    Request <- Requests
    Threshold = 1
    MaxTime = 3
    MaxTxn = 1
SYMMETRY SessionSymmetry
INVARIANTS TypeOK SweepOnlyUnseen LastSeenLags StaleNotTooEarly
PROPERTIES NothingLost ArchiveHolds
