\* Two concurrent imports with crossed locks, each delivered once.
SPECIFICATION FairSpec
CONSTANTS
    A = A  B = B  k1 = k1  k2 = k2  k3 = k3  d1 = d1  s1 = s1  x1 = x1
    t1 = t1  t2 = t2  m = m  v1 = v1  v2 = v2  NoRow = NoRow  NoId = NoId
    Job = {A, B}
    Polled = {A}
    Key = {k1, k2}
    TempId = {d1, s1, x1}
    Tag = {t1, t2}
    MetaKey = {m}
    MetaValue = {v1, v2}
    Records <- Crossed
    ChunkSize = 2
    MaxErrors = 1
    MaxDeliveries = 1
    MaxLost = 0
    MaxFailed = 0
    MaxBadCommits = 0
INVARIANTS TypeOK ImportedStored EdgesComplete HashAndRowAgree DanglingOnlyAfterLoss
PROPERTIES ChunksAreAtomic EveryJobEnds
