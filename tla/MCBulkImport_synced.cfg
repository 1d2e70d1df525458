\* Design document: the job row is synced on completion.
SPECIFICATION Spec
CONSTANTS
    A = A  B = B  k1 = k1  k2 = k2  k3 = k3  d1 = d1  s1 = s1  x1 = x1
    t1 = t1  t2 = t2  m = m  v1 = v1  v2 = v2  NoRow = NoRow  NoId = NoId
    Job = {A}
    Polled = {A}
    Key = {k1, k2, k3}
    TempId = {d1, s1, x1}
    Tag = {t1, t2}
    MetaKey = {m}
    MetaValue = {v1, v2}
    Records <- Single
    ChunkSize = 2
    MaxErrors = 1
    MaxDeliveries = 1
    MaxLost = 0
    MaxFailed = 0
    MaxBadCommits = 0
INVARIANTS RowSynced
