\* One import with a refused record: its message may be delivered twice, its task
\* and the commit of its POST may fail.  A job whose POST never answered has no
\* client: everything may come to rest.
CHECK_DEADLOCK FALSE
SPECIFICATION FairSpec
CONSTANTS
    A = A  B = B  k1 = k1  k2 = k2  k3 = k3  d1 = d1  s1 = s1  x1 = x1
    t1 = t1  t2 = t2  m = m  v1 = v1  v2 = v2  NoRow = NoRow  NoId = NoId
    Job = {A}
    Polled = {A}
    Key = {k1, k2, k3}
    TempId = {d1, s1, x1}
    Tag = {t1, t2}
    MetaKey = {m}
    MetaValue = {v1, v2}
    Records <- Refused
    ChunkSize = 2
    MaxErrors = 1
    MaxDeliveries = 2
    MaxLost = 1
    MaxFailed = 1
    MaxBadCommits = 1
INVARIANTS CountsAddUp
PROPERTIES EveryJobEnds StatusSettles PollMonotone
