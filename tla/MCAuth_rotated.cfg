\* Design document: a refresh token is invalidated on use.
SPECIFICATION Spec
CONSTANTS
    h1 = h1
    h2 = h2
    g1 = g1
    g2 = g2
    e1 = e1
    e2 = e2
    Handler <- TwoHandlers
    Slug = {g1}
    Email = {e1}
    Nobody = Nobody
    MaxOrgs = 1
    MaxTokens = 3
    MaxFaults = 0
INVARIANTS InvalidatedOnUse
