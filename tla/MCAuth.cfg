\* Two requests at a time: registrations that collide, logins, rotations.
SPECIFICATION FairSpec
CONSTANTS
    h1 = h1
    h2 = h2
    g1 = g1
    g2 = g2
    e1 = e1
    e2 = e2
    Handler <- TwoHandlers
    Slug <- TwoSlugs
    Email <- TwoEmails
    Nobody = Nobody
    MaxOrgs = 3
    MaxTokens = 3
    MaxFaults = 1
INVARIANTS TypeOK OrgsWhole TokensNameUsers RotatedOnce SessionKept
PROPERTIES RequestsAnswered
