\* Two requests and two imports over one pair of assets; a foreign asset.
SPECIFICATION Spec
CONSTANTS
    a = a  b = b  c = c  o1 = o1  o2 = o2  s1 = s1  s2 = s2  w1 = w1  w2 = w2
    Asset <- Assets
    Org = {o1, o2}
    OwnerOf <- Owners
    User <- Users
    Key <- Keys
    Session = {s1, s2}
    Import = {w1, w2}
    Hints <- Orders
    MaxCreates = 2
    MaxFaults = 1
SYMMETRY Symmetry
INVARIANTS TypeOK AnswersHold RequestsNeverBlock
PROPERTIES ImportsRelated
