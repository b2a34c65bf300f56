\* Two accounts take turns on one device while a get runs.
CONSTANTS
    Users = {u1, u2}
    Items = {i1}
    Devices = {d1}
    Readers = {d1}
    Passwords = {w1, w2}
    Types = {text, binary}
    Binary = binary
    Nobody = Nobody
    MaxSealed = 2
    MaxRev = 3
SPECIFICATION Spec
SYMMETRY Symmetry
INVARIANTS
    TypeOK
    RightPasswordOpens
    ListedAreReadable
    NothingForeignShown
