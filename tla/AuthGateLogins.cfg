\* Two users log in by turns, through one life of a token and most of the next.
CONSTANTS
    Users = {u1, u2}
    Devices = {d1}
    Slots = {s1}
    Sec = 3
    Life = 2
    Handle = 1
    MaxTime = 10
    Nobody = Nobody
SPECIFICATION Spec
SYMMETRY Symmetry
INVARIANTS
    TypeOK
    AccessEndsInTime
    RefusedOnlyWhenOld
    LoginPersisted
