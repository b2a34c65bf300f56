\* Two accounts taking turns on one device, one command at a time.
CONSTANTS
    Users = {alice, bob}
    Items = {i1, i2}
    Devices = {d1}
    Slots = {s1}
    MaxRev = 3
    Nobody = Nobody
    NoItem = NoItem
SPECIFICATION Spec
SYMMETRY Symmetry
INVARIANTS
    VaultOwned
    KeyMatchesAccount
