\* A login that stops between wiping the vault and saving the state.
CONSTANTS
    Users = {alice, bob}
    Items = {i1}
    Devices = {d1}
    Slots = {s1}
    MaxRev = 1
    Nobody = Nobody
    NoItem = NoItem
SPECIFICATION Spec
SYMMETRY Symmetry
INVARIANTS
    SyncedCompleteAtRest
