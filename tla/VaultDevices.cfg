\* One account on two devices, one command at a time on each.
CONSTANTS
    Users = {alice}
    Items = {i1, i2}
    Devices = {d1, d2}
    Slots = {s1}
    MaxRev = 2
    Nobody = Nobody
    NoItem = NoItem
SPECIFICATION Spec
INVARIANTS
    TypeOK
    SyncedComplete
    VaultFaithful
    UpToDate
PROPERTIES
    VaultNeverGoesBack
    SyncedRevNeverGoesBack
    VaultsConverge
