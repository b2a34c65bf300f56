\* Writers and a sync racing on one account.
CONSTANTS
    Users = {alice}
    Accounts = {alice}
    Items = {i1, i2}
    Reqs = {r1, r2, r3, r4}
    Ops = {"set", "delete", "changes"}
    Sinces = {0, 1}
    NoItem = NoItem
    NoBody = NoBody
SPECIFICATION Spec
SYMMETRY Symmetry
CHECK_DEADLOCK FALSE
INVARIANTS
    TypeOK
    RevsAreALine
    ChangesComplete
    SyncSeesThePast
    AcknowledgedWritesStay
    DeadlocksAreSetAgainstDelete
PROPERTIES
    CommitsInRevisionOrder
