\* Every operation, two accounts and a token whose account does not exist,
\* with requests scheduled fairly.
CONSTANTS
    Users = {alice, bob, ghost}
    Accounts = {alice, bob}
    Items = {i1}
    Reqs = {r1, r2, r3}
    Ops = {"set", "delete", "get", "list", "changes"}
    Sinces <- SmallSinces
    NoItem = NoItem
    NoBody = NoBody
SPECIFICATION FairSpec
\* The model stops when every request is answered.
CHECK_DEADLOCK FALSE
INVARIANTS
    OwnRowsOnly
PROPERTIES
    ImplementsRevStore
    EveryRequestAnswered
