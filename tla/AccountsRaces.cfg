\* Registrations and logins racing on two names, scheduled fairly.
CONSTANTS
    Logins = {alice, bob}
    Passwords = {p1, p2, tiny}
    Short = {tiny}
    Reqs = {r1, r2, r3}
    NoOne = NoOne
    NoPassword = NoPassword
SPECIFICATION FairSpec
\* The model stops when every request is answered.
CHECK_DEADLOCK FALSE
INVARIANTS
    TypeOK
    ConflictMeansAccount
    LoginsAgree
PROPERTIES
    AccountsNeverChange
    EveryRequestAnswered
