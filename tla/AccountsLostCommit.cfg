\* A registration whose commit fails.
CONSTANTS
    Logins = {alice}
    Passwords = {p1}
    Short = {}
    Reqs = {r1, r2}
    NoOne = NoOne
    NoPassword = NoPassword
SPECIFICATION Spec
CHECK_DEADLOCK FALSE
INVARIANTS
    RegisteredUserExists
