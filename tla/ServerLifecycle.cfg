\* Two requests at a time, clients that may stall, a stop at any moment.
CONSTANTS
    Reqs = {r1, r2}
    Timeout = 5
SPECIFICATION FairSpec
\* The process ends.
CHECK_DEADLOCK FALSE
INVARIANTS
    ShortRequestsDrain
PROPERTIES
    SignalEndsIt
