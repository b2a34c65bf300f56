\* Flags, metadata and sizes, on and beside the limits.
CONSTANTS
    Lines <- MCLines
    Names <- MCNames
SPECIFICATION Spec
\* The command ends.
CHECK_DEADLOCK FALSE
INVARIANTS
    SentIsMeant
    LimitsAgree
