\* Commands of one account write the files, one after another; one reads.
CONSTANTS
    Procs = {writer, reader}
    Reader = reader
    Scripts <- MCScripts
    MaxFiles = 3
    MaxRev = 1
SPECIFICATION Spec
INVARIANTS
    TypeOK
    NeverTorn
    StateNotAhead
PROPERTIES
    ImplementsFileCells
