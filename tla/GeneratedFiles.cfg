SPECIFICATION Spec
CONSTANTS
    a = a
    b = b
    slashA = slashA
    slashB = slashB
    Paths = {a, b, slashA, slashB}
    normalizePath <- WithoutSlash
    Calls = {c1, c2, c3}
    MaxRecords = 2
CONSTRAINT OneSlashed
SYMMETRY Interchange
INVARIANTS
    TypeOK
    CommitsKept
    StagedKept
    Agree
CHECK_DEADLOCK FALSE
