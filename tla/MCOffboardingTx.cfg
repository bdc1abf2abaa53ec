CONSTANTS
    Departments = {admin, it, hse}
    Workers = {w1, w2}
    MaxTries = 2
SPECIFICATION TxSpec
SYMMETRY Symmetry
INVARIANTS
    SnapshotCurrent
PROPERTIES
    AtomicSpec
