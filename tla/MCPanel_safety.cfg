SPECIFICATION Spec
CONSTANTS
    Calls = {c1, c2}
    QingLongs = {ql}
    Daidais = {dd}
    NoPanel = nopanel
    Accounts = {acc}
    Foreign = foreign
    MaxEnvs = 2
    MaxRestarts = 1
CONSTRAINT Bounds
VIEW Relevant
SYMMETRY CallSymmetry
CHECK_DEADLOCK FALSE
INVARIANTS TypeOK ListAsTold SavedIsUsed
PROPERTIES StaleDriverOnlyByStatus
