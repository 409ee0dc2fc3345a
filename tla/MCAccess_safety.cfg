SPECIFICATION Spec
CONSTANTS
    manager = manager
    member = member
    Users = {manager, member}
    Nobody = nobody
    Addresses = {i1, i2}
    Accounts = {1, 2}
    Requests = {r1, r2}
    Configs <- ConfigsMC
    Scripts <- ScriptsMC
    FailPerUser = 2
    FailPerIP = 2
    AttemptsMax = 3
    Scenes <- ScenesMC
SYMMETRY RequestSymmetry
CHECK_DEADLOCK FALSE
INVARIANTS TypeOK GuessesLimited
PROPERTIES ReachOnlyAsGranted
