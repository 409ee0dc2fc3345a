SPECIFICATION Spec
CONSTANTS
    Requests = {r1, r2}
    KeepAlive = loop
    Users = {admin, user}
    Admins = {admin}
    NoUser = nobody
    NoRow = norow
    Free = free
    MaxTokens = 3
    MaxIds = 2
    MaxRestarts = 0
SYMMETRY RequestSymmetry
CONSTRAINT FewCredentials
CHECK_DEADLOCK FALSE
INVARIANTS TypeOK NoReplay
PROPERTIES RetryUsesRenewed SeizedOnlyUnseen
