SPECIFICATION Spec
CONSTANTS
    Requests = {r1}
    KeepAlive = loop
    Users = {admin}
    Admins = {admin}
    NoUser = nobody
    NoRow = norow
    Free = free
    MaxTokens = 2
    MaxIds = 1
    MaxRestarts = 1
CHECK_DEADLOCK FALSE
PROPERTIES DuePresented CallersAnswered
