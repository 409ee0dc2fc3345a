SPECIFICATION Spec
CONSTANTS
    Clients = {c1, c2}
    MaxScans = 2
    Quicks = {quick}
    NoOne = noone
    MaxRestarts = 1
SYMMETRY ClientSymmetry
CONSTRAINT OneStory
CHECK_DEADLOCK FALSE
INVARIANTS TypeOK OneLogin
PROPERTIES AuthorizedKept ImageLostToOlderScan
