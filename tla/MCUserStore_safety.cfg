SPECIFICATION Spec
CONSTANTS
    Requests = {r1, r2}
    MaxUsers = 3
    MaxSessions = 2
    MaxEpoch = 1
SYMMETRY RequestSymmetry
CHECK_DEADLOCK FALSE
INVARIANTS TypeOK OneFounder OnlyRacesSurvive
PROPERTIES AdminKept
CONSTRAINT OneSignedOut
