SPECIFICATION Spec
CONSTANTS
    Requests = {r1, r2, r3}
    Emails = {e1}
    NoEmail = NoEmail
    Cooldown = 2
    HourWindow = 5
    HourLimit = 2
    TTL = 3
    MaxAttempts = 2
    MaxEntries = 1
    MaxSend = 3
    MaxTime = 6
SYMMETRY RequestSymmetry
INVARIANTS CooldownKept
