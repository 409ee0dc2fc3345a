SPECIFICATION Spec
CONSTANTS
    Requests = {r1, r2}
    Accounts = {a1, a2}
    Owners = {u1, u2}
    Gone = gone
    NoAccount = none
    MaxCrons = 2
SYMMETRY Symmetry
CONSTRAINT FewChanges
CHECK_DEADLOCK FALSE
INVARIANTS TypeOK RecordsOwnCron Isolated GapOnlyByMove
