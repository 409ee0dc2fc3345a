SPECIFICATION Spec
CONSTANTS
    Callers = {c1, c2}
    Accounts = {a1}
    Proxies = {direct, proxy1}
    Direct = direct
    NoCaller = NoCaller
    MaxLogin = 2
    MaxShort = 1
    FallbackDirect = TRUE
    MaxSession = 3
SYMMETRY CallerSymmetry
INVARIANTS TypeOK OneLoginPerKey SlotsAccounted NoOrphanSession SendsRightSession
PROPERTIES NoLiveSessionOverwritten
