SPECIFICATION FairSpec
CONSTANTS
    Callers = {c1, c2}
    Accounts = {a1}
    Proxies = {direct, proxy1}
    Direct = direct
    NoCaller = NoCaller
    MaxLogin = 1
    MaxShort = 1
    FallbackDirect = TRUE
    MaxSession = 1
PROPERTIES CallReturns ImplementsLoginFlight
