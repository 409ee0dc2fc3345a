SPECIFICATION LinkSpec
CONSTANTS
    Answers <- AnswersMC
    Flights <- FlightsMC
    TicketTypes <- TicketTypesMC
    TCPProxyFallbackDirect = TRUE
    MaxTargets = 2
    MaxLogins = 1
INVARIANTS LinkTypeOK SessionKept RepeatedOnlyUnheard
PROPERTIES FailureHasCause
CHECK_DEADLOCK FALSE
