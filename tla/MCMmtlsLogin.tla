--------------------------- MODULE MCMmtlsLogin ---------------------------
(* A small instance of MmtlsLogin for TLC. *)
EXTENDS MmtlsLogin

\* One answer has two addresses and a port that is not preferred, one has an address with two
\* preferred ports and no short link, one has nothing.
AnswersMC == {
    [long |-> [ips |-> {1, 2}, ports |-> {9000}], short |-> [ips |-> {3, 4}, ports |-> {80, 443}]],
    [long |-> [ips |-> {1, 2}, ports |-> {80, 8080}], short |-> [ips |-> {3}, ports |-> {443}]],
    [long |-> [ips |-> {}, ports |-> {80}], short |-> [ips |-> {}, ports |-> {}]]}

\* With and without the messages that matter, in both orders.
FlightsMC == {<<"Certificate", "CertVerify", "NewSessionTicket">>,
              <<"NewSessionTicket", "CertVerify">>,
              <<"NewSessionTicket">>, <<"CertVerify">>}
TicketTypesMC == {{1, 2}, {2}}
============================================================================
