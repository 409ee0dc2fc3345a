---------------------------- MODULE MmtlsLogin ----------------------------
(***************************************************************************)
(* What the session pool treats as two steps that may fail: the login over *)
(* a long link (Pool.loginAndSession) and the sending of an envelope over  *)
(* a short link (send0RTT), from the name service to the last record.      *)
(*                                                                         *)
(* Cryptography is symbolic: a hash is what was hashed, a key is the       *)
(* label, the secret and the hash it was derived from, a record opens with *)
(* the key and the sequence number it was sealed with.  Packets are the    *)
(* terms that their parsers give back.  Each login has connections of its  *)
(* own and shares nothing but the name cache with other logins, so there   *)
(* is one request, and other requests are the action OthersResolve.        *)
(*                                                                         *)
(* WeChat's name service and servers, the proxy and the network are        *)
(* external.  They may fail to answer, stop in the middle, alter a hello,  *)
(* refuse the login or issue no ticket; each of these is noted in cause.   *)
(***************************************************************************)
EXTENDS Naturals, Sequences, FiniteSets, SequencesExt, FiniteSetsExt

CONSTANTS Answers,        \* what the name service may say: [long, short : [ips, ports]]
          Flights,        \* what a server may send after its hello: sequences of MsgTypes
          TicketTypes,    \* sets of ticket types a NewSessionTicket may hold: 1 is access, if
                          \* it has a lifetime (pickAccessPSK skips one that is over at once)
          TCPProxyFallbackDirect, \* PoolConfig.TCPProxyFallbackDirect
          MaxTargets,     \* orderLonglinkTargets keeps so many (6)
          MaxLogins       \* bound: logins made

\* An answer holds finitely many addresses and ports, a ticket message finitely many tickets;
\* the server's Finished is what comes after its flight.
ASSUME MmtlsLoginAssumption ==
    /\ TCPProxyFallbackDirect \in BOOLEAN
    /\ MaxTargets \in Nat \ {0} /\ MaxLogins \in Nat
    /\ \A answer \in Answers, use \in {"long", "short"} :
          IsFiniteSet(answer[use].ips) /\ IsFiniteSet(answer[use].ports)
    /\ \A flight \in Flights : flight \in Seq(STRING) /\ "Finished" \notin ToSet(flight)
    /\ \A types \in TicketTypes : IsFiniteSet(types)

VARIABLES dnsCache,  \* the answer in the cache; None: absent or over
          req,       \* the request
          conns,     \* connections that are open: [n, via]
          client,    \* mmtlsClient of the latest connection
          server,    \* its other end
          wire,      \* records under way on it: [up, down, open]
          cause,     \* the latest attempt on a target has met a fault
          issued,    \* WeChat: the keys of the access ticket and of the session of each connection
          wmpf,      \* the WmpfSession of the login; None before the first one
          executed,  \* WeChat: how often the envelope was carried out
          unheard    \* ... with an answer that was lost or empty

linkVars == <<dnsCache, req, conns, client, server, wire, cause, issued, wmpf, executed, unheard>>
link == <<client, server, wire>>
shortlink == <<executed, unheard>>

None == [none |-> TRUE]
DefaultShort == [ip |-> 0, port |-> 80]
NoTargets == [domain \in {"long", "short"} |-> [ips |-> {}, ports |-> {}]]
MaxConns == MaxLogins * MaxTargets
Stages == {"idle", "resolving", "dialing", "opening", "flight", "finishing", "authenticating",
           "answering", "resolvingShort", "ready", "sending", "awaiting"}

\* proxy: one was given; tries: hosts of the name service left; left: targets left; n: the
\* number of the latest connection; logins: loginAndSession was called so often.
Idle == [at |-> "idle", proxy |-> FALSE, tries |-> 0, left |-> <<>>, n |-> 0, logins |-> 0]
Proceed(at) == req' = [req EXCEPT !.at = at]
----------------------------------------------------------------------------
(* Terms *)

Msg(type, data) == [type |-> type, data |-> data]
Sealed(key, seq, msg) == [key |-> key, seq |-> seq, msg |-> msg]
Plain(msg) == Sealed(<<>>, 0, msg)
Opens(r, key, seq) == r.key = key /\ r.seq = seq

\* A key share names its end and its connection; an altered one is nobody's.
Share(end) == <<end, req.n>>
Altered(r) == [r EXCEPT !.msg.data = <<"altered", req.n>>]
\* Both ends have the same secret if each has the share of the other.
Secret(clientShare, serverShare) == <<clientShare, serverShare>>

Derived(label, secret, hash) == <<label, secret, hash>>
HandshakeKey(end, secret, hash) == Derived(<<"handshake", end>>, secret, hash)
AppKey(end, secret, hash) ==
    Derived(<<"application", end>>, Derived(<<"expanded">>, secret, hash), hash)
SessionKeys == [send |-> <<"send", req.n>>, recv |-> <<"recv", req.n>>]
\* The login is sealed for the public key of WeChat with a key pair of its own; the answer,
\* which holds the keys of the session, opens with that key pair and what was sent with it.
LoginRequest == Msg("ManualAuth", Share("ephemeral"))
LoginResponse(request) == Msg("ManualAuthResponse", <<request.data, SessionKeys>>)
ExtractSession(response) == response.data[2]
VerifyData(end, secret, hash) == Derived(<<"finished", end>>, secret, hash)
EarlyKey(psk) == Derived(<<"early">>, psk, <<"PSKClientHello">>)
AccessPSK(secret, hash) == Derived(<<"PSK_ACCESS">>, secret, hash)

\* The transcript up to the server's CertVerify, the last one; the hellos without one.
Certified(transcript) ==
    SubSeq(transcript, 1,
           Max({2} \cup {i \in DOMAIN transcript : transcript[i].type = "CertVerify"}))

(* An envelope goes with a hello that carries the ticket; it is sealed for the session in it. *)
Envelope == Msg("Transfer", wmpf.keys.send)
AnswerTypes == {"Code", "Response", "Empty"}
\* WeChat hashes the two hellos with or without the message between them.
Hashes == {<<"PSKClientHello", "ServerHello">>, <<"PSKClientHello", "Type8", "ServerHello">>,
           <<"PSKClientHello", "ServerHello", "Type8">>}
Answered(type, hash, seq) ==
    Sealed(Derived(<<"handshake">>, wmpf.psk, hash), seq, Msg(type, wmpf.keys.recv))
----------------------------------------------------------------------------
(* Targets *)

\* serversFor: every address with every port.
ServersFor(domain) == {[ip |-> i, port |-> p] : i \in domain.ips, p \in domain.ports}

\* Targets in the order of their addresses, those of an address in the order of their ports.
Place(target) == 65536 * target.ip + target.port
InOrder(targets) ==
    [i \in 1 .. Cardinality(targets) |->
        CHOOSE t \in targets : Cardinality({u \in targets : Place(u) < Place(t)}) = i - 1]

Preferred == <<8080, 80, 443, 5000>>
Rank(port) == CHOOSE i \in DOMAIN Preferred : Preferred[i] = port

\* orderLonglinkTargets: the best port of each address, in the order of the addresses; without
\* any port that is preferred, all targets.
OrderLonglinkTargets(targets) ==
    LET known == {t \in targets : t.port \in ToSet(Preferred)}
        best == {t \in known : \A u \in known : u.ip = t.ip => Rank(t.port) <= Rank(u.port)}
        sorted == InOrder(IF known = {} THEN targets ELSE best)
    IN SubSeq(sorted, 1, Min({MaxTargets, Len(sorted)}))

\* getShortlinkTargets: port 80 of each address, or the address that is built in.
ShortlinkTargets(targets) ==
    LET http == {t \in targets : t.port = 80} IN
    IF http = {} THEN <<DefaultShort>> ELSE InOrder(http)

\* dialTCP: the proxy, after it a direct connection where that is allowed.
Routes(proxy, fallback) ==
    IF ~proxy THEN {"direct"} ELSE {"proxy"} \cup (IF fallback THEN {"direct"} ELSE {})
----------------------------------------------------------------------------
(* The two ends of a connection *)

\* hChSh, hCertV, hFinal: the transcripts that were hashed; tx, rx: records sent and received.
NewClient == [transcript |-> <<>>, secret |-> <<>>, hChSh |-> <<>>, hCertV |-> <<>>,
              hFinal |-> <<>>, tickets |-> {}, keys |-> <<>>, tx |-> 0, rx |-> 0]
NewServer ==
    [at |-> "accepting", secret |-> <<>>, hChSh |-> <<>>, hFinal |-> <<>>, tx |-> 0, rx |-> 0]
NewWire == [up |-> <<>>, down |-> <<>>, open |-> TRUE]
\* The connection is given up, whether it is closed yet or not.
Forget == client' = NewClient /\ server' = NewServer /\ wire' = NewWire

ClientHello == Msg("ClientHello", Share("client"))
Arrived == wire.down # <<>>
Received == wire.down[1]
Take == wire' = [wire EXCEPT !.down = Tail(@)]
Send(key, msg) == wire' = [wire EXCEPT !.up = Append(@, Sealed(key, client.tx, msg))]

\* Where the client stands, the record it has received is one it goes on with.
Expected ==
    CASE req.at = "flight" /\ client.secret = <<>> -> Received.msg.type = "ServerHello"
      [] req.at = "flight" /\ client.secret # <<>> ->
            /\ Opens(Received, HandshakeKey("server", client.secret, client.hChSh), client.rx)
            /\ Received.msg.type = "Finished" =>
                  Received.msg.data = VerifyData("server", client.secret, client.transcript)
      [] req.at = "answering" ->
            /\ Opens(Received, AppKey("server", client.secret, client.hFinal), client.rx)
            /\ Received.msg.type = "ManualAuthResponse" /\ Received.msg.data[1] = LoginRequest.data
            /\ client.hCertV # <<>> /\ 1 \in client.tickets
----------------------------------------------------------------------------
(* Faulty variants, one per property. *)

\* sendPlain without counting the record.
SendClientHelloUncounted ==
    /\ req.at = "opening"
    /\ client' = [client EXCEPT !.transcript = <<ClientHello>>]
    /\ wire' = [wire EXCEPT !.up = Append(@, Plain(ClientHello))]
    /\ Proceed("flight")
    /\ UNCHANGED <<dnsCache, conns, server, cause, issued, wmpf, shortlink>>

\* recvServerFlight taking the hash of CertVerify before the message is fed.
RecvFlightHashedEarly ==
    LET msg == Received.msg
        transcript == Append(client.transcript, msg)
    IN
    /\ req.at = "flight" /\ client.secret # <<>> /\ Arrived /\ Expected
    /\ client' = [client EXCEPT !.transcript = transcript, !.rx = @ + 1,
                    !.hCertV = IF msg.type = "CertVerify" THEN client.transcript ELSE @,
                    !.tickets = IF msg.type = "NewSessionTicket" THEN ToSet(msg.data) ELSE @,
                    !.hFinal = IF msg.type = "Finished" THEN client.transcript ELSE @]
    /\ Proceed(IF msg.type = "Finished" THEN "finishing" ELSE "flight")
    /\ Take
    /\ UNCHANGED <<dnsCache, conns, server, cause, issued, wmpf, shortlink>>

\* send0RTT going on unless there is a code.
HeardCodeOnly ==
    /\ req.at = "awaiting" /\ Arrived
    /\ conns' = {}
    /\ IF Received.msg.type = "Code"
       THEN Proceed("idle") /\ UNCHANGED <<cause, unheard>>
       ELSE /\ req' = [req EXCEPT !.at = "sending", !.left = Tail(@)]
            /\ cause' = TRUE
            /\ unheard' = IF Received.msg.type = "Empty" THEN unheard + 1 ELSE unheard
    /\ Forget
    /\ UNCHANGED <<dnsCache, issued, wmpf, executed>>

\* send0RTTRaw without the deferred close.
TargetFailsLeftOpen ==
    /\ req.at = "awaiting" /\ ~Arrived /\ ~wire.open
    /\ req' = [req EXCEPT !.at = "sending", !.left = Tail(@)]
    /\ Forget
    /\ UNCHANGED <<dnsCache, conns, cause, issued, wmpf, shortlink>>
----------------------------------------------------------------------------
LinkInit ==
    /\ dnsCache = None
    /\ req = Idle
    /\ conns = {}
    /\ client = NewClient /\ server = NewServer /\ wire = NewWire
    /\ cause = FALSE
    /\ issued = [n \in 1 .. MaxConns |-> [psk |-> <<>>, keys |-> <<>>]]
    /\ wmpf = None
    /\ executed = 0 /\ unheard = 0

(* Names *)

Login(proxy) ==
    /\ req.at = "idle" /\ req.logins < MaxLogins
    /\ req' = [req EXCEPT !.at = "resolving", !.proxy = proxy, !.tries = 2, !.logins = @ + 1]
    /\ wmpf' = None
    /\ UNCHANGED <<dnsCache, conns, link, cause, issued, shortlink>>

\* loginAndSession goes on with the targets of the long link, or returns its result with those
\* of the short link; then its connections are closed.
Resolved(answer) ==
    \/ /\ req.at = "resolving"
       /\ req' = [req EXCEPT !.at = "dialing",
                             !.left = OrderLonglinkTargets(ServersFor(answer.long))]
       /\ UNCHANGED <<conns, wmpf, link>>
    \/ /\ req.at = "resolvingShort"
       /\ wmpf' = [n |-> req.n, keys |-> client.keys, proxy |-> req.proxy,
                   psk |-> AccessPSK(client.secret, client.hCertV),
                   targets |-> ShortlinkTargets(ServersFor(answer.short))]
       /\ conns' = {}
       /\ Forget
       /\ Proceed("ready")

ResolveCached ==
    /\ dnsCache # None
    /\ Resolved(dnsCache)
    /\ UNCHANGED <<dnsCache, cause, issued, shortlink>>

ResolveAnswered ==
    /\ dnsCache = None
    /\ \E answer \in Answers : dnsCache' = answer /\ Resolved(answer)
    /\ UNCHANGED <<cause, issued, shortlink>>

\* The host, then the address that is built in; without an answer the login fails, but the
\* short link has a target of its own.
ResolveFails ==
    /\ req.at \in {"resolving", "resolvingShort"} /\ dnsCache = None
    /\ \/ req.tries = 2 /\ req' = [req EXCEPT !.tries = 1] /\ UNCHANGED <<conns, wmpf, link>>
       \/ /\ req.tries = 1 /\ req.at = "resolving"
          /\ Proceed("idle")
          /\ UNCHANGED <<conns, wmpf, link>>
       \/ req.tries = 1 /\ req.at = "resolvingShort" /\ Resolved(NoTargets)
    /\ UNCHANGED <<dnsCache, cause, issued, shortlink>>

\* Other requests fill the cache, and its entry ends.
OthersResolve ==
    /\ req.at \in {"resolving", "resolvingShort"} /\ req.tries = 2
    /\ dnsCache' \in (Answers \cup {None}) \ {dnsCache}
    /\ UNCHANGED <<req, conns, link, cause, issued, wmpf, shortlink>>

(* The handshake *)

Dial ==
    /\ req.at = "dialing" /\ req.left # <<>>
    /\ req' = [req EXCEPT !.at = "opening", !.n = @ + 1]
    /\ \E via \in Routes(req.proxy, TCPProxyFallbackDirect) :
          conns' = conns \cup {[n |-> req.n + 1, via |-> via]}
    /\ client' = NewClient /\ server' = NewServer /\ wire' = NewWire
    /\ cause' = FALSE
    /\ UNCHANGED <<dnsCache, issued, wmpf, shortlink>>

DialFails ==
    /\ req.at = "dialing" /\ req.left # <<>>
    /\ req' = [req EXCEPT !.left = Tail(@)]
    /\ UNCHANGED <<dnsCache, conns, link, cause, issued, wmpf, shortlink>>

\* No target is left: what is open is closed, and the login has failed.
LoginGivesUp ==
    /\ req.at = "dialing" /\ req.left = <<>>
    /\ conns' = {}
    /\ Proceed("idle")
    /\ UNCHANGED <<dnsCache, link, cause, issued, wmpf, shortlink>>

SendClientHello ==
    /\ req.at = "opening"
    /\ client' = [client EXCEPT !.transcript = <<ClientHello>>, !.tx = @ + 1]
    /\ wire' = [wire EXCEPT !.up = Append(@, Plain(ClientHello))]
    /\ Proceed("flight")
    /\ UNCHANGED <<dnsCache, conns, server, cause, issued, wmpf, shortlink>>

RecvServerHello ==
    /\ req.at = "flight" /\ client.secret = <<>> /\ Arrived /\ Expected
    /\ LET transcript == Append(client.transcript, Received.msg) IN
       client' = [client EXCEPT !.transcript = transcript, !.hChSh = transcript, !.rx = @ + 1,
                                !.secret = Secret(Share("client"), Received.msg.data)]
    /\ Take
    /\ UNCHANGED <<dnsCache, req, conns, server, cause, issued, wmpf, shortlink>>

\* recvServerFlight: every message is fed; three types mean something.
RecvFlight ==
    LET msg == Received.msg
        transcript == Append(client.transcript, msg)
    IN
    /\ req.at = "flight" /\ client.secret # <<>> /\ Arrived /\ Expected
    /\ client' = [client EXCEPT !.transcript = transcript, !.rx = @ + 1,
                    !.hCertV = IF msg.type = "CertVerify" THEN transcript ELSE @,
                    !.tickets = IF msg.type = "NewSessionTicket" THEN ToSet(msg.data) ELSE @,
                    !.hFinal = IF msg.type = "Finished" THEN client.transcript ELSE @]
    /\ Proceed(IF msg.type = "Finished" THEN "finishing" ELSE "flight")
    /\ Take
    /\ UNCHANGED <<dnsCache, conns, server, cause, issued, wmpf, shortlink>>

SendClientFinished ==
    /\ req.at = "finishing"
    /\ Send(HandshakeKey("client", client.secret, client.hChSh),
            Msg("Finished", VerifyData("client", client.secret, client.hFinal)))
    /\ client' = [client EXCEPT !.tx = @ + 1]
    /\ Proceed("authenticating")
    /\ UNCHANGED <<dnsCache, conns, server, cause, issued, wmpf, shortlink>>

(* The login *)

SendManualAuth ==
    /\ req.at = "authenticating"
    /\ Send(AppKey("client", client.secret, client.hFinal), LoginRequest)
    /\ client' = [client EXCEPT !.tx = @ + 1]
    /\ Proceed("answering")
    /\ UNCHANGED <<dnsCache, conns, server, cause, issued, wmpf, shortlink>>

RecvManualAuth ==
    /\ req.at = "answering" /\ Arrived /\ Expected
    /\ client' = [client EXCEPT !.rx = @ + 1, !.keys = ExtractSession(Received.msg)]
    /\ req' = [req EXCEPT !.at = "resolvingShort", !.tries = 2]
    /\ Take
    /\ UNCHANGED <<dnsCache, conns, server, cause, issued, wmpf, shortlink>>

\* The connection ends, a record does not open or is not the one that is due.  connectMmtls
\* closes the connection; after the handshake it stays open until the login returns.
AttemptFails ==
    /\ req.at \in {"opening", "flight", "finishing", "authenticating", "answering"}
    /\ IF Arrived /\ req.at \in {"flight", "answering"} THEN ~Expected ELSE ~wire.open
    /\ req' = [req EXCEPT !.at = "dialing", !.left = Tail(@)]
    /\ conns' = IF req.at \in {"opening", "flight", "finishing"}
                THEN {k \in conns : k.n # req.n} ELSE conns
    /\ Forget
    /\ UNCHANGED <<dnsCache, cause, issued, wmpf, shortlink>>

(* WeChat's servers and the network *)

ServerTakes(key) == wire.up # <<>> /\ (key # <<>> => Opens(wire.up[1], key, server.rx))

\* The hello is answered with one and a flight of messages; the tickets are remembered.
AcceptHello ==
    /\ server.at = "accepting" /\ ServerTakes(<<>>)
    /\ \E flight \in Flights, types \in TicketTypes :
         LET secret == Secret(wire.up[1].msg.data, Share("server"))
             hellos == <<wire.up[1].msg, Msg("ServerHello", Share("server"))>>
             key == HandshakeKey("server", secret, hellos)
             fed == hellos \o [i \in 1 .. Len(flight) |->
                        Msg(flight[i], IF flight[i] = "NewSessionTicket"
                                       THEN SetToSeq(types) ELSE <<>>)]
             last == Msg("Finished", VerifyData("server", secret, fed))
             sent == Append(fed, last)
         IN
         /\ wire' = [wire EXCEPT !.up = Tail(@), !.down = <<Plain(hellos[2])>> \o
                        [i \in 1 .. Len(flight) + 1 |-> Sealed(key, i, sent[i + 2])]]
         /\ server' = [at |-> "greeted", secret |-> secret, hChSh |-> hellos, hFinal |-> fed,
                       rx |-> 1, tx |-> Len(flight) + 2]
         /\ issued' = [issued EXCEPT ![req.n].psk = AccessPSK(secret, Certified(fed))]
         /\ cause' = (\/ cause \/ 1 \notin types
                      \/ ~({"CertVerify", "NewSessionTicket"} \subseteq ToSet(flight)))
    /\ UNCHANGED <<dnsCache, req, conns, client, wmpf, shortlink>>

AcceptFinished ==
    /\ server.at = "greeted"
    /\ ServerTakes(HandshakeKey("client", server.secret, server.hChSh))
    /\ wire.up[1].msg = Msg("Finished", VerifyData("client", server.secret, server.hFinal))
    /\ wire' = [wire EXCEPT !.up = Tail(@)]
    /\ server' = [server EXCEPT !.at = "open", !.rx = @ + 1]
    /\ UNCHANGED <<dnsCache, req, conns, client, cause, issued, wmpf, shortlink>>

AnswerManualAuth ==
    /\ server.at = "open"
    /\ ServerTakes(AppKey("client", server.secret, server.hFinal))
    /\ \E answer \in {LoginResponse(wire.up[1].msg), Msg("Refusal", <<>>)} :
          /\ wire' = [wire EXCEPT !.up = Tail(@), !.down = Append(@,
                        Sealed(AppKey("server", server.secret, server.hFinal), server.tx, answer))]
          /\ cause' = (cause \/ answer.type = "Refusal")
    /\ server' = [server EXCEPT !.at = "done"]
    /\ issued' = [issued EXCEPT ![req.n].keys = SessionKeys]
    /\ UNCHANGED <<dnsCache, req, conns, client, wmpf, shortlink>>

\* A server hangs up on what does not open, or for a reason of its own.
HangUp ==
    /\ wire.up # <<>> /\ wire.open
    /\ \E opens \in BOOLEAN :
          /\ \/ /\ server.at = "greeted"
                /\ opens = ServerTakes(HandshakeKey("client", server.secret, server.hChSh))
             \/ /\ server.at = "open"
                /\ opens = ServerTakes(AppKey("client", server.secret, server.hFinal))
          /\ cause' = (cause \/ opens)
    /\ wire' = [wire EXCEPT !.up = <<>>, !.open = FALSE]
    /\ UNCHANGED <<dnsCache, req, conns, client, server, issued, wmpf, shortlink>>

Connected == req.at \in {"opening", "flight", "finishing", "authenticating", "answering"}

\* The connection breaks or goes quiet for longer than the timeout.
Break ==
    /\ Connected /\ wire.open
    /\ wire' = [up |-> <<>>, down |-> <<>>, open |-> FALSE]
    /\ cause' = TRUE
    /\ UNCHANGED <<dnsCache, req, conns, client, server, issued, wmpf, shortlink>>

AlterHello ==
    /\ Connected /\ ~cause
    /\ \/ wire.up # <<>> /\ wire.up[1].key = <<>> /\ wire' = [wire EXCEPT !.up[1] = Altered(@)]
       \/ Arrived /\ Received.key = <<>> /\ wire' = [wire EXCEPT !.down[1] = Altered(@)]
    /\ cause' = TRUE
    /\ UNCHANGED <<dnsCache, req, conns, client, server, issued, wmpf, shortlink>>

(* Sending an envelope *)

SendEnvelope ==
    /\ req.at = "ready"
    /\ req' = [req EXCEPT !.at = "sending", !.left = wmpf.targets]
    /\ executed' = 0 /\ unheard' = 0
    /\ UNCHANGED <<dnsCache, conns, link, cause, issued, wmpf>>

\* buildTransferPacket, then build0RTTRequest: a hello with the ticket, sealed with its key.
\* A session that was asked for over a proxy is not used without it.
SendTo ==
    /\ req.at = "sending" /\ req.left # <<>>
    /\ \E via \in Routes(wmpf.proxy, TCPProxyFallbackDirect /\ ~wmpf.proxy) :
          conns' = {[n |-> wmpf.n, via |-> via]}
    /\ client' = NewClient /\ server' = [NewServer EXCEPT !.at = "short"]
    /\ wire' = [NewWire EXCEPT !.up = <<Sealed(EarlyKey(wmpf.psk), 2, Envelope)>>]
    /\ cause' = FALSE
    /\ Proceed("awaiting")
    /\ UNCHANGED <<dnsCache, issued, wmpf, shortlink>>

SendToFails ==
    /\ req.at = "sending" /\ req.left # <<>>
    /\ req' = [req EXCEPT !.left = Tail(@)]
    /\ UNCHANGED <<dnsCache, conns, link, cause, issued, wmpf, shortlink>>

Execute ==
    /\ req.at = "awaiting" /\ wire.open /\ wire.up # <<>>
    /\ Opens(wire.up[1], EarlyKey(issued[wmpf.n].psk), 2)
    /\ wire.up[1].msg.data = issued[wmpf.n].keys.send
    /\ executed' = executed + 1
    /\ \E type \in AnswerTypes, hash \in Hashes, seq \in 1 .. 3 :
          wire' = [wire EXCEPT !.up = <<>>, !.down = <<Answered(type, hash, seq)>>]
    /\ UNCHANGED <<dnsCache, req, conns, client, server, cause, issued, wmpf, unheard>>

\* WeChat takes the ticket no more.
RefuseTicket ==
    /\ req.at = "awaiting" /\ wire.open /\ wire.up # <<>>
    /\ cause' = TRUE
    /\ wire' = [wire EXCEPT !.up = <<>>, !.open = FALSE]
    /\ UNCHANGED <<dnsCache, req, conns, client, server, issued, wmpf, shortlink>>

LoseAnswer ==
    /\ req.at = "awaiting" /\ wire.open
    /\ wire' = [up |-> <<>>, down |-> <<>>, open |-> FALSE]
    /\ cause' = TRUE
    /\ unheard' = IF Arrived THEN unheard + 1 ELSE unheard
    /\ UNCHANGED <<dnsCache, req, conns, client, server, issued, wmpf, executed>>

\* parse0RTTResponse tries three hashes with three sequence numbers.
Tried == {Answered(type, hash, seq) : type \in AnswerTypes, hash \in Hashes, seq \in 1 .. 3}

\* An answer with a code or with anything ends the sending; an empty one and a lost one lead
\* to the next target.
Heard ==
    /\ req.at = "awaiting" /\ Arrived
    /\ Received \in Tried
    /\ conns' = {}
    /\ IF Received.msg.type # "Empty"
       THEN Proceed("idle") /\ UNCHANGED <<cause, unheard>>
       ELSE /\ req' = [req EXCEPT !.at = "sending", !.left = Tail(@)]
            /\ cause' = TRUE /\ unheard' = unheard + 1
    /\ Forget
    /\ UNCHANGED <<dnsCache, issued, wmpf, executed>>

TargetFails ==
    /\ req.at = "awaiting"
    /\ IF Arrived THEN Received \notin Tried ELSE ~wire.open
    /\ req' = [req EXCEPT !.at = "sending", !.left = Tail(@)]
    /\ conns' = {}
    /\ Forget
    /\ UNCHANGED <<dnsCache, cause, issued, wmpf, shortlink>>

SendGivesUp ==
    /\ req.at = "sending" /\ req.left = <<>>
    /\ Proceed("idle")
    /\ UNCHANGED <<dnsCache, conns, link, cause, issued, wmpf, shortlink>>

LinkNext ==
    \/ \E proxy \in BOOLEAN : Login(proxy)
    \/ ResolveCached \/ ResolveAnswered \/ ResolveFails \/ OthersResolve
    \/ Dial \/ DialFails \/ LoginGivesUp
    \/ SendClientHello \/ RecvServerHello \/ RecvFlight \/ SendClientFinished
    \/ SendManualAuth \/ RecvManualAuth \/ AttemptFails
    \/ AcceptHello \/ AcceptFinished \/ AnswerManualAuth \/ HangUp \/ Break \/ AlterHello
    \/ SendEnvelope \/ SendTo \/ SendToFails \/ Execute \/ RefuseTicket \/ LoseAnswer
    \/ Heard \/ TargetFails \/ SendGivesUp

LinkSpec == LinkInit /\ [][LinkNext]_linkVars
----------------------------------------------------------------------------
(* Every variable has its type, and the connections of a login or of a     *)
(* sending are closed when it returns (connectMmtls, the deferred closes   *)
(* of loginAndSession and send0RTTRaw).                                    *)
LinkTypeOK ==
    /\ req.at \in Stages /\ req.n \in 0 .. MaxConns /\ req.tries \in 0 .. 2
    /\ dnsCache \in Answers \cup {None}
    /\ client.tx \in 0 .. 3 /\ client.rx \in Nat /\ client.tickets \in TicketTypes \cup {{}}
    /\ conns \subseteq [n : 1 .. MaxConns, via : {"proxy", "direct"}]
    /\ req.at \in {"idle", "resolving", "ready", "sending"} => conns = {}
    /\ Cardinality(conns) <= MaxTargets
    /\ cause \in BOOLEAN /\ executed \in Nat /\ unheard \in Nat

(* Nothing fails by itself: an attempt on a target fails only after the    *)
(* network, the proxy or WeChat has let it down.  Both ends number the     *)
(* records alike over plain and sealed ones, hash the same transcripts and *)
(* derive the same keys (mmtls_client.go:204, shortlink.go:124).           *)
FailureHasCause == [][AttemptFails \/ TargetFails => cause]_linkVars

(* The keys of a session, that of its ticket first, are those WeChat has   *)
(* for them: a login whose hellos were altered on the way never becomes a  *)
(* session (extractPSKs, recvServerFlight, hybridECDHDecrypt).             *)
KeysShared ==
    wmpf # None => wmpf.psk = issued[wmpf.n].psk /\ wmpf.keys = issued[wmpf.n].keys

(* An envelope is carried out again only for an answer that was lost or    *)
(* empty (send0RTT): trying the next target repeats no other one.          *)
RepeatedOnlyUnheard == executed <= unheard + 1

(* A session asked for over a proxy sends nothing without it; its login    *)
(* may have gone directly where that is allowed (sendEnvelope, dialTCP).   *)
ProxyKept ==
    \A k \in conns : k.via = "direct" =>
       IF req.at = "awaiting" THEN ~wmpf.proxy ELSE ~req.proxy \/ TCPProxyFallbackDirect

(* A session is used with the keys WeChat has for it, over the route it    *)
(* was asked for.                                                          *)
SessionKept == KeysShared /\ ProxyKept
============================================================================
