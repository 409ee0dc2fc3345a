-------------------------- MODULE ScanLoginProofs --------------------------
(***************************************************************************)
(* Proofs about ScanLogin, for any number of requests, sessions and        *)
(* restarts.                                                               *)
(***************************************************************************)
EXTENDS ScanLogin, TLAPS

----------------------------------------------------------------------------
(* The inductive invariant *)

\* What a request has done and what it found go together with the session it is about.
\* The key parts: a request in the exchange holds the session's mutex, or has taken the
\* quick session out of its map, and the code has given nothing yet; the list of images to
\* remove names no session of the map that is as old as the request's own.
CallOK(c) ==
  LET k == call[c] IN
  /\ k.at = "pruned" => k.for = "scan" /\ k.names \subseteq made \ qrSessions
  /\ k.at = "fetching" => k.for = "scan"
  /\ k.at \in {"added", "written"} =>
        k.for = "scan" /\ k.id \in made \cap Scans /\ qrSessions \cap (1 .. k.id) \subseteq k.names
  /\ k.at = "listed" =>
        k.for = "scan" /\ k.id \in made \cap Scans /\ qrSessions \cap (1 .. k.id) \cap k.names = {}
  /\ k.at = "waiting" =>
        /\ k.for \in {"poll", "confirm"} /\ k.id \in made \cap Scans
        /\ won[k.id] = 1 => session[k.id].buffer
  /\ k.at = "polling" =>
        /\ k.for = "poll" /\ k.id \in made \cap Scans
        /\ session[k.id].mu = c /\ ~session[k.id].code
  /\ k.at \in {"presenting", "buffering"} =>
        /\ k.for = "confirm" /\ k.id \in made /\ won[k.id] = 0
        /\ k.id \in Scans => session[k.id].mu = c
        /\ k.id \notin quickSessions
  /\ k.at = "storing" => k.for = "confirm" /\ k.id \in made /\ won[k.id] = 1
  /\ k.at = "dropping" =>
        /\ k.id \in made \cap Scans
        /\ k.for = "poll" => k.early
        /\ k.for = "poll" \/ (k.for = "confirm" /\ k.id \in stored)
  /\ k.at = "removing" => k.id \in (made \cap Scans) \ qrSessions

Exchanging(c) == call[c].at \in {"presenting", "buffering"}

\* No two requests exchange the same code.
SoleExchange == \A c, d \in Clients :
  Exchanging(c) /\ Exchanging(d) /\ call[c].id = call[d].id => c = d

\* What is obtained is remembered, in the session or by taking the quick session away.
WonOnce ==
  /\ \A i \in Ids : won[i] \in {0, 1}
  /\ \A i \in Ids \ made : won[i] = 0
  /\ \A q \in quickSessions : won[q] = 0
  /\ \A i \in stored : won[i] = 1
  /\ \A s \in Scans : session[s].buffer => won[s] = 1
  /\ \A s \in qrSessions : won[s] = 1 => session[s].buffer

CallRecord == [at : Stages, for : {"none", "scan", "poll", "confirm"}, id : Ids \cup {0},
               names : SUBSET Scans, early : BOOLEAN]
SessionRecord == [code : BOOLEAN, jar : BOOLEAN, buffer : BOOLEAN, mu : Clients \cup {NoOne}]

\* The types, and the mutexes with the requests that hold them.
Typed ==
  /\ made \subseteq Ids
  /\ qrSessions \subseteq made \cap Scans /\ quickSessions \subseteq made \cap Quicks
  /\ images \cup stored \cup late \cup spent \subseteq made
  /\ session \in [Scans -> SessionRecord]
  /\ phone \in [Scans -> {"none", "shown", "scanned", "allowed", "denied", "over"}]
  /\ won \in [Ids -> Nat]
  /\ call \in [Clients -> CallRecord]
  /\ restarts \in 0 .. MaxRestarts

Holds(c, s) == call[c].id = s /\ call[c].at \in {"polling", "presenting", "buffering"}
MutexOK == \A s \in Scans : session[s].mu # NoOne => Holds(session[s].mu, s)

Core == Typed /\ MutexOK

IInv == Core /\ images \subseteq Scans /\ WonOnce /\ SoleExchange /\ \A c \in Clients : CallOK(c)

----------------------------------------------------------------------------
(* How a request's own record moves *)

\* The step moves request c only.
Moves(c) == call' \in [Clients -> CallRecord] /\ \A d \in Clients \ {c} : call'[d] = call[d]

\* Going on to another stage keeps the rest of the record.
LEMMA GotoMoves ==
  ASSUME Typed, NEW c \in Clients, NEW at \in Stages, Goto(c, at)
  PROVE  /\ Moves(c) /\ call'[c].at = at
         /\ call'[c].for = call[c].for /\ call'[c].id = call[c].id
         /\ call'[c].names = call[c].names /\ call'[c].early = call[c].early
<1>1. call[c] \in CallRecord /\ call' = [call EXCEPT ![c] = [call[c] EXCEPT !.at = at]]
  BY DEF Typed, Goto
<1>2. [call[c] EXCEPT !.at = at] \in CallRecord
  BY <1>1 DEF CallRecord
<1>3. QED
  BY <1>1, <1>2 DEF Typed, Moves, CallRecord

\* A finished request is idle.
LEMMA FinishMoves ==
  ASSUME Typed, NEW c \in Clients, Finish(c)
  PROVE  Moves(c) /\ call'[c].at = "idle" /\ call'[c].id = 0 /\ call'[c].for = "none"
<1>1. Idle \in CallRecord /\ Idle.at = "idle" /\ Idle.id = 0 /\ Idle.for = "none"
  BY DEF Idle, CallRecord, Stages
<1>2. QED
  BY <1>1 DEF Typed, Moves, Finish

----------------------------------------------------------------------------
(* What a step does to the others *)

\* The step of c respects what every other request relies on: ids are new in the map when
\* they enter it, sessions whose mutex another request holds stay as they are, and what has
\* been obtained is remembered.
Respects(c) ==
  /\ Moves(c)
  /\ made \subseteq made' /\ stored \subseteq stored'
  /\ \A s \in qrSessions' \ qrSessions : s \in Scans /\ \A i \in made \cap Scans : i \in 1 .. s - 1
  /\ quickSessions' \cap made \subseteq quickSessions
  /\ \A s \in Scans :
        /\ session[s].mu \notin {c, NoOne} => session'[s] = session[s]
        /\ session[s].buffer => session'[s].buffer
        /\ session'[s].mu \in {session[s].mu, c, NoOne}
        /\ session'[s].mu = c => call'[c].id = s /\ call'[c].at \in {"polling", "presenting", "buffering"}
  /\ \/ won' = won
     \/ /\ Exchanging(c) /\ call[c].id \in Ids
        /\ won' = [won EXCEPT ![call[c].id] = @ + 1]
        /\ call[c].id \in Scans => session'[call[c].id].buffer
  /\ call'[c].at \in {"presenting", "buffering"} /\ call'[c].id \notin Scans =>
        \/ Exchanging(c) /\ call'[c].id = call[c].id
        \/ call'[c].id \in quickSessions

\* Such a step leaves the others in order ...
LEMMA OthersKept ==
  ASSUME IInv, NEW c \in Clients, Respects(c), NEW d \in Clients \ {c}
  PROVE  CallOK(d)'
<1> DEFINE k == call[d]
<1>1. CallOK(d) /\ call'[d] = call[d] /\ d # NoOne /\ k \in CallRecord
  BY ScanLoginAssumption DEF Core, IInv, Respects, Moves, Typed
<1>2. made \subseteq made' /\ stored \subseteq stored'
  BY DEF Respects
<1>3. \A s \in qrSessions' : s \in qrSessions \/ s \notin made
  <2> SUFFICES ASSUME NEW s \in qrSessions' \ qrSessions, s \in made PROVE FALSE
    OBVIOUS
  <2>1. s \in Scans /\ s \in 1 .. s - 1
    BY DEF Respects
  <2>2. QED
    BY <2>1 DEF Scans
<1>4. \A s \in Scans : session[s].mu = d => session'[s] = session[s]
  BY <1>1 DEF Respects
<1>5. \A i \in Ids : won'[i] # won[i] => /\ Exchanging(c) /\ call[c].id = i
                                         /\ i \in Scans => session'[i].buffer
                                         /\ won[i] = 0 /\ won'[i] = 1
  BY DEF Core, Respects, IInv, Typed, CallOK, Exchanging
<1>6. CASE k.at \in {"pruned", "fetching", "removing", "idle"}
  BY <1>1, <1>2, <1>3, <1>6 DEF CallOK
<1>7. CASE k.at \in {"added", "written", "listed"}
  <2>1. k.id \in made \cap Scans
    BY <1>1, <1>7 DEF CallOK
  <2>2. qrSessions' \cap (1 .. k.id) \subseteq qrSessions
    <3> SUFFICES ASSUME NEW s \in qrSessions' \ qrSessions, s \in 1 .. k.id PROVE FALSE
      OBVIOUS
    <3>1. k.id \in 1 .. s - 1
      BY <2>1 DEF Respects
    <3>2. k.id \in Nat /\ s \in Nat
      BY <2>1 DEF Scans
    <3>3. QED
      BY <3>1, <3>2
  <2>3. QED
    BY <1>1, <1>2, <1>7, <2>1, <2>2 DEF CallOK
<1>8. CASE k.at = "waiting"
  <2>1. k.id \in made \cap Scans /\ k.id \in Ids
    BY <1>1, <1>8 DEF CallOK, Ids
  <2>2. won'[k.id] = 1 => session'[k.id].buffer
    BY <1>1, <1>5, <1>8, <2>1 DEF CallOK, Respects
  <2>3. QED
    BY <1>1, <1>2, <1>8, <2>1, <2>2 DEF CallOK
<1>9. CASE k.at = "polling"
  BY <1>1, <1>2, <1>4, <1>9 DEF CallOK
<1>10. CASE k.at \in {"presenting", "buffering"}
  <2>1. k.id \in made /\ k.id \in Ids
    BY <1>1, <1>10 DEF Core, CallOK, IInv, Typed
  <2>2. won'[k.id] = 0
    BY <1>1, <1>5, <1>10, <2>1 DEF CallOK, IInv, SoleExchange, Exchanging
  <2>3. k.id \notin quickSessions'
    BY <1>1, <1>10, <2>1 DEF CallOK, Respects
  <2>4. QED
    BY <1>1, <1>2, <1>4, <1>10, <2>1, <2>2, <2>3 DEF CallOK
<1>11. CASE k.at = "storing"
  <2>1. k.id \in made /\ k.id \in Ids
    BY <1>1, <1>11 DEF Core, CallOK, IInv, Typed
  <2>2. QED
    BY <1>1, <1>2, <1>5, <1>11, <2>1 DEF CallOK
<1>12. CASE k.at = "dropping"
  BY <1>1, <1>2, <1>12 DEF CallOK
<1>13. QED
  BY <1>1, <1>6, <1>7, <1>8, <1>9, <1>10, <1>11, <1>12 DEF CallRecord, Stages

\* ... keeps the mutexes with the requests that hold them ...
LEMMA MutexKept ==
  ASSUME IInv, NEW c \in Clients, Respects(c)
  PROVE  MutexOK'
<1> SUFFICES ASSUME NEW s \in Scans, session'[s].mu # NoOne
             PROVE  Holds(session[s].mu, s)'
  BY DEF MutexOK
<1>1. CASE session'[s].mu = c
  BY <1>1 DEF Respects, Holds
<1>2. CASE session'[s].mu # c
  <2>1. session'[s].mu = session[s].mu /\ session[s].mu \in Clients \ {c}
    BY <1>2 DEF Core, Respects, IInv, Typed, SessionRecord
  <2>2. Holds(session[s].mu, s)
    BY <2>1 DEF Core, IInv, MutexOK
  <2>3. QED
    BY <2>1, <2>2 DEF Holds, Respects, Moves
<1>3. QED
  BY <1>1, <1>2

\* ... and keeps every exchange to one request.
LEMMA SoleKept ==
  ASSUME IInv, NEW c \in Clients, Respects(c), \A d \in Clients : CallOK(d)'
  PROVE  SoleExchange'
<1> SUFFICES ASSUME NEW d \in Clients, NEW e \in Clients, Exchanging(d)', Exchanging(e)',
                    call'[d].id = call'[e].id, d # e
             PROVE  FALSE
  BY DEF SoleExchange
<1>1. call'[d].id \notin Scans
  BY DEF CallOK, Exchanging
<1>2. ASSUME NEW x \in Clients, Exchanging(x)', call'[x].id \notin Scans
      PROVE  \/ Exchanging(x) /\ call'[x].id = call[x].id
             \/ x = c /\ call'[x].id \in quickSessions
  BY <1>2 DEF Respects, Moves, Exchanging
<1>3. ASSUME NEW x \in Clients \ {c}, Exchanging(x)' PROVE call'[x].id \notin quickSessions
  BY <1>3 DEF Respects, Moves, Exchanging, IInv, CallOK
<1>4. QED
  BY <1>1, <1>2, <1>3 DEF IInv, SoleExchange

----------------------------------------------------------------------------
(* Each step of a request *)

\* A step of c keeps what the invariant says of c and of what is shared, and respects the
\* other requests.
StepOK(c) == Typed' /\ images' \subseteq Scans /\ Respects(c) /\ CallOK(c)' /\ WonOnce'

\* What the invariant says, part by part.
LEMMA Parts ==
  ASSUME IInv, NEW c \in Clients
  PROVE  /\ Typed /\ MutexOK /\ images \subseteq Scans /\ WonOnce /\ CallOK(c)
         /\ c # NoOne /\ call[c] \in CallRecord /\ call[c].id \in Ids \cup {0}
BY ScanLoginAssumption DEF Core, IInv, Typed, CallRecord

\* The old sessions leave the map.
LEMMA PruneQRStep ==
  ASSUME IInv, NEW c \in Clients, PruneQR(c)
  PROVE  StepOK(c)
<1> USE Parts
<1>1. /\ Moves(c) /\ call'[c].at = "pruned" /\ call'[c].for = "scan" /\ call'[c].id = 0
      /\ call'[c].names = qrSessions \cap late
  <2> DEFINE x == [Idle EXCEPT !.at = "pruned", !.for = "scan", !.names = qrSessions \cap late]
  <2>1. /\ x \in CallRecord /\ x.at = "pruned" /\ x.for = "scan" /\ x.id = 0
        /\ x.names = qrSessions \cap late
    BY DEF Typed, Idle, CallRecord, Stages
  <2>2. QED
    BY <2>1 DEF PruneQR, Typed, Moves
<1>2. Typed' /\ images' \subseteq Scans
  BY <1>1 DEF PruneQR, external, Typed, Moves, CallOK
<1>3. Respects(c)
  BY <1>1 DEF PruneQR, external, Respects, Typed, MutexOK, Holds, SessionRecord, CallOK, Exchanging
<1>4. CallOK(c)'
  BY <1>1 DEF PruneQR, external, CallOK, Typed
<1>5. WonOnce'
  BY <1>1 DEF PruneQR, external, WonOnce, Typed
<1>6. QED
  BY <1>2, <1>3, <1>4, <1>5 DEF StepOK

\* Their images go.
LEMMA RemovePrunedStep ==
  ASSUME IInv, NEW c \in Clients, RemovePruned(c)
  PROVE  StepOK(c)
<1> USE Parts
<1>1. /\ Moves(c) /\ call'[c].at = "fetching"
      /\ call'[c].for = call[c].for /\ call'[c].id = call[c].id
      /\ call'[c].names = call[c].names /\ call'[c].early = call[c].early
  BY GotoMoves DEF RemovePruned, Stages
<1>2. Typed' /\ images' \subseteq Scans
  BY <1>1 DEF RemovePruned, external, Typed, Moves, CallOK
<1>3. Respects(c)
  BY <1>1 DEF RemovePruned, external, Respects, Typed, MutexOK, Holds, SessionRecord, CallOK, Exchanging
<1>4. CallOK(c)'
  BY <1>1 DEF RemovePruned, external, CallOK, Typed
<1>5. WonOnce'
  BY <1>1 DEF RemovePruned, external, WonOnce, Typed
<1>6. QED
  BY <1>2, <1>3, <1>4, <1>5 DEF StepOK

\* No QR code.
LEMMA GetQRCodeImageFailsStep ==
  ASSUME IInv, NEW c \in Clients, GetQRCodeImageFails(c)
  PROVE  StepOK(c)
<1> USE Parts
<1>1. Moves(c) /\ call'[c].at = "idle" /\ call'[c].id = 0 /\ call'[c].for = "none"
  BY FinishMoves DEF GetQRCodeImageFails
<1>2. Typed' /\ images' \subseteq Scans
  BY <1>1 DEF GetQRCodeImageFails, external, Typed, Moves, CallOK
<1>3. Respects(c)
  BY <1>1 DEF GetQRCodeImageFails, external, Respects, Typed, MutexOK, Holds, SessionRecord, CallOK, Exchanging
<1>4. CallOK(c)'
  BY <1>1 DEF GetQRCodeImageFails, external, CallOK, Typed
<1>5. WonOnce'
  BY <1>1 DEF GetQRCodeImageFails, external, WonOnce, Typed
<1>6. QED
  BY <1>2, <1>3, <1>4, <1>5 DEF StepOK

\* The image of the new session is written.
LEMMA WriteImageStep ==
  ASSUME IInv, NEW c \in Clients, WriteImage(c)
  PROVE  StepOK(c)
<1> USE Parts
<1>1. /\ Moves(c) /\ call'[c].at = "written"
      /\ call'[c].for = call[c].for /\ call'[c].id = call[c].id
      /\ call'[c].names = call[c].names /\ call'[c].early = call[c].early
  BY GotoMoves DEF WriteImage, Stages
<1>2. Typed' /\ images' \subseteq Scans
  BY <1>1 DEF WriteImage, external, Typed, Moves, CallOK
<1>3. Respects(c)
  BY <1>1 DEF WriteImage, external, Respects, Typed, MutexOK, Holds, SessionRecord, CallOK, Exchanging
<1>4. CallOK(c)'
  BY <1>1 DEF WriteImage, external, CallOK, Typed
<1>5. WonOnce'
  BY <1>1 DEF WriteImage, external, WonOnce, Typed
<1>6. QED
  BY <1>2, <1>3, <1>4, <1>5 DEF StepOK

\* The images that are not on the keep list are found.
LEMMA ListImagesStep ==
  ASSUME IInv, NEW c \in Clients, ListImages(c)
  PROVE  StepOK(c)
<1> USE Parts
<1>1. /\ Moves(c) /\ call'[c].at = "listed" /\ call'[c].for = call[c].for
      /\ call'[c].id = call[c].id /\ call'[c].names = images \ call[c].names
  <2> DEFINE x == [call[c] EXCEPT !.at = "listed", !.names = images \ call[c].names]
  <2>1. /\ x \in CallRecord /\ x.at = "listed" /\ x.for = call[c].for /\ x.id = call[c].id
        /\ x.names = images \ call[c].names
    BY DEF Typed, CallRecord, Stages, IInv
  <2>2. call' = [call EXCEPT ![c] = x]
    BY DEF ListImages
  <2>3. QED
    BY <2>1, <2>2 DEF Typed, Moves
<1>2. Typed' /\ images' \subseteq Scans
  BY <1>1 DEF ListImages, external, Typed, Moves, CallOK
<1>3. Respects(c)
  BY <1>1 DEF ListImages, external, Respects, Typed, MutexOK, Holds, SessionRecord, CallOK, Exchanging
<1>4. CallOK(c)'
  BY <1>1 DEF ListImages, external, CallOK, Typed
<1>5. WonOnce'
  BY <1>1 DEF ListImages, external, WonOnce, Typed
<1>6. QED
  BY <1>2, <1>3, <1>4, <1>5 DEF StepOK

\* They are removed, and the code is shown.
LEMMA RemoveListedStep ==
  ASSUME IInv, NEW c \in Clients, RemoveListed(c)
  PROVE  StepOK(c)
<1> USE Parts
<1>1. Moves(c) /\ call'[c].at = "idle" /\ call'[c].id = 0 /\ call'[c].for = "none"
  BY FinishMoves DEF RemoveListed
<1>2. Typed' /\ images' \subseteq Scans
  BY <1>1 DEF RemoveListed, external, Typed, Moves, CallOK
<1>3. Respects(c)
  BY <1>1 DEF RemoveListed, external, Respects, Typed, MutexOK, Holds, SessionRecord, CallOK, Exchanging
<1>4. CallOK(c)'
  BY <1>1 DEF RemoveListed, external, CallOK, Typed
<1>5. WonOnce'
  BY <1>1 DEF RemoveListed, external, WonOnce, Typed
<1>6. QED
  BY <1>2, <1>3, <1>4, <1>5 DEF StepOK

\* A request finds its session in the map.
LEMMA FindStep ==
  ASSUME IInv, NEW c \in Clients, NEW s \in Scans, NEW for \in {"poll", "confirm"}, Find(c, s, for)
  PROVE  StepOK(c)
<1> USE Parts
<1>1. /\ Moves(c) /\ call'[c].at = "waiting" /\ call'[c].for = for /\ call'[c].id = s
  <2> DEFINE x == [Idle EXCEPT !.at = "waiting", !.for = for, !.id = s]
  <2>1. x \in CallRecord /\ x.at = "waiting" /\ x.for = for /\ x.id = s
    BY DEF Typed, Idle, CallRecord, Stages, Ids
  <2>2. QED
    BY <2>1 DEF Find, Typed, Moves
<1>2. Typed' /\ images' \subseteq Scans
  BY <1>1 DEF Find, external, Typed, Moves, CallOK
<1>3. Respects(c)
  BY <1>1 DEF Find, external, Respects, Typed, MutexOK, Holds, SessionRecord, CallOK, Exchanging
<1>4. CallOK(c)'
  BY <1>1 DEF Find, external, CallOK, Typed, WonOnce
<1>5. WonOnce'
  BY <1>1 DEF Find, external, WonOnce, Typed
<1>6. QED
  BY <1>2, <1>3, <1>4, <1>5 DEF StepOK

\* A poll that fails gives the mutex up.
LEMMA PollFailsStep ==
  ASSUME IInv, NEW c \in Clients, PollFails(c)
  PROVE  StepOK(c)
<1> USE Parts
<1>1. Moves(c) /\ call'[c].at = "idle" /\ call'[c].id = 0 /\ call'[c].for = "none"
  BY FinishMoves DEF PollFails
<1>2. Typed' /\ images' \subseteq Scans
  BY <1>1 DEF PollFails, Release, external, Typed, Moves, CallOK, SessionRecord
<1>3. Respects(c)
  BY <1>1 DEF PollFails, Release, external, Respects, Typed, MutexOK, Holds, SessionRecord, CallOK, Exchanging
<1>4. CallOK(c)'
  BY <1>1 DEF PollFails, external, CallOK, Typed
<1>5. WonOnce'
  BY <1>1 DEF PollFails, Release, external, WonOnce, Typed, SessionRecord
<1>6. QED
  BY <1>2, <1>3, <1>4, <1>5 DEF StepOK

\* The code is presented.
LEMMA CallbackStep ==
  ASSUME IInv, NEW c \in Clients, Callback(c)
  PROVE  StepOK(c)
<1> USE Parts
<1>1. /\ Moves(c) /\ call'[c].at = "buffering"
      /\ call'[c].for = call[c].for /\ call'[c].id = call[c].id
      /\ call'[c].names = call[c].names /\ call'[c].early = call[c].early
  BY GotoMoves DEF Callback, Stages
<1>2. Typed' /\ images' \subseteq Scans
  <2> DEFINE i == call[c].id
  <2>1. i \in made /\ i \in Ids
    BY DEF Callback, CallOK, Typed
  <2>2. session' \in [Scans -> SessionRecord]
    <3>1. CASE i \in Scans
      <4>1. session[i] \in SessionRecord
        BY <3>1 DEF Typed
      <4>2. [session[i] EXCEPT !.jar = TRUE] \in SessionRecord
        BY <4>1 DEF SessionRecord
      <4>3. session' = [session EXCEPT ![i] = [session[i] EXCEPT !.jar = TRUE]]
        BY <3>1 DEF Callback
      <4>4. QED
        BY <4>2, <4>3 DEF Typed
    <3>2. CASE i \notin Scans
      BY <3>2 DEF Callback, Typed
    <3>3. QED
      BY <3>1, <3>2
  <2>3. QED
    BY <1>1, <2>1, <2>2 DEF Callback, Typed, Moves
<1>3. Respects(c)
  BY <1>1 DEF Callback, external, Respects, Typed, MutexOK, Holds, SessionRecord, CallOK, Exchanging
<1>4. CallOK(c)'
  BY <1>1 DEF Callback, external, CallOK, Typed
<1>5. WonOnce'
  BY <1>1 DEF Callback, external, WonOnce, Typed
<1>6. QED
  BY <1>2, <1>3, <1>4, <1>5 DEF StepOK

\* The login buffer arrives, once.
LEMMA GotBufferStep ==
  ASSUME IInv, NEW c \in Clients, GotBuffer(c)
  PROVE  StepOK(c)
<1> USE Parts
<1>1. /\ Moves(c) /\ call'[c].at = "storing"
      /\ call'[c].for = call[c].for /\ call'[c].id = call[c].id
      /\ call'[c].names = call[c].names /\ call'[c].early = call[c].early
  BY GotoMoves DEF GotBuffer, Stages
<1>2. Typed' /\ images' \subseteq Scans
  <2> DEFINE i == call[c].id
  <2>1. i \in made /\ i \in Ids
    BY DEF GotBuffer, CallOK, Typed
  <2>2. session' \in [Scans -> SessionRecord]
    <3>1. CASE i \in Scans
      <4>1. session[i] \in SessionRecord
        BY <3>1 DEF Typed
      <4>2. [session[i] EXCEPT !.buffer = TRUE, !.mu = NoOne] \in SessionRecord
        BY <4>1 DEF SessionRecord
      <4>3. session' = [session EXCEPT ![i] = [session[i] EXCEPT !.buffer = TRUE, !.mu = NoOne]]
        BY <3>1 DEF GotBuffer
      <4>4. QED
        BY <4>2, <4>3 DEF Typed
    <3>2. CASE i \notin Scans
      BY <3>2 DEF GotBuffer, Typed
    <3>3. QED
      BY <3>1, <3>2
  <2>3. QED
    BY <1>1, <2>1, <2>2 DEF GotBuffer, Typed, Moves
<1>3. Respects(c)
  <2> DEFINE i == call[c].id
  <2>1. /\ made' = made /\ stored' = stored /\ qrSessions' = qrSessions
        /\ quickSessions' = quickSessions
    BY DEF GotBuffer
  <2>2. /\ Exchanging(c) /\ i \in made /\ i \in Ids /\ won' = [won EXCEPT ![i] = @ + 1]
        /\ i \in Scans => session[i].mu = c
    BY DEF GotBuffer, CallOK, Typed, Exchanging
  <2>3. ASSUME NEW s \in Scans, s = i
        PROVE  session'[s].buffer /\ session'[s].mu = NoOne /\ session[s].mu = c
    BY <2>2, <2>3 DEF GotBuffer, Typed, SessionRecord
  <2>4. ASSUME NEW s \in Scans, s # i
        PROVE  session'[s] = session[s] /\ session[s].mu # c
    <3>1. session'[s] = session[s]
      BY <2>4 DEF GotBuffer, Typed
    <3>2. session[s].mu # c
      BY <2>4 DEF MutexOK, Holds
    <3>3. QED
      BY <3>1, <3>2
  <2>5. QED
    BY <1>1, <2>1, <2>2, <2>3, <2>4 DEF Respects
<1>4. CallOK(c)'
  BY <1>1 DEF GotBuffer, external, CallOK, Typed
<1>5. WonOnce'
  <2> DEFINE i == call[c].id
  <2>1. i \in made /\ i \in Ids /\ won[i] = 0 /\ i \notin quickSessions /\ i \notin stored
    BY DEF GotBuffer, CallOK, Typed, WonOnce
  <2>2. won'[i] = 1 /\ \A j \in Ids \ {i} : won'[j] = won[j]
    BY <2>1 DEF GotBuffer, Typed
  <2>3. /\ \A s \in Scans \ {i} : session'[s] = session[s]
        /\ i \in Scans => session'[i].buffer
    BY DEF GotBuffer, Typed, SessionRecord
  <2>4. UNCHANGED <<made, quickSessions, stored, qrSessions>>
    BY DEF GotBuffer
  <2>5. QED
    BY <2>1, <2>2, <2>3, <2>4 DEF WonOnce, Ids, Typed
<1>6. QED
  BY <1>2, <1>3, <1>4, <1>5 DEF StepOK

\* An exchange that fails gives the mutex up.
LEMMA ExchangeFailsStep ==
  ASSUME IInv, NEW c \in Clients, ExchangeFails(c)
  PROVE  StepOK(c)
<1> USE Parts
<1>1. Moves(c) /\ call'[c].at = "idle" /\ call'[c].id = 0 /\ call'[c].for = "none"
  BY FinishMoves DEF ExchangeFails
<1>2. Typed' /\ images' \subseteq Scans
  <2> DEFINE i == call[c].id
  <2>1. i \in made /\ i \in Ids
    BY DEF ExchangeFails, CallOK, Typed
  <2>2. session' \in [Scans -> SessionRecord]
    <3>1. CASE i \in Scans
      <4>1. session[i] \in SessionRecord
        BY <3>1 DEF Typed
      <4>2. [session[i] EXCEPT !.mu = NoOne] \in SessionRecord
        BY <4>1 DEF SessionRecord
      <4>3. session' = [session EXCEPT ![i] = [session[i] EXCEPT !.mu = NoOne]]
        BY <3>1 DEF ExchangeFails
      <4>4. QED
        BY <4>2, <4>3 DEF Typed
    <3>2. CASE i \notin Scans
      BY <3>2 DEF ExchangeFails, Typed
    <3>3. QED
      BY <3>1, <3>2
  <2>3. QED
    BY <1>1, <2>1, <2>2 DEF ExchangeFails, Typed, Moves
<1>3. Respects(c)
  BY <1>1 DEF ExchangeFails, external, Respects, Typed, MutexOK, Holds, SessionRecord, CallOK, Exchanging
<1>4. CallOK(c)'
  BY <1>1 DEF ExchangeFails, external, CallOK, Typed
<1>5. WonOnce'
  BY <1>1 DEF ExchangeFails, external, WonOnce, Typed
<1>6. QED
  BY <1>2, <1>3, <1>4, <1>5 DEF StepOK

\* Nothing is stored.
LEMMA StoreFailsStep ==
  ASSUME IInv, NEW c \in Clients, StoreFails(c)
  PROVE  StepOK(c)
<1> USE Parts
<1>1. Moves(c) /\ call'[c].at = "idle" /\ call'[c].id = 0 /\ call'[c].for = "none"
  BY FinishMoves DEF StoreFails
<1>2. Typed' /\ images' \subseteq Scans
  BY <1>1 DEF StoreFails, external, Typed, Moves, CallOK
<1>3. Respects(c)
  BY <1>1 DEF StoreFails, external, Respects, Typed, MutexOK, Holds, SessionRecord, CallOK, Exchanging
<1>4. CallOK(c)'
  BY <1>1 DEF StoreFails, external, CallOK, Typed
<1>5. WonOnce'
  BY <1>1 DEF StoreFails, external, WonOnce, Typed
<1>6. QED
  BY <1>2, <1>3, <1>4, <1>5 DEF StepOK

\* A session that is stored or over leaves the map.
LEMMA DropQRSessionStep ==
  ASSUME IInv, NEW c \in Clients, DropQRSession(c)
  PROVE  StepOK(c)
<1> USE Parts
<1>1. /\ Moves(c) /\ call'[c].at = "removing"
      /\ call'[c].for = call[c].for /\ call'[c].id = call[c].id
      /\ call'[c].names = call[c].names /\ call'[c].early = call[c].early
  BY GotoMoves DEF DropQRSession, Stages
<1>2. Typed' /\ images' \subseteq Scans
  BY <1>1 DEF DropQRSession, external, Typed, Moves, CallOK
<1>3. Respects(c)
  BY <1>1 DEF DropQRSession, external, Respects, Typed, MutexOK, Holds, SessionRecord, CallOK, Exchanging
<1>4. CallOK(c)'
  BY <1>1 DEF DropQRSession, external, CallOK, Typed
<1>5. WonOnce'
  BY <1>1 DEF DropQRSession, external, WonOnce, Typed
<1>6. QED
  BY <1>2, <1>3, <1>4, <1>5 DEF StepOK

\* Its image goes.
LEMMA RemoveImageStep ==
  ASSUME IInv, NEW c \in Clients, RemoveImage(c)
  PROVE  StepOK(c)
<1> USE Parts
<1>1. Moves(c) /\ call'[c].at = "idle" /\ call'[c].id = 0 /\ call'[c].for = "none"
  BY FinishMoves DEF RemoveImage
<1>2. Typed' /\ images' \subseteq Scans
  BY <1>1 DEF RemoveImage, external, Typed, Moves, CallOK
<1>3. Respects(c)
  BY <1>1 DEF RemoveImage, external, Respects, Typed, MutexOK, Holds, SessionRecord, CallOK, Exchanging
<1>4. CallOK(c)'
  BY <1>1 DEF RemoveImage, external, CallOK, Typed
<1>5. WonOnce'
  BY <1>1 DEF RemoveImage, external, WonOnce, Typed
<1>6. QED
  BY <1>2, <1>3, <1>4, <1>5 DEF StepOK

\* A request that has no mutex and moves on without one changes nothing for the others.
LEMMA PlainStep ==
  ASSUME IInv, NEW c \in Clients, Moves(c), UNCHANGED <<made, qrSessions, quickSessions, images>>,
         UNCHANGED <<session, late, phone, spent, won, stored, restarts>>,
         call[c].at \notin {"polling", "presenting", "buffering"}, CallOK(c)',
         call'[c].at \notin {"presenting", "buffering"}
  PROVE  StepOK(c)
<1> USE Parts
<1>1. Typed' /\ images' \subseteq Scans
  BY DEF Typed, Moves
<1>2. Respects(c)
  BY DEF Respects, Typed, MutexOK, Holds, SessionRecord, Exchanging
<1>3. WonOnce'
  BY DEF WonOnce
<1>4. QED
  BY <1>1, <1>2, <1>3 DEF StepOK

\* Taking the mutex of a session nobody holds.
LEMMA LockStep ==
  ASSUME IInv, NEW c \in Clients, call[c].at = "waiting", session[call[c].id].mu = NoOne,
         NEW at \in {"polling", "presenting"}, Goto(c, at),
         session' = [session EXCEPT ![call[c].id].mu = c],
         UNCHANGED <<made, qrSessions, quickSessions, images, external>>,
         at = "polling" => call[c].for = "poll" /\ ~session[call[c].id].code,
         at = "presenting" => call[c].for = "confirm" /\ ~session[call[c].id].buffer
  PROVE  StepOK(c)
<1> USE Parts DEF external
<1> DEFINE s == call[c].id
<1>1. /\ Moves(c) /\ call'[c].at = at
      /\ call'[c].for = call[c].for /\ call'[c].id = call[c].id
  BY GotoMoves DEF Stages
<1>2. s \in made \cap Scans /\ s \in Ids /\ session[s] \in SessionRecord
  BY DEF CallOK, Typed, Ids
<1>3. /\ session'[s] = [session[s] EXCEPT !.mu = c] /\ session'[s] \in SessionRecord
      /\ session'[s].mu = c /\ session'[s].code = session[s].code
      /\ session'[s].buffer = session[s].buffer
      /\ \A z \in Scans \ {s} : session'[z] = session[z]
  BY <1>2 DEF SessionRecord, Typed
<1>4. session' \in [Scans -> SessionRecord]
  BY <1>2, <1>3 DEF Typed
<1>5. Typed' /\ images' \subseteq Scans
  BY <1>1, <1>4 DEF Typed, Moves
<1>6. Respects(c)
  BY <1>1, <1>2, <1>3 DEF Respects, Typed, MutexOK, Holds
<1>7. /\ won[s] \in {0, 1}
      /\ won[s] = 1 => session[s].buffer
  BY <1>2 DEF CallOK, WonOnce
<1>8. s \notin quickSessions
  BY <1>2, ScanLoginAssumption DEF Typed
<1>9. CallOK(c)'
  BY <1>1, <1>2, <1>3, <1>7, <1>8 DEF CallOK
<1>10. WonOnce'
  BY <1>3 DEF WonOnce
<1>11. QED
  BY <1>5, <1>6, <1>9, <1>10 DEF StepOK

\* A poll answers from what the session knows, or takes the session to ask.
LEMMA LockToPollStep ==
  ASSUME IInv, NEW c \in Clients, LockToPoll(c)
  PROVE  StepOK(c)
<1>1. CASE Finish(c) /\ UNCHANGED session
  <2>1. Moves(c) /\ call'[c].at = "idle"
    BY <1>1, Parts, FinishMoves
  <2>2. CallOK(c)'
    BY <2>1 DEF CallOK
  <2>3. QED
    BY <1>1, <2>1, <2>2, PlainStep DEF LockToPoll, external
<1>2. CASE /\ Goto(c, "polling") /\ ~session[call[c].id].code
           /\ session' = [session EXCEPT ![call[c].id].mu = c]
  BY <1>2, LockStep DEF LockToPoll
<1>3. QED
  BY <1>1, <1>2 DEF LockToPoll

\* A confirmation answers from what a former one obtained, refuses, or begins the exchange.
LEMMA LockToConfirmStep ==
  ASSUME IInv, NEW c \in Clients, LockToConfirm(c)
  PROVE  StepOK(c)
<1> DEFINE s == call[c].id
<1>1. CASE Finish(c) /\ UNCHANGED session
  <2>1. Moves(c) /\ call'[c].at = "idle"
    BY <1>1, Parts, FinishMoves
  <2>2. CallOK(c)'
    BY <2>1 DEF CallOK
  <2>3. QED
    BY <1>1, <2>1, <2>2, PlainStep DEF LockToConfirm, external
<1>2. CASE Goto(c, "storing") /\ UNCHANGED session /\ session[s].buffer
  <2>1. /\ Moves(c) /\ call'[c].at = "storing" /\ call'[c].for = "confirm"
        /\ call'[c].id = s /\ s \in made \cap Scans /\ won[s] = 1
    BY <1>2, Parts, GotoMoves DEF LockToConfirm, Stages, CallOK, WonOnce
  <2>2. CallOK(c)'
    BY <2>1 DEF CallOK, LockToConfirm, external
  <2>3. QED
    BY <1>2, <2>1, <2>2, PlainStep DEF LockToConfirm, external
<1>3. CASE /\ Goto(c, "presenting") /\ ~session[s].buffer
           /\ session' = [session EXCEPT ![s].mu = c]
  BY <1>3, LockStep DEF LockToConfirm
<1>4. QED
  BY <1>1, <1>2, <1>3 DEF LockToConfirm

\* What WeChat answered is noted and the mutex given up, before the session is dropped.
LEMMA PollAnsweredStep ==
  ASSUME IInv, NEW c \in Clients, PollAnswered(c)
  PROVE  StepOK(c)
<1> USE Parts
<1> DEFINE s == call[c].id
<1>1. PICK answer : /\ session' = [session EXCEPT ![s].mu = NoOne,
                                                  ![s].code = @ \/ answer = "authorized"]
                    /\ IF TerminalQR(answer)
                       THEN call' = [call EXCEPT ![c].at = "dropping", ![c].early = ~session[s].code]
                       ELSE Finish(c)
  BY DEF PollAnswered
<1>2. /\ call[c].for = "poll" /\ s \in made \cap Scans /\ s \in Ids /\ session[s].mu = c
      /\ ~session[s].code /\ session[s] \in SessionRecord
  BY DEF PollAnswered, CallOK, Typed, Ids
<1>3. /\ session'[s] \in SessionRecord /\ session'[s].mu = NoOne
      /\ session'[s].buffer = session[s].buffer
      /\ \A z \in Scans \ {s} : session'[z] = session[z]
  BY <1>1, <1>2 DEF SessionRecord, Typed
<1>4. session' \in [Scans -> SessionRecord]
  BY <1>1, <1>3 DEF Typed
<1>5. Moves(c) /\ CallOK(c)' /\ call'[c].at \in {"dropping", "idle"}
  <2>1. CASE TerminalQR(answer)
    <3> DEFINE x == [call[c] EXCEPT !.at = "dropping", !.early = ~session[s].code]
    <3>1. call' = [call EXCEPT ![c] = x]
      BY <1>1, <2>1
    <3>2. /\ x \in CallRecord /\ x.at = "dropping" /\ x.id = s /\ x.for = "poll" /\ x.early
      BY <1>2 DEF CallRecord, Stages
    <3>3. Moves(c) /\ call'[c] = x
      BY <3>1, <3>2 DEF Moves, Typed
    <3>4. QED
      BY <1>2, <3>2, <3>3 DEF CallOK, PollAnswered
  <2>2. CASE ~TerminalQR(answer)
    BY <1>1, <2>2, FinishMoves DEF CallOK
  <2>3. QED
    BY <2>1, <2>2
<1>6. Typed' /\ images' \subseteq Scans
  BY <1>4, <1>5 DEF PollAnswered, external, Typed, Moves
<1>7. Respects(c)
  <2>1. ASSUME NEW z \in Scans
        PROVE  /\ session[z].mu \notin {c, NoOne} => session'[z] = session[z]
               /\ session[z].buffer => session'[z].buffer
               /\ session'[z].mu \in {session[z].mu, c, NoOne}
               /\ session'[z].mu # c
    <3>1. CASE z = s
      BY <1>2, <1>3, <3>1
    <3>2. CASE z # s
      <4>1. session'[z] = session[z]
        BY <1>3, <3>2
      <4>2. session[z].mu # c
        BY <1>2, <3>2 DEF MutexOK, Holds, Typed
      <4>3. QED
        BY <4>1, <4>2
    <3>3. QED
      BY <3>1, <3>2
  <2>2. UNCHANGED <<won, made, stored, quickSessions, qrSessions>>
    BY DEF PollAnswered, external
  <2>3. QED
    BY <1>5, <2>1, <2>2 DEF Respects
<1>8. WonOnce'
  <2>1. \A z \in Scans : session'[z].buffer = session[z].buffer
    BY <1>2, <1>3
  <2>2. UNCHANGED <<won, made, stored, quickSessions, qrSessions>> /\ qrSessions \subseteq Scans
    BY DEF PollAnswered, external, Typed
  <2>3. QED
    BY <2>1, <2>2 DEF WonOnce
<1>9. QED
  BY <1>5, <1>6, <1>7, <1>8 DEF StepOK

\* What was obtained is stored.
LEMMA StoreFromScanStep ==
  ASSUME IInv, NEW c \in Clients, StoreFromScan(c)
  PROVE  StepOK(c)
<1> USE Parts
<1> DEFINE i == call[c].id
<1>1. i \in made /\ won[i] = 1 /\ call[c].for = "confirm" /\ call[c].at = "storing"
  BY DEF StoreFromScan, CallOK
<1>2. /\ Moves(c) /\ call'[c].at \in {"dropping", "idle"}
      /\ call'[c].at = "dropping" => /\ i \in Scans /\ call'[c].id = i
                                     /\ call'[c].for = "confirm"
  BY <1>1, GotoMoves, FinishMoves DEF StoreFromScan, Stages
<1>3. Typed' /\ images' \subseteq Scans
  BY <1>1, <1>2 DEF StoreFromScan, Typed, Moves
<1>4. Respects(c)
  BY <1>1, <1>2 DEF StoreFromScan, Respects, Typed, MutexOK, Holds, SessionRecord
<1>5. CallOK(c)'
  BY <1>1, <1>2 DEF StoreFromScan, CallOK
<1>6. WonOnce'
  BY <1>1 DEF StoreFromScan, WonOnce
<1>7. QED
  BY <1>3, <1>4, <1>5, <1>6 DEF StepOK

\* A new session enters the map, and with it the ids of the keep list.
LEMMA AddSessionStep ==
  ASSUME IInv, NEW c \in Clients, AddSession(c)
  PROVE  StepOK(c)
<1> USE Parts
<1>1. PICK s \in Scans :
        /\ made \cap Scans = 1 .. s - 1
        /\ made' = made \cup {s}
        /\ qrSessions' = qrSessions \cup {s}
        /\ call' = [call EXCEPT ![c].at = "added", ![c].id = s, ![c].names = qrSessions']
  BY DEF AddSession
<1>2. s \notin made /\ s \in Ids
  BY <1>1 DEF Scans, Ids
<1>3. qrSessions' \subseteq Scans
  BY <1>1 DEF Typed
<1>4. /\ Moves(c) /\ call'[c].at = "added" /\ call'[c].id = s /\ call'[c].for = "scan"
      /\ call'[c].names = qrSessions'
  <2> DEFINE x == [call[c] EXCEPT !.at = "added", !.id = s, !.names = qrSessions']
  <2>1. call' = [call EXCEPT ![c] = x]
    BY <1>1
  <2>2. call[c].for = "scan"
    BY DEF AddSession, CallOK
  <2>3. /\ x \in CallRecord /\ x.at = "added" /\ x.id = s /\ x.for = "scan"
        /\ x.names = qrSessions'
    BY <1>2, <1>3, <2>2 DEF CallRecord, Stages
  <2>4. QED
    BY <2>1, <2>3 DEF Moves, Typed
<1>5. Typed' /\ images' \subseteq Scans
  BY <1>1, <1>2, <1>3, <1>4 DEF AddSession, external, Typed, Moves
<1>6. Respects(c)
  BY <1>1, <1>4, SMTT(30) DEF AddSession, external, Respects, Typed, MutexOK, Holds, SessionRecord
<1>7. CallOK(c)'
  BY <1>1, <1>4 DEF AddSession, CallOK
<1>8. WonOnce'
  BY <1>1, <1>2 DEF AddSession, external, WonOnce
<1>9. QED
  BY <1>5, <1>6, <1>7, <1>8 DEF StepOK

\* A new quick session.
LEMMA QuickLoginStep ==
  ASSUME IInv, NEW c \in Clients, NEW q \in Quicks, QuickLogin(c, q)
  PROVE  StepOK(c)
<1> USE Parts
<1>1. Moves(c) /\ call'[c] = call[c] /\ call[c].at = "idle"
  BY DEF QuickLogin, Moves, Typed
<1>2. /\ q \notin made /\ made' = made \cup {q} /\ q \in Ids /\ q \notin Scans
      /\ quickSessions' \subseteq quickSessions \cup {q}
  BY ScanLoginAssumption DEF QuickLogin, Ids
<1>3. Typed' /\ images' \subseteq Scans
  BY <1>1, <1>2 DEF QuickLogin, external, Typed, Moves
<1>4. Respects(c)
  BY <1>1, <1>2 DEF QuickLogin, external, Respects, Typed, MutexOK, Holds, SessionRecord
<1>5. CallOK(c)'
  BY <1>1 DEF CallOK
<1>6. WonOnce'
  BY <1>2 DEF QuickLogin, external, WonOnce
<1>7. QED
  BY <1>3, <1>4, <1>5, <1>6 DEF StepOK

\* A quick session is taken out of its map, in time or late.
LEMMA TakeQuickSessionStep ==
  ASSUME IInv, NEW c \in Clients, NEW q \in Quicks, TakeQuickSession(c, q)
  PROVE  StepOK(c)
<1> USE Parts
<1>1. /\ q \in quickSessions /\ q \in made /\ q \in Ids /\ q \notin Scans /\ won[q] = 0
      /\ quickSessions' = quickSessions \ {q} /\ call[c].at = "idle"
  BY ScanLoginAssumption DEF TakeQuickSession, Typed, WonOnce, Ids
<1>2. Moves(c) /\ (call'[c] = call[c] \/ (/\ call'[c].at = "presenting" /\ call'[c].id = q
                                          /\ call'[c].for = "confirm"))
  <2> DEFINE x == [Idle EXCEPT !.at = "presenting", !.for = "confirm", !.id = q]
  <2>1. x \in CallRecord /\ x.at = "presenting" /\ x.for = "confirm" /\ x.id = q
    BY <1>1 DEF Idle, CallRecord, Stages
  <2>2. call' \in {call, [call EXCEPT ![c] = x]}
    BY DEF TakeQuickSession
  <2>3. QED
    BY <2>1, <2>2 DEF Moves, Typed
<1>3. Typed' /\ images' \subseteq Scans
  BY <1>1, <1>2 DEF TakeQuickSession, external, Typed, Moves
<1>4. Respects(c)
  BY <1>1, <1>2 DEF TakeQuickSession, external, Respects, Typed, MutexOK, Holds, SessionRecord
<1>5. CallOK(c)'
  BY <1>1, <1>2 DEF TakeQuickSession, external, CallOK
<1>6. WonOnce'
  BY <1>1 DEF TakeQuickSession, external, WonOnce
<1>7. QED
  BY <1>3, <1>4, <1>5, <1>6 DEF StepOK

----------------------------------------------------------------------------
(* The invariant *)

ClientStep(c) ==
  \/ NewScan(c) \/ Poll(c) \/ Confirm(c) \/ DropQRSession(c) \/ RemoveImage(c)
  \/ \E s \in Scans, for \in {"poll", "confirm"} : Find(c, s, for)
  \/ \E q \in Quicks : QuickLogin(c, q) \/ TakeQuickSession(c, q)

\* All the steps of a request together.
LEMMA ClientStepOK == ASSUME IInv, NEW c \in Clients, ClientStep(c) PROVE StepOK(c)
BY PruneQRStep, RemovePrunedStep, AddSessionStep, GetQRCodeImageFailsStep, WriteImageStep,
   ListImagesStep, RemoveListedStep, LockToPollStep, PollAnsweredStep, PollFailsStep,
   LockToConfirmStep, CallbackStep, GotBufferStep, ExchangeFailsStep, StoreFromScanStep,
   StoreFailsStep, DropQRSessionStep, RemoveImageStep, FindStep, QuickLoginStep,
   TakeQuickSessionStep
DEF ClientStep, NewScan, Poll, Confirm

\* Each step keeps the invariant.
LEMMA Invariance == IInv /\ [Next]_vars => IInv'
<1> SUFFICES ASSUME IInv, [Next]_vars PROVE IInv'
  OBVIOUS
<1>1. ASSUME NEW c \in Clients, ClientStep(c) PROVE IInv'
  <2>1. StepOK(c)
    BY <1>1, ClientStepOK
  <2>2. \A d \in Clients : CallOK(d)'
    BY <2>1, OthersKept DEF StepOK
  <2>3. MutexOK' /\ SoleExchange'
    BY <2>1, <2>2, MutexKept, SoleKept DEF StepOK
  <2>4. QED
    BY <2>1, <2>2, <2>3 DEF StepOK, IInv, Core
<1>2. CASE Restart
  <2>1. /\ Idle \in CallRecord /\ Idle.at = "idle" /\ NewSession \in SessionRecord
        /\ NewSession.mu = NoOne /\ ~NewSession.buffer
    BY DEF Idle, CallRecord, Stages, NewSession, SessionRecord
  <2>2. Typed'
    BY <1>2, <2>1, ScanLoginAssumption DEF Core, Restart, IInv, Typed
  <2>3. MutexOK' /\ \A c \in Clients : CallOK(c)'
    BY <1>2, <2>1 DEF Restart, MutexOK, CallOK
  <2>4. SoleExchange' /\ WonOnce' /\ images' \subseteq Scans
    BY <1>2, <2>1 DEF Restart, IInv, SoleExchange, Exchanging, WonOnce
  <2>5. QED
    BY <2>2, <2>3, <2>4 DEF IInv, Core
<1>3. ASSUME UNCHANGED <<qrSessions, quickSessions, images, made, session, spent, won, stored,
                         call, restarts>>,
             late' \subseteq made,
             phone' \in [Scans -> {"none", "shown", "scanned", "allowed", "denied", "over"}]
      PROVE  IInv'
  BY <1>3 DEF IInv, Core, Typed, MutexOK, Holds, WonOnce, SoleExchange, Exchanging, CallOK
<1>4. ASSUME NEW i \in Ids, Expire(i) PROVE IInv'
  BY <1>3, <1>4 DEF Expire, IInv, Core, Typed
<1>5. ASSUME NEW s \in Scans, Phone(s) PROVE IInv'
  <2>1. \E after \in {"scanned", "over", "allowed", "denied"} : phone' = [phone EXCEPT ![s] = after]
    BY <1>5 DEF Phone
  <2>2. QED
    BY <1>3, <1>5, <2>1 DEF Phone, IInv, Core, Typed
<1>6. CASE UNCHANGED vars
  BY <1>3, <1>6 DEF vars, IInv, Core, Typed
<1>7. QED
  BY <1>1, <1>2, <1>4, <1>5, <1>6 DEF Next, ClientStep

\* It holds in every state of every behaviour.
LEMMA Always == Spec => []IInv
<1>1. Init => IInv
  <2> SUFFICES ASSUME Init PROVE IInv
    OBVIOUS
  <2>1. /\ Idle \in CallRecord /\ Idle.at = "idle" /\ NewSession \in SessionRecord
        /\ NewSession.mu = NoOne /\ ~NewSession.buffer
    BY DEF Idle, CallRecord, Stages, NewSession, SessionRecord
  <2>2. Typed
    BY <2>1, ScanLoginAssumption DEF Init, Typed
  <2>3. MutexOK /\ \A c \in Clients : CallOK(c)
    BY <2>1 DEF Init, MutexOK, CallOK
  <2>4. SoleExchange /\ WonOnce /\ images \subseteq Scans
    BY <2>1 DEF Init, SoleExchange, Exchanging, WonOnce
  <2>5. QED
    BY <2>2, <2>3, <2>4 DEF Core, IInv
<1>2. QED
  BY <1>1, Invariance, PTL DEF Spec

\* Everything stays well typed; a held mutex belongs to a request in PollQRCode or
\* GetLoginBuffer of that session, and a request that has got its session is about one that
\* was made (getQRSession, takeQuickSession).
THEOREM Typing == Spec => []TypeOK
<1>1. IInv => TypeOK
  <2> SUFFICES ASSUME IInv PROVE TypeOK
    OBVIOUS
  <2>1. ASSUME NEW c \in Clients, call[c].at \notin {"idle", "pruned", "fetching"}
        PROVE  call[c].id \in made
    <3>1. CallOK(c) /\ call[c].at \in Stages
      BY DEF IInv, Core, Typed, CallRecord
    <3>2. QED
      BY <2>1, <3>1 DEF CallOK, Stages
  <2>2. QED
    BY <2>1 DEF IInv, Core, Typed, MutexOK, Holds, TypeOK, CallRecord, SessionRecord
<1>2. QED
  BY <1>1, Always, PTL

\* However many requests confirm a session, its code gives one login at most, and what is
\* stored was obtained (GetLoginBuffer, takeQuickSession).
THEOREM OneLoginEach == Spec => []OneLogin
<1>1. IInv => OneLogin
  BY DEF IInv, WonOnce, OneLogin
<1>2. QED
  BY <1>1, Always, PTL

\* A session with its code leaves the map stored, old, or by a poll answered before the code
\* came (dropQRSession, pruneQR).
THEOREM Kept == Spec => AuthorizedKept
<1> DEFINE Lost(s) == s \in qrSessions \ qrSessions'
           Excuse(s) == \/ s \in stored \/ s \in late
                        \/ \E c \in Clients : /\ call[c].at = "dropping" /\ call[c].for = "poll"
                                              /\ call[c].id = s /\ call[c].early
<1>1. ASSUME IInv, [Next]_vars, NEW s, Lost(s), restarts' = restarts PROVE Excuse(s)
  <2>1. ASSUME NEW c \in Clients, PruneQR(c) PROVE Excuse(s)
    BY <1>1, <2>1 DEF PruneQR
  <2>2. ASSUME NEW c \in Clients, DropQRSession(c) PROVE Excuse(s)
    BY <1>1, <2>2 DEF DropQRSession, IInv, CallOK
  <2>3. ~Restart
    BY <1>1 DEF Restart, IInv, Core, Typed
  <2>4. ASSUME NEW c \in Clients, AddSession(c) PROVE FALSE
    BY <1>1, <2>4 DEF AddSession
  <2>5. QED
    BY <1>1, <2>1, <2>2, <2>3, <2>4, ZenonT(30)
    DEF Next, vars, NewScan, RemovePruned, GetQRCodeImageFails, WriteImage, ListImages,
        RemoveListed, Poll, LockToPoll, PollAnswered, PollFails, Confirm, LockToConfirm,
        Callback, GotBuffer, ExchangeFails, StoreFromScan, StoreFails, RemoveImage, Find,
        QuickLogin, TakeQuickSession, Expire, Phone
<1>2. IInv /\ [Next]_vars
        => [\A s \in qrSessions \ qrSessions' :
              session[s].code /\ restarts' = restarts =>
                 \/ s \in stored \/ s \in late
                 \/ \E c \in Clients : /\ call[c].at = "dropping" /\ call[c].for = "poll"
                                       /\ call[c].id = s /\ call[c].early]_vars
  BY <1>1
<1>3. QED
  BY <1>2, Always, PTL DEF Spec, AuthorizedKept

\* The image of a session in the map falls only to the clean-up of an earlier scan
\* (cleanupQR's keep list).
THEOREM Images == Spec => ImageLostToOlderScan
<1>1. ASSUME IInv, [Next]_vars, NEW s \in (images \ images') \cap qrSessions
      PROVE  \E c \in Clients : call[c].for = "scan" /\ call[c].id \in 1 .. s - 1
  <2>1. ASSUME NEW c \in Clients, RemovePruned(c) PROVE FALSE
    BY <1>1, <2>1 DEF RemovePruned, IInv, CallOK
  <2>2. ASSUME NEW c \in Clients, RemoveImage(c) PROVE FALSE
    BY <1>1, <2>2 DEF RemoveImage, IInv, CallOK
  <2>3. ASSUME NEW c \in Clients, RemoveListed(c)
        PROVE  call[c].for = "scan" /\ call[c].id \in 1 .. s - 1
    <3>1. /\ call[c].for = "scan" /\ call[c].id \in Scans /\ s \in call[c].names
          /\ qrSessions \cap (1 .. call[c].id) \cap call[c].names = {}
      BY <1>1, <2>3 DEF RemoveListed, IInv, CallOK
    <3>2. s \in Scans /\ s \notin 1 .. call[c].id
      BY <1>1, <3>1 DEF IInv
    <3>3. QED
      BY <3>1, <3>2 DEF Scans
  <2>4. ASSUME NEW c \in Clients, WriteImage(c) PROVE FALSE
    BY <1>1, <2>4 DEF WriteImage
  <2>5. QED
    BY <1>1, <2>1, <2>2, <2>3, <2>4, ZenonT(30)
    DEF Next, vars, NewScan, PruneQR, AddSession, GetQRCodeImageFails, ListImages, external,
        Poll, LockToPoll, PollAnswered, PollFails, Confirm, LockToConfirm, Callback,
        GotBuffer, ExchangeFails, StoreFromScan, StoreFails, DropQRSession, Find, QuickLogin,
        TakeQuickSession, Expire, Phone, Restart
<1>2. IInv /\ [Next]_vars
        => [\A s \in (images \ images') \cap qrSessions :
              \E c \in Clients : call[c].for = "scan" /\ call[c].id \in 1 .. s - 1]_vars
  BY <1>1
<1>3. QED
  BY <1>2, Always, PTL DEF Spec, ImageLostToOlderScan
============================================================================
