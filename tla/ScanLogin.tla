----------------------------- MODULE ScanLogin -----------------------------
(***************************************************************************)
(* Logging a WeChat account in: a QR code that the phone scans             *)
(* (handleQRRoot, handleQR) or the WeChat program of the desktop           *)
(* (handleQuickLoginRoot, handleQuickLogin).                               *)
(*                                                                         *)
(* a.mu guards the two maps of sessions only.  A QR session has a mutex    *)
(* of its own, held over the long poll and over the exchange of the code   *)
(* for credentials.  The images are files: they are written and removed    *)
(* with no lock held.                                                      *)
(*                                                                         *)
(* The phone and WeChat's servers are external: they answer a poll by what *)
(* the phone has done, and take an authorize code once.  The upsert that   *)
(* ends a login is one step here; Accounts has its details.                *)
(***************************************************************************)
EXTENDS Naturals, FiniteSets

CONSTANTS Clients,     \* requests under way at the same time
          MaxScans,    \* bound: QR sessions ever made; they are numbered in that order
          Quicks,      \* ids of quick-login sessions
          NoOne,       \* the mutex of a session is not held
          MaxRestarts  \* bound: restarts of the process

Scans == 1 .. MaxScans

ASSUME ScanLoginAssumption ==
    /\ NoOne \notin Clients
    /\ MaxScans \in Nat /\ MaxRestarts \in Nat
    /\ Quicks \cap Scans = {}

VARIABLES qrSessions,     \* App.qrSessions: the ids in it
          quickSessions,  \* App.quickSessions: the ids in it
          images,         \* ids with an image on disk
          made,           \* ids of sessions of both kinds, ever made
          session,        \* qr.Session
          late,           \* sessions of both kinds that are older than QRSessionTTL
          phone,          \* what the phone has done with the code
          spent,          \* authorize codes WeChat has taken
          won,            \* exchanges that gave a login buffer
          stored,         \* sessions whose login is in wechat_accounts
          call,
          restarts

vars == <<qrSessions, quickSessions, images, made, session, late, phone, spent, won, stored,
          call, restarts>>
external == <<phone, spent, won, stored, restarts, late>>

Ids == Scans \cup Quicks

\* code: AuthorizeCode is set; jar: the cookies of a callback WeChat accepted; buffer:
\* LoginBuffer is set; mu: who holds the mutex.
NewSession == [code |-> FALSE, jar |-> FALSE, buffer |-> FALSE, mu |-> NoOne]

Stages == {"idle", "pruned", "fetching", "added", "written", "listed", "removing", "waiting",
           "polling", "presenting", "buffering", "storing", "dropping"}

\* id: the session; for: what the request is; names: the keep list of handleQRRoot, then the
\* images to remove; early: the answer that ends the session came before it had a code.
Idle == [at |-> "idle", for |-> "none", id |-> 0, names |-> {}, early |-> FALSE]

Goto(c, at) == call' = [call EXCEPT ![c].at = at]
Finish(c) == call' = [call EXCEPT ![c] = Idle]
Release(s) == session' = [session EXCEPT ![s].mu = NoOne]
----------------------------------------------------------------------------
(* Faulty variants, one per property. *)

\* GetLoginBuffer without what a former call obtained.
LockToConfirmAgain(c) ==
    LET s == call[c].id IN
    /\ call[c].at = "waiting" /\ call[c].for = "confirm"
    /\ session[s].mu = NoOne
    /\ IF session[s].code
       THEN Goto(c, "presenting") /\ session' = [session EXCEPT ![s].mu = c]
       ELSE Finish(c) /\ UNCHANGED session
    /\ UNCHANGED <<qrSessions, quickSessions, images, made, external>>

\* PollQRCode asking WeChat again although it has the code.
LockToPollAgain(c) ==
    LET s == call[c].id IN
    /\ call[c].at = "waiting" /\ call[c].for = "poll"
    /\ session[s].mu = NoOne
    /\ IF session[s].buffer
       THEN Finish(c) /\ UNCHANGED session
       ELSE Goto(c, "polling") /\ session' = [session EXCEPT ![s].mu = c]
    /\ UNCHANGED <<qrSessions, quickSessions, images, made, external>>

\* GetLoginBuffer that fails with the mutex held.
ExchangeFailsLocked(c) ==
    /\ call[c].at \in {"presenting", "buffering"}
    /\ Finish(c)
    /\ UNCHANGED <<qrSessions, quickSessions, images, made, session, external>>

\* handleQRRoot with the keep list made before the new session is in the map.
AddSessionLate(c) ==
    /\ call[c].at = "fetching"
    /\ \E s \in Scans :
          /\ made \cap Scans = 1 .. s - 1
          /\ made' = made \cup {s}
          /\ qrSessions' = qrSessions \cup {s}
          /\ call' = [call EXCEPT ![c].at = "added", ![c].id = s, ![c].names = qrSessions]
    /\ UNCHANGED <<quickSessions, images, session, external>>
----------------------------------------------------------------------------
Init ==
    /\ qrSessions = {} /\ quickSessions = {} /\ images = {}
    /\ made = {}
    /\ session = [s \in Scans |-> NewSession]
    /\ late = {}
    /\ phone = [s \in Scans |-> "none"]
    /\ spent = {} /\ stored = {}
    /\ won = [i \in Ids |-> 0]
    /\ call = [c \in Clients |-> Idle]
    /\ restarts = 0

(* A new QR code *)

\* pruneQR: the old sessions leave the map under a.mu ...
PruneQR(c) ==
    /\ call[c].at = "idle"
    /\ qrSessions' = qrSessions \ late
    /\ call' = [call EXCEPT ![c] = [Idle EXCEPT !.at = "pruned", !.for = "scan",
                                               !.names = qrSessions \cap late]]
    /\ UNCHANGED <<quickSessions, images, made, session, external>>

\* ... and their images go after it.
RemovePruned(c) ==
    /\ call[c].at = "pruned"
    /\ images' = images \ call[c].names
    /\ Goto(c, "fetching")
    /\ UNCHANGED <<qrSessions, quickSessions, made, session, external>>

\* GetQRCodeImage succeeds; the session enters the map, and the ids in it are the keep list.
AddSession(c) ==
    /\ call[c].at = "fetching"
    /\ \E s \in Scans :
          /\ made \cap Scans = 1 .. s - 1
          /\ made' = made \cup {s}
          /\ qrSessions' = qrSessions \cup {s}
          /\ call' = [call EXCEPT ![c].at = "added", ![c].id = s, ![c].names = qrSessions']
    /\ UNCHANGED <<quickSessions, images, session, external>>

GetQRCodeImageFails(c) ==
    /\ call[c].at = "fetching"
    /\ Finish(c)
    /\ UNCHANGED <<qrSessions, quickSessions, images, made, session, external>>

WriteImage(c) ==
    /\ call[c].at = "added"
    /\ images' = images \cup {call[c].id}
    /\ Goto(c, "written")
    /\ UNCHANGED <<qrSessions, quickSessions, made, session, external>>

\* cleanupQR lists the images and removes those that are not on the keep list.
ListImages(c) ==
    /\ call[c].at = "written"
    /\ call' = [call EXCEPT ![c].at = "listed", ![c].names = images \ call[c].names]
    /\ UNCHANGED <<qrSessions, quickSessions, images, made, session, external>>

\* After the clean-up the answer goes out: the code is on the user's screen.
RemoveListed(c) ==
    /\ call[c].at = "listed"
    /\ images' = images \ call[c].names
    /\ phone' = [phone EXCEPT ![call[c].id] = "shown"]
    /\ Finish(c)
    /\ UNCHANGED <<qrSessions, quickSessions, made, session, late, spent, won, stored,
                   restarts>>

NewScan(c) == PruneQR(c) \/ RemovePruned(c) \/ AddSession(c) \/ GetQRCodeImageFails(c)
                \/ WriteImage(c) \/ ListImages(c) \/ RemoveListed(c)

(* Polling and confirming *)

\* getQRSession: the request keeps the session, whatever becomes of the map.
Find(c, s, for) ==
    /\ call[c].at = "idle"
    /\ s \in qrSessions /\ phone[s] # "none"
    /\ call' = [call EXCEPT ![c] = [Idle EXCEPT !.at = "waiting", !.for = for, !.id = s]]
    /\ UNCHANGED <<qrSessions, quickSessions, images, made, session, external>>

\* PollQRCode answers from what the session knows, or asks WeChat.
LockToPoll(c) ==
    LET s == call[c].id IN
    /\ call[c].at = "waiting" /\ call[c].for = "poll"
    /\ session[s].mu = NoOne
    /\ IF session[s].buffer \/ session[s].code
       THEN Finish(c) /\ UNCHANGED session
       ELSE Goto(c, "polling") /\ session' = [session EXCEPT ![s].mu = c]
    /\ UNCHANGED <<qrSessions, quickSessions, images, made, external>>

\* What the long poll may say: 408, 404, 405 with a code, 403, 402, or anything else.
Answer(s) == CASE phone[s] = "shown" -> "pending" [] phone[s] = "scanned" -> "scanned"
               [] phone[s] = "allowed" -> "authorized" [] phone[s] = "denied" -> "cancelled"
               [] OTHER -> "expired"

TerminalQR(status) == status \in {"expired", "cancelled", "unknown"}

\* PollQRCode lets go of the session before handleQR ends it.
PollAnswered(c) ==
    LET s == call[c].id IN
    /\ call[c].at = "polling"
    /\ \E answer \in {Answer(s), "unknown"} :
          /\ session' = [session EXCEPT ![s].mu = NoOne, ![s].code = @ \/ answer = "authorized"]
          /\ IF TerminalQR(answer)
             THEN call' = [call EXCEPT ![c].at = "dropping", ![c].early = ~session[s].code]
             ELSE Finish(c)
    /\ UNCHANGED <<qrSessions, quickSessions, images, made, external>>

\* The long poll fails or times out.
PollFails(c) ==
    /\ call[c].at = "polling"
    /\ Release(call[c].id)
    /\ Finish(c)
    /\ UNCHANGED <<qrSessions, quickSessions, images, made, external>>

Poll(c) == LockToPoll(c) \/ PollAnswered(c) \/ PollFails(c)

\* GetLoginBuffer: what a former call obtained, a refusal, or the exchange.
LockToConfirm(c) ==
    LET s == call[c].id IN
    /\ call[c].at = "waiting" /\ call[c].for = "confirm"
    /\ session[s].mu = NoOne
    /\ \/ /\ session[s].buffer
          /\ Goto(c, "storing") /\ UNCHANGED session
       \/ /\ ~session[s].buffer /\ ~session[s].code
          /\ Finish(c) /\ UNCHANGED session
       \/ /\ ~session[s].buffer /\ session[s].code
          /\ Goto(c, "presenting") /\ session' = [session EXCEPT ![s].mu = c]
    /\ UNCHANGED <<qrSessions, quickSessions, images, made, external>>

\* The callback: WeChat takes a code once and sets the cookies; they stay in the session's
\* jar, so that a second attempt finds them even though the code is spent.
Callback(c) ==
    LET i == call[c].id IN
    /\ call[c].at = "presenting"
    /\ i \in spent => i \in Scans /\ session[i].jar
    /\ spent' = spent \cup {i}
    /\ session' = IF i \in Scans THEN [session EXCEPT ![i].jar = TRUE] ELSE session
    /\ Goto(c, "buffering")
    /\ UNCHANGED <<qrSessions, quickSessions, images, made, late, phone, won, stored,
                   restarts>>

\* FetchLoginBuffer succeeds.
GotBuffer(c) ==
    LET i == call[c].id IN
    /\ call[c].at = "buffering"
    /\ won' = [won EXCEPT ![i] = @ + 1]
    /\ session' = IF i \in Scans
                  THEN [session EXCEPT ![i].buffer = TRUE, ![i].mu = NoOne]
                  ELSE session
    /\ Goto(c, "storing")
    /\ UNCHANGED <<qrSessions, quickSessions, images, made, late, phone, spent, stored,
                   restarts>>

\* The callback or FetchLoginBuffer fails; the code may have been taken all the same.
ExchangeFails(c) ==
    LET i == call[c].id IN
    /\ call[c].at \in {"presenting", "buffering"}
    /\ spent' \in {spent, spent \cup {i}}
    /\ session' = IF i \in Scans THEN [session EXCEPT ![i].mu = NoOne] ELSE session
    /\ Finish(c)
    /\ UNCHANGED <<qrSessions, quickSessions, images, made, late, phone, won, stored,
                   restarts>>

\* storeFromScan; a QR session ends with it, the quick session ended before.
StoreFromScan(c) ==
    /\ call[c].at = "storing"
    /\ stored' = stored \cup {call[c].id}
    /\ IF call[c].id \in Scans THEN Goto(c, "dropping") ELSE Finish(c)
    /\ UNCHANGED <<qrSessions, quickSessions, images, made, session, late, phone, spent, won,
                   restarts>>

StoreFails(c) ==
    /\ call[c].at = "storing"
    /\ Finish(c)
    /\ UNCHANGED <<qrSessions, quickSessions, images, made, session, external>>

Confirm(c) == LockToConfirm(c) \/ Callback(c) \/ GotBuffer(c) \/ ExchangeFails(c)
                \/ StoreFromScan(c) \/ StoreFails(c)

\* dropQRSession: the entry of the map under a.mu, then the image.
DropQRSession(c) ==
    /\ call[c].at = "dropping"
    /\ qrSessions' = qrSessions \ {call[c].id}
    /\ Goto(c, "removing")
    /\ UNCHANGED <<quickSessions, images, made, session, external>>

RemoveImage(c) ==
    /\ call[c].at = "removing"
    /\ images' = images \ {call[c].id}
    /\ Finish(c)
    /\ UNCHANGED <<qrSessions, quickSessions, made, session, external>>

(* Quick login *)

\* handleQuickLoginRoot: pruneQuickSessions, then the new id.
QuickLogin(c, q) ==
    /\ call[c].at = "idle"
    /\ q \notin made
    /\ made' = made \cup {q}
    /\ quickSessions' = (quickSessions \ late) \cup {q}
    /\ UNCHANGED <<qrSessions, images, session, call, external>>

\* takeQuickSession: whoever asks, the id is used up, in time or late.
TakeQuickSession(c, q) ==
    /\ call[c].at = "idle"
    /\ q \in quickSessions
    /\ quickSessions' = quickSessions \ {q}
    /\ call' = IF q \in late THEN call
               ELSE [call EXCEPT ![c] = [Idle EXCEPT !.at = "presenting", !.for = "confirm",
                                                     !.id = q]]
    /\ UNCHANGED <<qrSessions, images, made, session, external>>

(* The world *)

\* A session outlives QRSessionTTL, which is far longer than making it takes.
Expire(i) ==
    /\ i \in qrSessions \cup quickSessions
    /\ i \in Scans => phone[i] # "none"
    /\ late' = late \cup {i}
    /\ UNCHANGED <<qrSessions, quickSessions, images, made, session, phone, spent, won,
                   stored, call, restarts>>

\* The phone scans, then allows or denies; WeChat's side of the code may run out.
Phone(s) ==
    /\ \E after \in (CASE phone[s] = "shown" -> {"scanned", "over"}
                       [] phone[s] = "scanned" -> {"allowed", "denied", "over"}
                       [] phone[s] = "allowed" -> {"over"}
                       [] OTHER -> {}) :
          phone' = [phone EXCEPT ![s] = after]
    /\ UNCHANGED <<qrSessions, quickSessions, images, made, session, late, spent, won,
                   stored, call, restarts>>

\* Both maps are memory; the images stay.
Restart ==
    /\ restarts < MaxRestarts
    /\ restarts' = restarts + 1
    /\ qrSessions' = {} /\ quickSessions' = {}
    /\ session' = [s \in Scans |-> NewSession]
    /\ call' = [c \in Clients |-> Idle]
    /\ UNCHANGED <<images, made, late, phone, spent, won, stored>>

Next ==
    \/ \E c \in Clients :
          \/ NewScan(c) \/ Poll(c) \/ Confirm(c) \/ DropQRSession(c) \/ RemoveImage(c)
          \/ \E s \in Scans, for \in {"poll", "confirm"} : Find(c, s, for)
          \/ \E q \in Quicks : QuickLogin(c, q) \/ TakeQuickSession(c, q)
    \/ \E i \in Ids : Expire(i)
    \/ \E s \in Scans : Phone(s)
    \/ Restart

Spec == Init /\ [][Next]_vars
----------------------------------------------------------------------------
(* Every variable has its type, a held mutex belongs to a request that is  *)
(* in PollQRCode or GetLoginBuffer of that session (qr.go:56), and a       *)
(* request past the making or finding of its session (app.go:1070) is      *)
(* about one that was made, even when it has left its map since.           *)
TypeOK ==
    /\ made \subseteq Ids
    /\ qrSessions \subseteq made \cap Scans /\ quickSessions \subseteq made \cap Quicks
    /\ images \cup stored \cup late \cup spent \subseteq made
    /\ session \in [Scans -> [code : BOOLEAN, jar : BOOLEAN, buffer : BOOLEAN,
                              mu : Clients \cup {NoOne}]]
    /\ phone \in [Scans -> {"none", "shown", "scanned", "allowed", "denied", "over"}]
    /\ won \in [Ids -> Nat]
    /\ call \in [Clients -> [at : Stages, for : {"none", "scan", "poll", "confirm"},
                             id : Ids \cup {0}, names : SUBSET Scans, early : BOOLEAN]]
    /\ \A s \in Scans : session[s].mu # NoOne =>
          LET holder == call[session[s].mu] IN
          holder.id = s /\ holder.at \in {"polling", "presenting", "buffering"}
    /\ \A c \in Clients : call[c].at \notin {"idle", "pruned", "fetching"} => call[c].id \in made
    /\ restarts \in 0 .. MaxRestarts

(* One login: however many requests confirm a session at the same time, or *)
(* again after a failure, the code is turned into a login buffer at most   *)
(* once, and what is stored is what was obtained (GetLoginBuffer under the *)
(* session's mutex, takeQuickSession).                                     *)
OneLogin == \A i \in Ids : won[i] <= 1 /\ (i \in stored => won[i] = 1)

(* A session that has its code leaves the map only when its login is       *)
(* stored, when it is older than QRSessionTTL, or by a poll that WeChat    *)
(* had answered before the code came: that poll gave up the mutex, and     *)
(* drops the session after another poll has authorised it (app.go:483).    *)
AuthorizedKept ==
    [][\A s \in qrSessions \ qrSessions' :
          session[s].code /\ restarts' = restarts =>
             \/ s \in stored \/ s \in late
             \/ \E c \in Clients : /\ call[c].at = "dropping" /\ call[c].for = "poll"
                                   /\ call[c].id = s /\ call[c].early]_vars

(* The image of a session in the map is removed only by the clean-up of an *)
(* earlier scan that is still under way: its keep list is older than the   *)
(* session (cleanupQR, app.go:1100).                                       *)
ImageLostToOlderScan ==
    [][\A s \in (images \ images') \cap qrSessions :
          \E c \in Clients : call[c].for = "scan" /\ call[c].id \in 1 .. s - 1]_vars
============================================================================
