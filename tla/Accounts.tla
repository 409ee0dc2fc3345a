------------------------------ MODULE Accounts ------------------------------
(***************************************************************************)
(* One WeChat account of the gateway: its row in wechat_accounts, the      *)
(* credentials in it, and everything that rewrites them at the same time:  *)
(* scans (handleQR, handleQuickLogin), refreshes asked for by a request or *)
(* by the keepalive loop, calls that refresh and try again (invokeWXApp)   *)
(* and deletion.                                                           *)
(*                                                                         *)
(* All refreshes of the process go through one mutex, refreshMu; scans and *)
(* deletions do not.  Every store method is one SQL statement.             *)
(*                                                                         *)
(* Credentials are numbered in the order the login service issues them.    *)
(* The service is external: a refresh token it has rotated is spent.  The  *)
(* profile (nickname, avatar) and the switch api_shared are left out;      *)
(* whether the account has a row in sessions is left open (SessionPool).   *)
(***************************************************************************)
EXTENDS Naturals, Sequences, FiniteSets

CONSTANTS Requests,    \* HTTP requests under way at the same time
          KeepAlive,   \* the goroutine of startKeepAlive
          Users,       \* console users who may scan
          Admins,      \* those of them with the role admin
          NoUser,      \* no owner, or a request without a console session
          NoRow,       \* the account is not in the table
          Free,        \* refreshMu is not held
          MaxTokens,   \* bound: credentials ever issued
          MaxIds,      \* bound: rows ever inserted
          MaxRestarts  \* bound: restarts of the process

ASSUME AccountsAssumption ==
    /\ KeepAlive \notin Requests /\ Free \notin Requests \cup {KeepAlive}
    /\ Admins \subseteq Users /\ NoUser \notin Users
    /\ MaxTokens \in Nat /\ MaxIds \in Nat /\ MaxRestarts \in Nat

Callers == Requests \cup {KeepAlive}

VARIABLES issued,   \* credentials, in the order of issue
          row,      \* the account's row, or NoRow
          lastId,   \* AUTOINCREMENT counter of the table
          lock,     \* who holds refreshMu
          call,     \* what each caller does next, and what it has read
          restarts

vars == <<issued, row, lastId, lock, call, restarts>>

\* Age of credentials: outside the refresh-ahead window, inside it, expired.
Fresh == 0
Due == 1
Over == 2

\* from: the credentials they were refreshed from, 0 for a scan.  stored: they have been
\* in the row.
Credentials(from) == [from |-> from, age |-> Fresh, spent |-> FALSE, stored |-> FALSE]

Stages == {"idle", "scanned", "claiming", "resolved", "calling", "refreshing", "locked",
           "presenting", "fetching", "storing", "failed", "rereading", "retrying",
           "deleting"}

\* by: who is logged in; id: the row the request is about; owner: what ownerForScan goes by;
\* held: whose account it was at that moment (history, for a property only); token: the
\* credentials in hand, and status, what refreshAccount has read; next: credentials
\* obtained; again: the caller is invokeWXApp and will call again.
Idle == [at |-> "idle", by |-> NoUser, id |-> 0, owner |-> NoUser, held |-> NoUser,
         token |-> 0, status |-> "unknown", next |-> 0, again |-> FALSE]

Goto(c, at) == call' = [call EXCEPT ![c].at = at]
Finish(c) == call' = [call EXCEPT ![c] = Idle]

\* The row with the given id.
Has(id) == row # NoRow /\ row.id = id

\* UPDATE wechat_accounts SET ... WHERE id = ?
Update(id, changed) == row' = IF Has(id) THEN changed ELSE row

MarkStored(t) == issued' = [issued EXCEPT ![t].stored = TRUE]

\* Faulty variant of Wanted: without the time ahead.
WantedOver(c, t) == c # KeepAlive \/ issued[t].age = Over

\* Requests force the refresh; the loop refreshes what is due.
Wanted(c, t) == c # KeepAlive \/ issued[t].age # Fresh
----------------------------------------------------------------------------
(* Faulty variants, one per property; WantedOver above is another. *)

\* ownerForScan without its rule for administrators.
OwnerForScanAnyone(by, owner) == by

\* accountStatus instead of "expired" for credentials that failed.
StatusForgotten(c) == "unknown"

\* refreshAccount going by the account it was given.
ReadGiven(c) ==
    /\ call[c].at = "locked"
    /\ IF Has(call[c].id) /\ Wanted(c, call[c].token)
       THEN /\ call' = [call EXCEPT ![c].at = "presenting", ![c].status = row.status]
            /\ UNCHANGED lock
       ELSE Finish(c) /\ lock' = Free
    /\ UNCHANGED <<issued, row, lastId, restarts>>

\* refreshAccount that returns with the mutex held.
StoreFailsLocked(c) ==
    /\ call[c].at \in {"storing", "failed"}
    /\ Finish(c)
    /\ UNCHANGED <<issued, row, lastId, lock, restarts>>

\* invokeWXApp going on with the account it resolved.
RereadNothing(r) ==
    /\ call[r].at = "rereading"
    /\ call' = [call EXCEPT ![r].at = "retrying", ![r].next = call[r].token]
    /\ UNCHANGED <<issued, row, lastId, lock, restarts>>
----------------------------------------------------------------------------
Init ==
    /\ issued = <<>>
    /\ row = NoRow
    /\ lastId = 0
    /\ lock = Free
    /\ call = [c \in Callers |-> Idle]
    /\ restarts = 0

(* Scanning *)

\* The scanned code is exchanged for credentials (GetLoginBuffer or exchangeAuthCode).
Scan(r, by) ==
    /\ call[r].at = "idle"
    /\ Len(issued) < MaxTokens
    /\ issued' = Append(issued, Credentials(0))
    /\ call' = [call EXCEPT ![r] = [Idle EXCEPT !.at = "scanned", !.by = by,
                                               !.next = Len(issued')]]
    /\ UNCHANGED <<row, lastId, lock, restarts>>

Owner == IF row = NoRow THEN NoUser ELSE row.owner

\* ownerForScan reads whose account it is now; when the read fails, it goes on as if it
\* were nobody's ...
ReadOwner(r) ==
    /\ call[r].at = "scanned"
    /\ \E read \in {Owner, NoUser} :
          call' = [call EXCEPT ![r].at = "claiming", ![r].owner = read, ![r].held = Owner]
    /\ UNCHANGED <<issued, row, lastId, lock, restarts>>

\* ... and names the new owner, or nobody: an administrator takes no one's account.
OwnerForScan(by, owner) ==
    IF by \in Admins /\ owner \notin {NoUser, by} THEN NoUser ELSE by

\* UpsertAccount; without a new owner the row keeps the one it has.
Upsert(r) ==
    LET new == call[r].next
        claimed == OwnerForScan(call[r].by, call[r].owner)
    IN
    /\ call[r].at = "claiming"
    /\ IF row = NoRow
       THEN /\ lastId < MaxIds
            /\ lastId' = lastId + 1
            /\ row' = [id |-> lastId', token |-> new, status |-> "alive",
                       owner |-> claimed]
       ELSE /\ row' = [row EXCEPT !.token = new, !.status = "alive",
                                  !.owner = IF claimed = NoUser THEN @ ELSE claimed]
            /\ UNCHANGED lastId
    /\ MarkStored(new)
    /\ Finish(r)
    /\ UNCHANGED <<lock, restarts>>
----------------------------------------------------------------------------
(* Requests that name the account *)

\* A request resolves the account and goes on with what it read.
Resolve(r, at, again) ==
    /\ call[r].at = "idle"
    /\ row # NoRow
    /\ call' = [call EXCEPT ![r] = [Idle EXCEPT !.at = at, !.id = row.id, !.again = again,
                                               !.token = row.token]]
    /\ UNCHANGED <<issued, row, lastId, lock, restarts>>

Request(r) ==
    \/ Resolve(r, "resolved", TRUE)     \* invokeWXApp
    \/ Resolve(r, "refreshing", FALSE)  \* refreshLiveness
    \/ Resolve(r, "deleting", FALSE)    \* DELETE /accounts

\* invokeWXApp calls at once when the account has a session, or refreshes first.
GetSession(r) ==
    /\ call[r].at = "resolved"
    /\ \E at \in {"calling", "refreshing"} : Goto(r, at)
    /\ UNCHANGED <<issued, row, lastId, lock, restarts>>

CallSucceeds(r) ==
    /\ call[r].at = "calling"
    /\ Finish(r)
    /\ UNCHANGED <<issued, row, lastId, lock, restarts>>

\* The session row goes, and the credentials are refreshed.
CallFails(r) ==
    /\ call[r].at = "calling"
    /\ Goto(r, "refreshing")
    /\ UNCHANGED <<issued, row, lastId, lock, restarts>>

\* DeleteAccount.
Delete(r) ==
    /\ call[r].at = "deleting"
    /\ Update(call[r].id, NoRow)
    /\ Finish(r)
    /\ UNCHANGED <<issued, lastId, lock, restarts>>

\* invokeWXApp reads the account again; if it is gone it keeps the one it has.
Reread(r) ==
    /\ call[r].at = "rereading"
    /\ call' = [call EXCEPT ![r].at = "retrying",
                            ![r].next = IF Has(call[r].id) THEN row.token ELSE call[r].token]
    /\ UNCHANGED <<issued, row, lastId, lock, restarts>>

\* The second call logs in with these credentials.
Retry(r) ==
    /\ call[r].at = "retrying"
    /\ Finish(r)
    /\ UNCHANGED <<issued, row, lastId, lock, restarts>>
----------------------------------------------------------------------------
(* Refreshing *)

\* refreshDueAccounts lists the accounts; a tick finds nobody else in the loop.
Tick ==
    /\ call[KeepAlive].at = "idle"
    /\ row # NoRow
    /\ call' = [call EXCEPT ![KeepAlive] = [Idle EXCEPT !.at = "refreshing", !.id = row.id,
                                                       !.token = row.token]]
    /\ UNCHANGED <<issued, row, lastId, lock, restarts>>

Lock(c) ==
    /\ call[c].at = "refreshing"
    /\ lock = Free
    /\ lock' = c
    /\ Goto(c, "locked")
    /\ UNCHANGED <<issued, row, lastId, restarts>>

\* refreshAccount reads the account again under the mutex; it always has credentials here,
\* as scans are what makes rows.
ReadLatest(c) ==
    /\ call[c].at = "locked"
    /\ IF Has(call[c].id) /\ Wanted(c, row.token)
       THEN /\ call' = [call EXCEPT ![c].at = "presenting", ![c].token = row.token,
                                    ![c].status = row.status]
            /\ UNCHANGED lock
       ELSE Finish(c) /\ lock' = Free
    /\ UNCHANGED <<issued, row, lastId, restarts>>

\* The service renews the credentials and may rotate the refresh token.
Renew(t) ==
    /\ Len(issued) < MaxTokens
    /\ ~issued[t].spent
    /\ \E rotated \in BOOLEAN :
          issued' = Append([issued EXCEPT ![t].spent = rotated], Credentials(t))

\* RefreshCredentials is answered, its answer is lost, or it is refused.
Renewed(c) ==
    /\ call[c].at = "presenting"
    /\ Renew(call[c].token)
    /\ call' = [call EXCEPT ![c].at = "fetching", ![c].next = Len(issued')]
    /\ UNCHANGED <<row, lastId, lock, restarts>>

AnswerLost(c) ==
    /\ call[c].at = "presenting"
    /\ Renew(call[c].token)
    /\ Goto(c, "failed")
    /\ UNCHANGED <<row, lastId, lock, restarts>>

Refused(c) ==
    /\ call[c].at = "presenting"
    /\ Goto(c, "failed")
    /\ UNCHANGED <<issued, row, lastId, lock, restarts>>

\* FetchLoginBuffer for the new credentials, which are dropped if it fails.
Fetched(c) ==
    /\ call[c].at = "fetching"
    /\ \E at \in {"storing", "failed"} : Goto(c, at)
    /\ UNCHANGED <<issued, row, lastId, lock, restarts>>

\* SetAccountCredentialStatus; invokeWXApp goes on.
StoreRenewed(c) ==
    LET new == call[c].next IN
    /\ call[c].at = "storing"
    /\ Update(call[c].id, [row EXCEPT !.token = new, !.status = "alive"])
    /\ IF Has(call[c].id) THEN MarkStored(new) ELSE UNCHANGED issued
    /\ lock' = Free
    /\ IF call[c].again THEN Goto(c, "rereading") ELSE Finish(c)
    /\ UNCHANGED <<lastId, restarts>>

\* Expired, or the status that was read before the attempt.
StatusAfterFailure(c) ==
    IF c # KeepAlive \/ issued[call[c].token].age = Over THEN "expired" ELSE call[c].status

\* SetAccountStatus after a failure.
StoreFailure(c) ==
    /\ call[c].at = "failed"
    /\ Update(call[c].id, [row EXCEPT !.status = StatusAfterFailure(c)])
    /\ lock' = Free
    /\ Finish(c)
    /\ UNCHANGED <<issued, lastId, restarts>>

\* Either statement fails: the client of the request is gone.
StoreFails(c) ==
    /\ call[c].at \in {"storing", "failed"}
    /\ lock' = Free
    /\ Finish(c)
    /\ UNCHANGED <<issued, row, lastId, restarts>>
----------------------------------------------------------------------------
(* Environment *)

\* Credentials in use come into the refresh-ahead window, and expire.
Age(t) ==
    /\ issued[t].age < Over
    /\ \/ row # NoRow /\ row.token = t
       \/ \E c \in Callers : call[c].at \in {"presenting", "fetching"} /\ call[c].token = t
    /\ issued' = [issued EXCEPT ![t].age = @ + 1]
    /\ UNCHANGED <<row, lastId, lock, call, restarts>>

\* The process stops and starts again; the tables stay.
Restart ==
    /\ restarts < MaxRestarts
    /\ restarts' = restarts + 1
    /\ lock' = Free
    /\ call' = [c \in Callers |-> Idle]
    /\ UNCHANGED <<issued, row, lastId>>

Refresh(c) ==
    \/ ReadLatest(c) \/ Renewed(c) \/ AnswerLost(c) \/ Refused(c) \/ Fetched(c)
    \/ StoreRenewed(c) \/ StoreFailure(c) \/ StoreFails(c)

\* What a request does once it has begun.
Continue(r) ==
    \/ ReadOwner(r) \/ Upsert(r)
    \/ GetSession(r) \/ CallSucceeds(r) \/ CallFails(r) \/ Delete(r)
    \/ Reread(r) \/ Retry(r)

Next ==
    \/ \E r \in Requests :
          \/ \E by \in Users \cup {NoUser} : Scan(r, by)
          \/ Request(r) \/ Continue(r)
    \/ Tick
    \/ \E c \in Callers : Lock(c) \/ Refresh(c)
    \/ \E t \in 1 .. Len(issued) : Age(t)
    \/ Restart

\* The loop ticks, every call ends (the HTTP client has a timeout) and refreshMu is
\* handed to whoever has waited long enough (sync.Mutex does not starve).
Fairness ==
    /\ WF_vars(Tick)
    /\ \A c \in Callers : SF_vars(Lock(c)) /\ WF_vars(Refresh(c))
    /\ \A r \in Requests : WF_vars(Continue(r))

Spec == Init /\ [][Next]_vars /\ Fairness
----------------------------------------------------------------------------
(* Properties *)

Statuses == {"unknown", "alive", "expired"}
Owners == Users \cup {NoUser}

TypeOK ==
    /\ issued \in Seq([from : 0 .. MaxTokens, age : Fresh .. Over, spent : BOOLEAN,
                       stored : BOOLEAN])
    /\ Len(issued) <= MaxTokens
    /\ row # NoRow => row \in [id : 1 .. lastId, token : 1 .. Len(issued),
                               status : {"alive", "expired"}, owner : Owners]
    /\ lastId \in 0 .. MaxIds
    /\ lock \in Callers \cup {Free}
    /\ call \in [Callers -> [at : Stages, by : Owners, id : 0 .. lastId,
                             owner : Owners, held : Owners, token : 0 .. Len(issued),
                             status : Statuses, next : 0 .. Len(issued), again : BOOLEAN]]
    /\ restarts \in 0 .. MaxRestarts

\* A refresh never presents a refresh token whose successor has reached the database,
\* however requests, the keepalive loop and scans overlap: the mutex, and reading the
\* account again under it, see to it.  A spent token is only presented when the answer
\* that replaced it was lost.
NoReplay ==
    \A c \in Callers :
        call[c].at = "presenting" =>
            \A t \in 1 .. Len(issued) : issued[t].from = call[c].token => ~issued[t].stored

\* The second call of invokeWXApp goes out with other credentials than those just
\* refreshed, as long as the account exists, whatever was stored in between.
RetryUsesRenewed ==
    [][\A r \in Requests : Reread(r) /\ Has(call[r].id) => call'[r].next # call[r].token]_vars

\* An administrator's scan takes over another user's account only when that user came to
\* own it after ownerForScan had looked, as nothing holds the row in between, or when the
\* look itself failed, as its error is dropped (comment of ownerForScan, which knows neither).
Seizes(r, u) ==
    /\ row # NoRow /\ row.owner = u /\ u \notin {NoUser, call[r].by}
    /\ call[r].by \in Admins
    /\ Upsert(r) /\ row'.owner # u

SeizedOnlyUnseen ==
    [][\A r \in Requests, u \in Users :
          Seizes(r, u) => call[r].held # u \/ call[r].owner # call[r].held]_vars

\* Credentials in the refresh-ahead window are presented to the service or replaced.
Presents(t) == \E c \in Callers : call[c].at = "presenting" /\ call[c].token = t

DuePresented ==
    \A t \in 1 .. MaxTokens :
        row # NoRow /\ row.token = t /\ issued[t].age = Due
            ~> row = NoRow \/ row.token # t \/ Presents(t)

\* Whoever waits for refreshMu is answered.
CallersAnswered == \A c \in Callers : call[c].at = "refreshing" ~> call[c].at = "idle"
============================================================================
