----------------------------- MODULE ScriptJobs -----------------------------
(***************************************************************************)
(* The cron jobs the gateway keeps for one script on the task panel        *)
(* (internal/httpapi/runs.go, internal/store/runs.go): one per console     *)
(* user that runs the script for all of that user's accounts, and one per  *)
(* account for "run now".  The gateway's tables remember the panel's ids.  *)
(*                                                                         *)
(* Requests read the account, then the list of crons on the panel (the     *)
(* catalog), and go on with both while accounts are scanned by other users *)
(* or deleted, other requests do the same, and somebody works on the panel *)
(* itself.  Statements of the store and calls of the panel are one step    *)
(* each, and every call of the panel may fail.                             *)
(*                                                                         *)
(* The script is always in the catalog; names, schedules, log names and    *)
(* push settings are left out.  The panel is external.                     *)
(***************************************************************************)
EXTENDS Naturals, FiniteSets, TLC

CONSTANTS Requests,  \* requests under way at the same time
          Accounts,  \* the accounts scanned so far
          Owners,    \* console users; the owner key 0 (no owner) is one of them
          Gone,      \* the owner of a deleted account
          NoAccount,
          MaxCrons   \* bound: crons ever created on the panel

ASSUME JobsAssumption ==
    /\ Owners \cap Accounts = {} /\ Gone \notin Owners /\ NoAccount \notin Accounts
    /\ MaxCrons \in Nat \ {0}

\* What a job belongs to: user_script_jobs is keyed by owner, account_script_jobs by account.
Keys == Owners \cup Accounts

VARIABLES owner,     \* wechat_accounts.owner_user_id
          owners,    \* everyone who has ever owned the account
          job,       \* ql_cron_id of user_script_jobs and account_script_jobs, 0 for no row
          cron,      \* the crons on the panel, by id
          lastCron,  \* its id counter
          req        \* what each request does next, and what it has read

vars == <<owner, owners, job, cron, lastCron, req>>

\* scope: the accounts in WECHAT_OPENIDS.
Cron(key, scope, on) == [key |-> key, scope |-> scope, on |-> on]

Stages == {"idle", "catalog", "heal", "anchor", "sync", "ensure", "update", "forget", "create", "quiet",
           "record", "reread", "switchOn", "stop", "switchOff", "drop", "delete"}
Purposes == {"enable", "run", "list", "heal", "sync"}

\* acc: the account to delete, or read again; key: whose job the request is about; back:
\* whose jobs it goes on with after healing; catalog: the crons as read; scope: the
\* accounts as read; id: the cron in hand; old: the crons to be stopped; undone: somebody
\* stopped or deleted the cron in hand since.
Idle == [at |-> "idle", for |-> "list", acc |-> NoAccount, key |-> NoAccount, back |-> NoAccount,
         catalog |-> <<>>, scope |-> {}, id |-> 0, old |-> {}, undone |-> FALSE]

Become(r, x) == req' = [req EXCEPT ![r] = x]
Finish(r) == Become(r, Idle)

\* GetUserScriptJob, GetAccountScriptJob; the faulty variant looks for the script only.
JobOfScript(key) == LET k == CHOOSE k \in Keys : job[k] # 0 \/ \A l \in Keys : job[l] = 0
                    IN  job[k]
JobOf(key) == job[key]

\* The accounts a job of the key runs; the faulty variant leaves the owner out.
Owned(key) == {a \in Accounts : owner[a] = key}
ScopeOfAll(key) == {a \in Accounts : owner[a] # Gone}
Scope(key) == IF key \in Owners THEN Owned(key) ELSE {key}

\* The step stops or deletes these crons under the hands of other requests.
Undo(ids, mine) ==
    [r \in Requests |->
        [mine[r] EXCEPT !.undone = @ \/ (mine[r].for = "heal" /\ mine[r].id \in ids)]]

Switched(ids, on) ==
    [i \in DOMAIN cron |-> IF i \in ids THEN [cron[i] EXCEPT !.on = on] ELSE cron[i]]
Without(ids) == [i \in DOMAIN cron \ ids |-> cron[i]]
----------------------------------------------------------------------------
(* More faulty variants. *)

\* createCron whose answer is taken for the last cron known.
CreateUncounted(r) ==
    LET q == req[r] IN
    /\ q.at = "create"
    /\ lastCron < MaxCrons
    /\ cron' = [i \in DOMAIN cron \cup {lastCron + 1} |->
                  IF i = lastCron + 1 THEN Cron(q.key, q.scope, TRUE) ELSE cron[i]]
    /\ Become(r, [q EXCEPT !.at = "quiet", !.id = lastCron, !.scope = {}, !.undone = FALSE])
    /\ UNCHANGED <<owner, owners, job, lastCron>>

\* healLegacyOwnerJobs going by its own row instead of the panel.
HealByRow(r) ==
    LET q == req[r]
        old == {job[a] : a \in Owned(q.key)} \cap {i \in DOMAIN q.catalog : q.catalog[i].on}
        at == IF old = {} THEN "sync" ELSE IF job[q.key] # 0 THEN "stop" ELSE "ensure"
    IN
    /\ q.at = "heal"
    /\ Become(r, [q EXCEPT !.at = at, !.for = IF old = {} THEN @ ELSE "heal", !.old = old,
                           !.id = IF old = {} THEN @ ELSE job[q.key],
                           !.back = IF old = {} THEN @ ELSE q.key])
    /\ UNCHANGED <<owner, owners, job, cron, lastCron>>
----------------------------------------------------------------------------
\* Accounts with no jobs, or with the enabled account jobs of earlier versions.
Init ==
    /\ owner \in [Accounts -> Owners]
    /\ owners = [a \in Accounts |-> {owner[a]}]
    /\ req = [r \in Requests |-> Idle]
    /\ \E legacy \in {{}} \cup {{a} : a \in Accounts} :
          /\ lastCron = Cardinality(legacy)
          /\ job = [k \in Keys |-> IF k \in legacy THEN 1 ELSE 0]
          /\ cron = [i \in 1 .. lastCron |-> Cron(CHOOSE a \in legacy : TRUE, legacy, TRUE)]

\* A request resolves the account ...
Begin(r, a, for) ==
    /\ req[r].at = "idle"
    /\ owner[a] # Gone
    /\ Become(r, [Idle EXCEPT !.at = "catalog", !.for = for,
                              !.key = IF for = "run" THEN a ELSE owner[a]])
    /\ UNCHANGED <<owner, owners, job, cron, lastCron>>

\* ... and scriptCatalog lists the crons on the panel; only a request for the list of jobs
\* looks at more than their ids.
ReadCatalog(r) ==
    LET list == req[r].for = "list" IN
    /\ req[r].at = "catalog"
    /\ Become(r, [req[r] EXCEPT !.at = IF list THEN "heal" ELSE "ensure",
                     !.catalog = [i \in DOMAIN cron |->
                                    [scope |-> IF list THEN cron[i].scope ELSE {},
                                     on |-> list /\ cron[i].on]]])
    /\ UNCHANGED <<owner, owners, job, cron, lastCron>>

\* Ids of a catalog that are switched on.
On(catalog) == {i \in DOMAIN catalog : catalog[i].on}

\* A failing heal goes on with the synchronisation; other requests are answered.
After(r) ==
    IF req[r].for = "heal"
    THEN Become(r, [Idle EXCEPT !.at = "sync", !.key = req[r].back, !.catalog = req[r].catalog])
    ELSE Finish(r)

\* healLegacyOwnerJobs: the enabled account jobs of the owner are to give way to one job
\* of the owner ...
Heal(r) ==
    LET q == req[r]
        old == {job[a] : a \in Owned(q.key)} \cap On(q.catalog)
    IN
    /\ q.at = "heal"
    /\ \/ /\ old = {}
          /\ Become(r, [q EXCEPT !.at = "sync"])
       \/ \E a \in Owned(q.key) :
             /\ old # {} /\ job[a] # 0
             /\ Become(r, [q EXCEPT !.at = "anchor", !.for = "heal", !.acc = a,
                                    !.back = q.key, !.old = old])
    /\ UNCHANGED <<owner, owners, job, cron, lastCron>>

\* ... but the owner is the one that the first of the accounts has when read again.
Anchor(r) ==
    LET q == req[r] IN
    /\ q.at = "anchor"
    /\ IF owner[q.acc] = Gone
       THEN After(r)
       ELSE Become(r, [q EXCEPT !.at = "ensure", !.key = owner[q.acc]])
    /\ UNCHANGED <<owner, owners, job, cron, lastCron>>

\* syncUserJobs: nothing to do without accounts, without a cron in the catalog, or when
\* the catalog shows it as it should be.
Sync(r) ==
    LET q == req[r]
        id == job[q.key]
        scope == Owned(q.key)
    IN
    /\ q.at = "sync"
    /\ IF scope = {} \/ id \notin DOMAIN q.catalog
       THEN Finish(r)
       ELSE IF q.catalog[id].scope = scope
            THEN Finish(r)
            ELSE Become(r, [q EXCEPT !.at = "update", !.for = "sync", !.id = id,
                                     !.catalog = <<>>, !.scope = scope])
    /\ UNCHANGED <<owner, owners, job, cron, lastCron>>
----------------------------------------------------------------------------
(* ensureUserJob and ensureAccountJob *)

\* The accounts and the job are read.  The job's cron is updated if the catalog has it;
\* otherwise its row, if any, is deleted and a cron is created.
Ensure(r) ==
    LET q == req[r]
        id == JobOf(q.key)
        at == IF id \in DOMAIN q.catalog THEN "update" ELSE IF id = 0 THEN "create" ELSE "forget"
    IN
    /\ q.at = "ensure"
    /\ IF Scope(q.key) = {}
       THEN After(r)
       ELSE Become(r, [q EXCEPT !.at = at, !.id = id, !.scope = Scope(q.key),
                                !.catalog = IF q.for = "heal" THEN @ ELSE <<>>])
    /\ UNCHANGED <<owner, owners, job, cron, lastCron>>

\* updateCron; an account's job is not written again.
Update(r) ==
    LET q == req[r] IN
    /\ q.at = "update"
    /\ q.id \in DOMAIN cron
    /\ cron' = [cron EXCEPT ![q.id].key = q.key, ![q.id].scope = q.scope]
    /\ IF q.for = "run" THEN Finish(r)
       ELSE Become(r, [q EXCEPT !.at = "record", !.scope = {}])
    /\ UNCHANGED <<owner, owners, job, lastCron>>

\* DeleteUserScriptJob, DeleteAccountScriptJob, whose errors are dropped.
Forget(r) ==
    /\ req[r].at = "forget"
    /\ job' \in {job, [job EXCEPT ![req[r].key] = 0]}
    /\ Become(r, [req[r] EXCEPT !.at = "create"])
    /\ UNCHANGED <<owner, owners, cron, lastCron>>

\* createCron: the panel switches a new cron on.
Create(r) ==
    LET q == req[r] IN
    /\ q.at = "create"
    /\ lastCron < MaxCrons
    /\ lastCron' = lastCron + 1
    /\ cron' = [i \in DOMAIN cron \cup {lastCron'} |->
                  IF i = lastCron' THEN Cron(q.key, q.scope, TRUE) ELSE cron[i]]
    /\ Become(r, [q EXCEPT !.at = "quiet", !.id = lastCron', !.scope = {}, !.undone = FALSE])
    /\ UNCHANGED <<owner, owners, job>>

\* setCronsEnabled(false) on the new cron.
Quiet(r) ==
    /\ req[r].at = "quiet"
    /\ cron' = Switched({req[r].id}, FALSE)
    /\ Become(r, [req[r] EXCEPT !.at = "record"])
    /\ UNCHANGED <<owner, owners, job, lastCron>>

\* UpsertUserScriptJob, UpsertAccountScriptJob: the row is written, an account's only while
\* the account is there (a foreign key), ...
Record(r) ==
    LET q == req[r] IN
    /\ q.at = "record"
    /\ IF q.key \in Accounts /\ owner[q.key] = Gone
       THEN UNCHANGED job
       ELSE job' = [job EXCEPT ![q.key] = q.id]
    /\ IF q.for \in {"enable", "heal"} THEN Become(r, [q EXCEPT !.at = "reread"]) ELSE Finish(r)
    /\ UNCHANGED <<owner, owners, cron, lastCron>>

\* ... and read again: the cron to be switched on is the one another request may have
\* written since.
Reread(r) ==
    LET q == req[r] IN
    /\ q.at = "reread"
    /\ IF job[q.key] = 0 THEN After(r)
       ELSE Become(r, [q EXCEPT !.at = "switchOn", !.id = job[q.key]])
    /\ UNCHANGED <<owner, owners, job, cron, lastCron>>

\* setCronsEnabled(true) on the user's cron.
SwitchOn(r) ==
    LET q == req[r] IN
    /\ q.at = "switchOn"
    /\ cron' = Switched({q.id}, TRUE)
    /\ IF q.for = "heal"
       THEN Become(r, [q EXCEPT !.at = "stop", !.undone = q.id \notin DOMAIN cron])
       ELSE Finish(r)
    /\ UNCHANGED <<owner, owners, job, lastCron>>

\* healLegacyOwnerJobs stops the account jobs.
StopOld(r) ==
    LET q == req[r] IN
    /\ q.at = "stop"
    /\ cron' = Switched(q.old, FALSE)
    /\ After(r)
    /\ UNCHANGED <<owner, owners, job, lastCron>>

\* A call of the panel fails, or a statement of the store whose error is returned.
Fails(r) ==
    /\ req[r].at \notin {"idle", "heal", "forget"}
    /\ After(r)
    /\ UNCHANGED <<owner, owners, job, cron, lastCron>>
----------------------------------------------------------------------------
(* Disabling a job, deleting and scanning accounts, working on the panel *)

\* handleQingLongJobEnable with enabled = false: the user's job is read ...
Disable(r, a) ==
    /\ req[r].at = "idle"
    /\ owner[a] # Gone /\ job[owner[a]] # 0
    /\ Become(r, [Idle EXCEPT !.at = "switchOff", !.id = job[owner[a]]])
    /\ UNCHANGED <<owner, owners, job, cron, lastCron>>

\* ... and its cron switched off.
SwitchOff(r) ==
    /\ req[r].at = "switchOff"
    /\ cron' = Switched({req[r].id}, FALSE)
    /\ req' = [Undo({req[r].id}, req) EXCEPT ![r] = Idle]
    /\ UNCHANGED <<owner, owners, job, lastCron>>

\* DELETE /accounts: cleanupAccountFromQingLong lists the account's jobs ...
BeginDelete(r, a) ==
    /\ req[r].at = "idle"
    /\ owner[a] # Gone
    /\ Become(r, [Idle EXCEPT !.at = "drop", !.acc = a, !.id = job[a]])
    /\ UNCHANGED <<owner, owners, job, cron, lastCron>>

\* ... deletes their crons ...
Drop(r) ==
    LET q == req[r] IN
    /\ q.at = "drop"
    /\ cron' = Without({q.id})
    /\ req' = [Undo({q.id} \ {0}, req) EXCEPT ![r] = [q EXCEPT !.at = "delete"]]
    /\ UNCHANGED <<owner, owners, job, lastCron>>

\* ... and then the account goes, with its rows in account_script_jobs.
Delete(r) ==
    LET a == req[r].acc IN
    /\ req[r].at = "delete"
    /\ owner' = [owner EXCEPT ![a] = Gone]
    /\ job' = [job EXCEPT ![a] = 0]
    /\ Finish(r)
    /\ UNCHANGED <<owners, cron, lastCron>>

\* Another user scans the account.
Move(a, u) ==
    /\ owner[a] \notin {Gone, u}
    /\ owner' = [owner EXCEPT ![a] = u]
    /\ owners' = [owners EXCEPT ![a] = @ \cup {u}]
    /\ UNCHANGED <<job, cron, lastCron, req>>

\* Somebody deletes a cron on the panel.
PanelDelete(i) ==
    /\ cron' = Without({i})
    /\ req' = Undo({i}, req)
    /\ UNCHANGED <<owner, owners, job, lastCron>>

Next ==
    \/ \E r \in Requests :
          \/ \E a \in Accounts :
                \/ \E for \in {"enable", "run", "list"} : Begin(r, a, for)
                \/ Disable(r, a) \/ BeginDelete(r, a)
          \/ ReadCatalog(r) \/ Heal(r) \/ Anchor(r) \/ Sync(r)
          \/ Ensure(r) \/ Update(r) \/ Forget(r) \/ Create(r) \/ Quiet(r) \/ Record(r)
          \/ Reread(r) \/ SwitchOn(r) \/ StopOld(r) \/ Fails(r)
          \/ SwitchOff(r) \/ Drop(r) \/ Delete(r)
    \/ \E a \in Accounts, u \in Owners : Move(a, u)
    \/ \E i \in DOMAIN cron : PanelDelete(i)

Spec == Init /\ [][Next]_vars
----------------------------------------------------------------------------
(* Properties *)

Ids == 1 .. MaxCrons
Crons == [key : Keys, scope : SUBSET Accounts, on : BOOLEAN]

TypeOK ==
    /\ owner \in [Accounts -> Owners \cup {Gone}]
    /\ owners \in [Accounts -> SUBSET Owners]
    /\ lastCron \in 0 .. MaxCrons
    /\ job \in [Keys -> 0 .. lastCron]
    /\ DOMAIN cron \subseteq 1 .. lastCron /\ \A i \in DOMAIN cron : cron[i] \in Crons
    /\ \A r \in Requests :
          /\ req[r].at \in Stages /\ req[r].for \in Purposes
          /\ req[r].acc \in Accounts \cup {NoAccount}
          /\ req[r].key \in Keys \cup {NoAccount} /\ req[r].back \in Owners \cup {NoAccount}
          /\ DOMAIN req[r].catalog \subseteq 1 .. lastCron
          /\ \A i \in DOMAIN req[r].catalog :
                req[r].catalog[i] \in [scope : SUBSET Accounts, on : BOOLEAN]
          /\ req[r].scope \subseteq Accounts /\ req[r].old \subseteq 1 .. lastCron
          /\ req[r].id \in 0 .. lastCron /\ req[r].undone \in BOOLEAN

\* A row always names a cron that was made for it: no two rows share a cron, and no
\* user's cron is taken for another's, whoever moves accounts while jobs are made.
RecordsOwnCron ==
    \A k \in Keys : job[k] \in DOMAIN cron => cron[job[k]].key = k

\* A user's cron runs no account that was never this user's, and an account's cron no
\* other account (comments of userTaskSpec and accountTaskSpec).
Isolated ==
    \A i \in DOMAIN cron :
        LET k == cron[i].key IN
        IF k \in Owners THEN \A a \in cron[i].scope : k \in owners[a] ELSE cron[i].scope = {k}

\* The accounts a user has, and has had all along.
Kept(u) == {a \in Accounts : owner[a] = u /\ owners[a] = {u}}

\* When the old jobs of a user's accounts are stopped, a job of this user is switched on
\* and runs every account the user has had all along (comments of healLegacyOwnerJobs,
\* runs.go:1429 and 1464).  The exceptions: somebody stopped or deleted the job meanwhile,
\* or the account the user was taken from had moved when it was read again, and the job is
\* that of another user: then the accounts whose jobs are stopped may be run by none.
GapOnlyByMove ==
    \A r \in Requests :
        LET q == req[r] IN
        q.at = "stop" /\ ~q.undone =>
            /\ q.id \in DOMAIN cron /\ cron[q.id].on /\ cron[q.id].key = q.key
            /\ \/ q.key = q.back /\ Kept(q.back) \subseteq cron[q.id].scope
               \/ q.key # q.back /\ {q.key, q.back} \subseteq owners[q.acc]
============================================================================
