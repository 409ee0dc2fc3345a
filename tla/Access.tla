------------------------------- MODULE Access -------------------------------
(***************************************************************************)
(* Who gets into the gateway and what a request may reach: the login       *)
(* limiter (auth.go), the API token and the middlewares (api_token.go,     *)
(* security.go, auth.go), the decisions about accounts (access.go,         *)
(* fusion.go) and the scripts a user may see (script_scope.go).            *)
(*                                                                         *)
(* The middleware reads the session and the role of a request once, the    *)
(* handler reads the account, then it works on it; sessions, roles, owners *)
(* and switches change in between.  An attempt to log in is let through,   *)
(* checked and counted in three steps.                                     *)
(*                                                                         *)
(* The window of the limiter is over for one counter after the other, in   *)
(* the order they were started in.  Passwords, names and headers are left  *)
(* out; a path is the sequence of its parts.                               *)
(***************************************************************************)
EXTENDS Naturals, Sequences, FiniteSets, SequencesExt

CONSTANTS Users, Nobody,
          Addresses,    \* clientIP of attempts
          Accounts,     \* ids
          Scripts,      \* their paths
          Requests,     \* requests under way at the same time
          Configs,      \* YYB_API_TOKEN set, YYB_ALLOW_NO_AUTH, an auth driver that is not none
          FailPerUser, FailPerIP, AttemptsMax,  \* loginFailPerUser, loginFailPerIP, loginAttemptsMax
          Scenes        \* bounds: attempts, calls and changes, with a configuration and tables

\* The settings that a page can make, and the rows of accounts.
Dirs == {{SubSeq(s, 1, 1)} : s \in Scripts} \cup {{}}
Row == [owner : Users \cup {Nobody}, shared : BOOLEAN, alive : BOOLEAN, updated : {1, 2}]

\* What a job of a script is kept for: "run now" makes one of an account, "enable" one of an
\* owner of accounts.
Jobs == (Accounts \cup Users \cup {Nobody}) \X Scripts

ASSUME AccessAssumption ==
    /\ Nobody \notin Users /\ IsFiniteSet(Requests)
    /\ \A s \in Scripts : s \in Seq(STRING) /\ s # <<>>
    /\ Accounts \subseteq Nat
    /\ Configs \subseteq [chosen : BOOLEAN, open : BOOLEAN, auth : BOOLEAN]
    /\ FailPerUser \in Nat \ {0} /\ FailPerIP \in Nat \ {0} /\ AttemptsMax \in Nat \ {0, 1}
    /\ Scenes \subseteq [config : Configs, attempts : Nat, calls : Nat, changes : Nat,
                         signed : SUBSET Users, admins : SUBSET Users,
                         account : [Accounts -> Row],
                         setting : [form : {"json", "text"}, dirs : Dirs], jobs : SUBSET Jobs]

VARIABLES config,
          token,    \* Config.APIToken as resolved at the start
          stored,   \* the setting with the token that was generated last
          minted,   \* tokens generated
          signed,   \* users with a session
          admins,   \* users with the role
          account,  \* wechat_accounts
          setting,  \* script_dir_allowlist: [form, dirs]
          jobs,     \* account_script_jobs and user_script_jobs
          attempts, \* loginAttempts
          clock,    \* readings of the clock when counters were bumped
          guesses,  \* wrong passwords since the counter of a key was forgotten
          req,
          left      \* what is left of the bounds

vars == <<config, token, stored, minted, signed, admins, account, setting, jobs, attempts,
          clock, guesses, req, left>>
process == <<config, token, stored, minted>>
tables == <<signed, admins, account, setting, jobs>>
limiter == <<attempts, clock, guesses>>

NoToken == 0
Chosen == 1  \* the token of the configuration; those generated are 2, 3, ...
Api == {"code", "default", "instances"}
Console == {"account", "share", "accounts", "script", "disable", "log", "jobs"}
ByRef == {"code", "account", "share", "script", "disable", "log", "jobs"}
Stages == {"idle", "authorized", "resolved", "checking", "wrong", "right", "entering"}

\* Route script: a script is enabled or run now; jobs: the list of them, which heals, and the
\* push settings.  user and admin are what the middleware has read, owner what the handler has;
\* moved: what the decision went by has changed since.
Idle == [at |-> "idle", route |-> "none", token |-> NoToken, cookie |-> Nobody, user |-> Nobody,
         admin |-> FALSE, accounts |-> {}, owner |-> Nobody, script |-> <<>>, from |-> Nobody,
         moved |-> FALSE]
Become(r, q) == req' = [req EXCEPT ![r] = q]
Finish(r) == Become(r, Idle)
\* A change matters to requests rs.
Moves(rs) == [r \in Requests |-> [req[r] EXCEPT !.moved = @ \/ r \in rs]]
Spend(what) == left[what] > 0 /\ left' = [left EXCEPT ![what] = @ - 1]
----------------------------------------------------------------------------
(* Decisions of a handler on request q *)

\* Without a user, a request is an administrator's.
IsAdminRequest(q) == q.user = Nobody \/ q.admin

CanAccessAccount(q, a) == IsAdminRequest(q) \/ account[a].owner = q.user

CanReadAccountViaAPI(q, a) ==
    IF q.user # Nobody THEN CanAccessAccount(q, a) ELSE account[a].shared

ListVisibleAccounts(q) == {a \in Accounts : CanAccessAccount(q, a)}
ListReadableAccounts(q) ==
    IF q.user # Nobody THEN ListVisibleAccounts(q) ELSE {a \in Accounts : account[a].shared}

BetterDefaultAccount(a, b) ==
    IF account[a].alive # account[b].alive THEN account[a].alive
    ELSE account[a].updated > account[b].updated

\* pickDefaultAccount: the best one, of equals the first.
PickDefault(accounts) ==
    CHOOSE a \in accounts : \A b \in accounts \ {a} :
        ~BetterDefaultAccount(b, a) /\ (BetterDefaultAccount(a, b) \/ a < b)

DefaultAccountFor(q) == PickDefault(ListReadableAccounts(q))

\* parseScriptDirAllowlist: only the JSON form gives directories.
ParseScriptDirAllowlist(s) == IF s.form = "json" THEN s.dirs ELSE {}

\* scriptScopeForRequest and scriptScope.allows; a setting that cannot be read allows nothing.
Allows(q, script, readable) ==
    LET dirs == ParseScriptDirAllowlist(setting) IN
    \/ IsAdminRequest(q)
    \/ readable /\ (dirs = {} \/ \E dir \in dirs : IsPrefix(dir, script))
----------------------------------------------------------------------------
(* The limiter *)

UserKey(u) == <<"user", u>>
IPKey(ip) == <<"ip", ip>>
Keys == {UserKey(u) : u \in Users} \cup {IPKey(ip) : ip \in Addresses}
Limit(key) == IF key[1] = "user" THEN FailPerUser ELSE FailPerIP

Drop(table, keys) == [key \in DOMAIN table \ keys |-> table[key]]
Put(table, key, c) == [k \in DOMAIN table \cup {key} |-> IF k = key THEN c ELSE table[k]]
Running(table) == {key \in DOMAIN table : ~table[key].over}
Oldest(table) ==
    CHOOSE key \in DOMAIN table : \A k \in DOMAIN table : table[key].start <= table[k].start

\* Faulty variant: clearing only what is over.
EvictOverOnly(table) ==
    IF Cardinality(DOMAIN table) < AttemptsMax THEN table
    ELSE Drop(table, DOMAIN table \ Running(table))

\* evictLoginAttemptsLocked: the counters whose window is over, or the one started first.
Evict(table) ==
    IF Cardinality(DOMAIN table) < AttemptsMax THEN table
    ELSE IF Cardinality(Running(table)) < AttemptsMax THEN Drop(table, DOMAIN table \ Running(table))
    ELSE Drop(table, {Oldest(table)})

\* bumpFailureLocked: a counter that is new or over starts again.
Bump(table, key, now) ==
    LET new == [failures |-> 1, over |-> FALSE, start |-> now] IN
    IF key \notin DOMAIN table THEN Put(Evict(table), key, new)
    ELSE IF table[key].over THEN Put(table, key, new)
    ELSE Put(table, key, [table[key] EXCEPT !.failures = @ + 1])

\* A counter that goes, or starts again, forgets what it has counted; bumped: it counts one more.
Forgets(table, bumped, key) ==
    /\ key \in DOMAIN attempts
    /\ \/ key \notin DOMAIN table
       \/ table[key].failures # attempts[key].failures + IF key \in bumped THEN 1 ELSE 0

Replace(table, bumped) ==
    /\ attempts' = table
    /\ guesses' = [key \in Keys |-> IF Forgets(table, bumped, key) THEN 0 ELSE guesses[key]]

\* allowLogin: the address, then the user; a counter that is over goes when it is looked at.
Full(table, key) ==
    /\ key \in DOMAIN table /\ ~table[key].over
    /\ table[key].failures >= Limit(key)
Stale(table, key) == {key} \cap (DOMAIN table \ Running(table))
----------------------------------------------------------------------------
(* Faulty variants, one per property (that of TypeOK is EvictOverOnly). *)

\* recordLoginFailure counting the address only.
RecordAddressFailure(r) ==
    /\ req[r].at = "wrong"
    /\ Replace(Bump(attempts, IPKey(req[r].from), clock + 1), {IPKey(req[r].from)})
    /\ clock' = clock + 1
    /\ Finish(r)
    /\ UNCHANGED <<process, tables, left>>

\* requireAPIToken letting a session pass without putting its user into the request.
RequireAPITokenAnonymous(r, route, given, cookie) ==
    LET script == token # NoToken /\ given = token
        browser == ~script /\ config.auth /\ cookie \in signed
    IN
    /\ req[r].at = "idle" /\ route \in Api /\ Spend("calls")
    /\ script \/ browser \/ token = NoToken
    /\ Become(r, [Idle EXCEPT !.at = "authorized", !.route = route,
                              !.token = given, !.cookie = cookie])
    /\ UNCHANGED <<process, tables, limiter>>
----------------------------------------------------------------------------
(* Start *)

Generates(c) == ~c.chosen /\ ~c.open /\ stored = NoToken

\* resolveAPIToken; a token that could not be saved holds until the next start.
ResolveAPIToken(c) ==
    IF c.chosen THEN Chosen
    ELSE IF c.open THEN NoToken
    ELSE IF stored # NoToken THEN stored ELSE minted + 2

Init ==
    /\ \E scene \in Scenes :
          /\ config = scene.config
          /\ left = [attempts |-> scene.attempts, calls |-> scene.calls, changes |-> scene.changes]
          /\ signed = scene.signed /\ admins = scene.admins /\ account = scene.account
          /\ setting = scene.setting /\ jobs = scene.jobs
    /\ minted = IF config.chosen \/ config.open THEN 0 ELSE 1
    /\ token = IF config.chosen THEN Chosen ELSE IF config.open THEN NoToken ELSE 2
    /\ stored \in {NoToken} \cup (IF minted = 1 THEN {token} ELSE {})
    /\ attempts = <<>> /\ clock = 0
    /\ guesses = [key \in Keys |-> 0]
    /\ req = [r \in Requests |-> Idle]

\* Attempts to log in and their counters are lost, sessions and tables stay.
Restart(c, saved) ==
    /\ Spend("changes")
    /\ config' = c
    /\ token' = ResolveAPIToken(c)
    /\ minted' = IF Generates(c) THEN minted + 1 ELSE minted
    /\ stored' = IF Generates(c) /\ saved THEN token' ELSE stored
    /\ req' = [r \in Requests |-> Idle]
    /\ attempts' = <<>> /\ guesses' = [key \in Keys |-> 0]
    /\ UNCHANGED <<tables, clock>>

(* Logging in *)

\* handleLogin: allowLogin.
AllowLogin(r, u, ip) ==
    LET looked == Drop(attempts, Stale(attempts, IPKey(ip)))
        passed == Drop(looked, Stale(looked, UserKey(u)))
    IN
    /\ req[r].at = "idle" /\ config.auth /\ Spend("attempts")
    /\ IF Full(attempts, IPKey(ip)) THEN UNCHANGED <<limiter, req>>
       ELSE /\ Replace(passed, {}) /\ UNCHANGED clock
            /\ IF Full(looked, UserKey(u)) THEN UNCHANGED req
               ELSE Become(r, [Idle EXCEPT !.at = "checking", !.user = u, !.from = ip])
    /\ UNCHANGED <<process, tables>>

\* Authenticate.
WrongPassword(r) ==
    /\ req[r].at = "checking"
    /\ Become(r, [req[r] EXCEPT !.at = "wrong"])
    /\ guesses' = [key \in Keys |-> IF key \in {UserKey(req[r].user), IPKey(req[r].from)}
                                    THEN guesses[key] + 1 ELSE guesses[key]]
    /\ UNCHANGED <<process, tables, attempts, clock, left>>

RightPassword(r) ==
    /\ req[r].at = "checking"
    /\ Become(r, [req[r] EXCEPT !.at = "right"])
    /\ UNCHANGED <<process, tables, limiter, left>>

RecordLoginFailure(r) ==
    /\ req[r].at = "wrong"
    /\ LET user == UserKey(req[r].user)
           address == IPKey(req[r].from)
       IN Replace(Bump(Bump(attempts, user, clock + 1), address, clock + 2), {user, address})
    /\ clock' = clock + 2
    /\ Finish(r)
    /\ UNCHANGED <<process, tables, left>>

ClearLoginFailures(r) ==
    /\ req[r].at = "right"
    /\ Replace(Drop(attempts, {UserKey(req[r].user), IPKey(req[r].from)}), {})
    /\ Become(r, [req[r] EXCEPT !.at = "entering"])
    /\ UNCHANGED <<process, tables, clock, left>>

\* CreateSession; UserStore has what may come between.
CreateSession(r) ==
    /\ req[r].at = "entering"
    /\ signed' = signed \cup {req[r].user}
    /\ Finish(r)
    /\ UNCHANGED <<process, admins, account, setting, jobs, limiter, left>>

\* Fifteen minutes after its start, a counter is over.
WindowEnds ==
    /\ \E key \in Running(attempts) :
          /\ \A k \in Running(attempts) : attempts[key].start <= attempts[k].start
          /\ attempts' = [attempts EXCEPT ![key].over = TRUE]
    /\ UNCHANGED <<process, tables, clock, guesses, req, left>>
----------------------------------------------------------------------------
(* Middlewares *)

\* requireAPIToken: the token counts before the session; without either, only an empty token
\* lets a request pass.  What is refused leaves no trace.
RequireAPIToken(r, route, given, cookie) ==
    LET script == token # NoToken /\ given = token
        browser == ~script /\ config.auth /\ cookie \in signed
    IN
    /\ req[r].at = "idle" /\ route \in Api /\ Spend("calls")
    /\ script \/ browser \/ token = NoToken
    /\ Become(r, [Idle EXCEPT !.at = "authorized", !.route = route,
                              !.token = given, !.cookie = cookie,
                              !.user = IF browser THEN cookie ELSE Nobody,
                              !.admin = browser /\ cookie \in admins])
    /\ UNCHANGED <<process, tables, limiter>>

\* requireBrowserSession, and requireAdminSession for the settings; without users to log in,
\* everyone is the administrator of this machine.
RequireBrowserSession(r, route, cookie) ==
    /\ req[r].at = "idle" /\ route \in Console \cup {"visibility"} /\ Spend("calls")
    /\ config.auth => cookie \in signed
    /\ config.auth /\ route = "visibility" => cookie \in admins
    /\ Become(r, [Idle EXCEPT !.at = "authorized", !.route = route, !.cookie = cookie,
                              !.user = IF config.auth THEN cookie ELSE Nobody,
                              !.admin = config.auth /\ cookie \in admins])
    /\ UNCHANGED <<process, tables, limiter>>
----------------------------------------------------------------------------
(* Handlers *)

\* resolveAccountRef, resolveAPIAccountRef, resolveReadableAccount.
ResolveAccount(r, a) ==
    LET q == req[r] IN
    /\ q.at = "authorized" /\ q.route \in ByRef
    /\ IF IF q.route \in Api THEN CanReadAccountViaAPI(q, a) ELSE CanAccessAccount(q, a)
       THEN Become(r, [q EXCEPT !.at = "resolved", !.accounts = {a}, !.owner = account[a].owner])
       ELSE Finish(r)
    /\ UNCHANGED <<process, tables, limiter, left>>

\* Without a reference: the default account, the list of instances, all accounts of the console.
ListAccounts(r) ==
    LET q == req[r]
        list == IF q.route = "accounts" THEN ListVisibleAccounts(q) ELSE ListReadableAccounts(q)
    IN
    /\ q.at = "authorized" /\ q.route \in {"default", "instances", "accounts"}
    /\ IF list = {} THEN Finish(r)
       ELSE Become(r, [q EXCEPT !.at = "resolved", !.accounts =
                IF q.route = "default" THEN {DefaultAccountFor(q)} ELSE list])
    /\ UNCHANGED <<process, tables, limiter, left>>

\* A script is enabled or run only if it is visible.
ResolveVisibleScript(r, script, readable) ==
    LET q == req[r] IN
    /\ q.at = "resolved" /\ q.route = "script" /\ q.script = <<>>
    /\ IF Allows(q, script, readable) THEN Become(r, [q EXCEPT !.script = script]) ELSE Finish(r)
    /\ UNCHANGED <<process, tables, limiter, left>>

\* resolveUserScriptJob and resolveScriptLogCron do not ask whether it is: there must be a job.
ResolveScriptJob(r, script) ==
    LET q == req[r]
        keys == {q.owner} \cup IF q.route = "log" THEN q.accounts ELSE {}
    IN
    /\ q.at = "resolved" /\ q.route \in {"disable", "log"} /\ q.script = <<>>
    /\ IF \E key \in keys : <<key, script>> \in jobs
       THEN Become(r, [q EXCEPT !.script = script]) ELSE Finish(r)
    /\ UNCHANGED <<process, tables, limiter, left>>

\* Scripts that an account of the owner has a job for: healLegacyOwnerJobs may make one of the
\* owner from it.
Healed(owner) ==
    {s \in Scripts : \E a \in Accounts : account[a].owner = owner /\ <<a, s>> \in jobs}

\* The handler works on its accounts: it shares one or stops that, renews the credentials, or
\* only answers; or on the jobs of scripts, of which ScriptJobs has the rest.
ForScript == {"script", "disable", "log"}
Works(q) == q.at = "resolved" /\ (q.route \in ForScript => q.script # <<>>)

Operate(r) ==
    LET q == req[r]
        meets == {p \in Requests :
                    req[p].route = "default" \/ req[p].accounts \cap q.accounts # {}}
    IN
    /\ Works(q)
    /\ \/ /\ q.route \in ForScript \cup {"instances", "jobs"}
          /\ \/ UNCHANGED jobs
             \/ /\ q.route = "script"
                /\ \E key \in q.accounts \cup {q.owner} : jobs' = jobs \cup {<<key, q.script>>}
             \/ /\ q.route = "jobs"
                /\ \E scripts \in SUBSET Healed(q.owner) : jobs' = jobs \cup {q.owner} \X scripts
          /\ UNCHANGED account /\ Finish(r)
       \/ /\ q.route \notin ForScript \cup {"instances", "jobs"}
          /\ \E alive \in BOOLEAN :
                account' = [a \in Accounts |->
                   IF a \notin q.accounts THEN account[a]
                   ELSE IF q.route = "share"
                        THEN [account[a] EXCEPT !.shared = ~@, !.updated = 2]
                        ELSE [account[a] EXCEPT !.alive = alive, !.updated = 2]]
          /\ req' = [Moves(meets) EXCEPT ![r] = Idle]
          /\ UNCHANGED jobs
    /\ UNCHANGED <<process, signed, admins, setting, limiter, left>>

Scripted == {p \in Requests : req[p].route = "script"}

HandleScriptVisibility(r, dirs) ==
    /\ req[r].at = "authorized" /\ req[r].route = "visibility"
    /\ setting' = [form |-> "json", dirs |-> dirs]
    /\ req' = [Moves(Scripted) EXCEPT ![r] = Idle]
    /\ UNCHANGED <<process, signed, admins, account, jobs, limiter, left>>
----------------------------------------------------------------------------
(* Changes by others *)

\* A scan gives the account to its user (Accounts says when).
Claim(u, a) ==
    /\ Spend("changes")
    /\ account' = [account EXCEPT ![a].owner = u, ![a].updated = 2]
    /\ req' = Moves({p \in Requests : req[p].route = "default" \/ a \in req[p].accounts})
    /\ UNCHANGED <<process, signed, admins, setting, jobs, limiter>>

Theirs(u) == {p \in Requests : req[p].cookie = u}

SetRole(u) ==
    /\ Spend("changes")
    /\ admins' = IF u \in admins THEN admins \ {u} ELSE admins \cup {u}
    /\ req' = Moves(Theirs(u))
    /\ UNCHANGED <<process, signed, account, setting, jobs, limiter>>

SignOut(u) ==
    /\ u \in signed /\ Spend("changes")
    /\ signed' = signed \ {u}
    /\ req' = Moves(Theirs(u))
    /\ UNCHANGED <<process, admins, account, setting, jobs, limiter>>

\* The setting is written into the database by hand.
EditSetting(dirs) ==
    /\ Spend("changes")
    /\ setting' = [form |-> "text", dirs |-> dirs]
    /\ req' = Moves(Scripted)
    /\ UNCHANGED <<process, signed, admins, account, jobs, limiter>>

Tokens == 0 .. minted + 1

\* A cookie of a session that is over is as good as none.
Next ==
    \/ \E r \in Requests :
          \/ \E u \in Users, ip \in Addresses : AllowLogin(r, u, ip)
          \/ WrongPassword(r) \/ RightPassword(r)
          \/ RecordLoginFailure(r) \/ ClearLoginFailures(r) \/ CreateSession(r)
          \/ \E route \in Api, given \in Tokens, cookie \in signed \cup {Nobody} :
                RequireAPIToken(r, route, given, cookie)
          \/ \E route \in Console \cup {"visibility"}, cookie \in signed \cup {Nobody} :
                RequireBrowserSession(r, route, cookie)
          \/ \E a \in Accounts : ResolveAccount(r, a)
          \/ ListAccounts(r) \/ Operate(r)
          \/ \E script \in Scripts, readable \in BOOLEAN : ResolveVisibleScript(r, script, readable)
          \/ \E script \in Scripts : ResolveScriptJob(r, script)
          \/ \E dirs \in Dirs : HandleScriptVisibility(r, dirs)
    \/ WindowEnds
    \/ \E u \in Users, a \in Accounts : Claim(u, a)
    \/ \E u \in Users : SetRole(u) \/ SignOut(u)
    \/ \E dirs \in Dirs : EditSetting(dirs)
    \/ \E c \in Configs, saved \in BOOLEAN : Restart(c, saved)

Spec == Init /\ [][Next]_vars
----------------------------------------------------------------------------
(* Every variable has its type, and the table of counters keeps its size   *)
(* (evictLoginAttemptsLocked).                                             *)
TypeOK ==
    /\ config \in Configs /\ token \in Tokens /\ stored \in Tokens
    /\ signed \subseteq Users /\ admins \subseteq Users
    /\ account \in [Accounts -> Row] /\ jobs \subseteq Jobs
    /\ \A r \in Requests : req[r].at \in Stages /\ req[r].accounts \subseteq Accounts
    /\ DOMAIN attempts \subseteq Keys /\ Cardinality(DOMAIN attempts) <= AttemptsMax

(* "Either line over the limit refuses" (auth.go:575): however attempts    *)
(* overlap, and whichever other users and addresses they are for, as long  *)
(* as a counter is remembered its key has had less wrong passwords checked *)
(* than the limit and the requests that may be under way together.         *)
GuessesLimited == \A key \in Keys : guesses[key] < Limit(key) + Cardinality(Requests)

\* Who a request is by its credentials now: a script with the token, a user, or anyone where
\* the gateway is open; and what the comments of access.go and api_token.go let each reach.
Identity(q) ==
    IF q.route \in Api /\ token # NoToken /\ q.token = token THEN "script"
    ELSE IF config.auth /\ q.cookie \in signed THEN "user"
    ELSE IF q.route \in Api /\ token = NoToken THEN "script"
    ELSE IF q.route \in Console /\ ~config.auth THEN "local" ELSE "nobody"

Granted(q, a) ==
    CASE Identity(q) = "script" -> account[a].shared
      [] Identity(q) = "user" -> q.cookie \in admins \/ account[a].owner = q.cookie
      [] Identity(q) = "local" -> TRUE
      [] OTHER -> FALSE

\* Nothing the request may reach is a better default.
BestGranted(q, a) ==
    \A b \in Accounts : Granted(q, b) =>
       /\ account[b].alive => account[a].alive
       /\ account[b].alive = account[a].alive => account[b].updated <= account[a].updated

ScriptGranted(q, script) ==
    \/ Identity(q) = "local" \/ q.cookie \in admins
    \/ setting.form = "text" \/ setting.dirs = {}
    \/ \E dir \in setting.dirs : \E n \in 1 .. Len(script) : SubSeq(script, 1, n) = dir

HasJob(q, script) ==
    \E a \in q.accounts : \E key \in {a, account[a].owner} : <<key, script>> \in jobs

(* Unless what a request goes by has changed since it came in, it works    *)
(* only on accounts its credentials give it, whichever route it takes      *)
(* (access.go, api_token.go).  In particular a request without a user,     *)
(* which counts as an administrator's, reaches nothing but shared accounts *)
(* where there are users to log in.                                        *)
(*                                                                         *)
(* Scripts are kept to the visible directories where they are enabled and  *)
(* run (script_scope.go:18).  The routes that do not ask for these are the *)
(* exceptions named here: a job is disabled and its log read whatever its  *)
(* script, but there must be one of the account or its owner (runs.go:257, *)
(* 364), and a hidden script gets a new job only when the list of jobs     *)
(* heals the one that an account of the same owner has (runs.go:137).      *)
ReachOnlyAsGranted ==
    [][\A r \in Requests :
          LET q == req[r] IN
          Operate(r) /\ ~q.moved =>
             /\ \A a \in q.accounts : Granted(q, a)
             /\ q.route = "default" => \A a \in q.accounts : BestGranted(q, a)
             /\ q.route = "script" => ScriptGranted(q, q.script)
             /\ q.route \in {"disable", "log"} => HasJob(q, q.script)
             /\ \A new \in jobs' \ jobs :
                   \/ ScriptGranted(q, new[2])
                   \/ \E a \in q.accounts : new[2] \in Healed(account[a].owner)]_vars
=============================================================================
