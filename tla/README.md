# A verification of the YYB Go gateway

This directory holds TLA+ models of the Go program under `src/src` (the YYB Go
gateway), the TLC configurations that check them and TLAPS proofs about them.
`PROJECT.json` lists components, runs, mutants, hazards and findings, and maps
every definition to the lines it models.

## 1. The system

The gateway keeps WeChat accounts that were logged in by scanning a QR code,
fetches `wx.login` codes and other mini-program data for them over WeChat's
mmtls protocol, serves several console users, and manages the cron jobs of a
QingLong or Daidai panel. It is one process: goroutines of HTTP handlers and
two background loops share SQLite tables (one connection, so statements are
serial; the console users may be kept in MySQL, with ten) and a few maps under
mutexes.

| component | state it keeps | operations | interacts with |
|---|---|---|---|
| session pool (`protocol/pool.go`) | mutex per (account, proxy), two semaphores, table `sessions` | GetCode, GetPhoneNumber, OperateWXData, Invalidate | accounts store, WeChat |
| mmtls and codecs (`protocol/mmtls_*.go`, `ilink.go`, `loginbuffer.go`, `shortlink.go`, `newdns.go`, `transport.go`, `bytes.go`) | connection and key state of one exchange, DNS cache | handshake, records, 0-RTT, login packets | pool, QR |
| accounts store (`store/store.go`) | accounts, sessions, jobs, settings | upsert by openid, status, delete with cascade | everything |
| users and sessions (`auth/store.go`, `httpapi/auth.go`, `auth_batch.go`) | users, user_sessions, auth_settings | register, login, change or reset password, disable, delete, batch delete | registration codes, accounts (owner) |
| registration codes (`httpapi/emailverify.go`, `smtp_settings.go`) | codes and send limits in memory | send a code, verify it, change the mail settings | users |
| scan login (`qr/qr.go`, `httpapi/app.go`, `quick_login.go`) | QR sessions and images in memory | create, poll, confirm once, prune | accounts store |
| credentials (`httpapi/app.go` invokeWXApp, `keepalive.go`) | the account row's login buffer, refresh token, status | on-demand and scheduled refresh, re-scan | pool, accounts store |
| panel jobs (`httpapi/runs.go`, `script_scope.go`) | table of jobs, crons of the panel | ensure, sync, enable, heal, delete | accounts store, panel |
| panel (`httpapi/panel*.go`, `qinglong_accounts.go`) | current driver, its token, saved settings, remote variables | configure, detect, authenticate, add or remove an account in `YYB_SERVER` | panel jobs |
| access and tokens (`httpapi/access.go`, `api_token.go`, `security.go`, `fusion.go`, `script_scope.go`) | the API token of the process, the visible script directories | let a request in, say what it may reach, share an account | users, accounts, panel jobs |
| login limiter (`httpapi/auth.go`) | attempts per address and name | allow, record a failure, evict | users |

What is hard here is concurrency between handlers (every handler reads, calls
the network and then writes without a transaction), the mutexes and semaphores
of the pool, limits and one-time tokens kept in memory, and the two tables that
must agree with a panel the program cannot lock.

Not every part is modelled; section 8 says which are not and why.

## 2. Plan

Modules in the order of writing. Each module names the code it translates in
its header; an `MC` module adds bounds and symmetry for TLC and nothing else.

| module | about | state of the work |
|---|---|---|
| `LoginFlight` | abstract: at most one login per key, a limit over all keys, every login ends | done |
| `SessionPool` | the pool; implements `LoginFlight` | done |
| `EmailCode` | codes and send limits | done |
| `UserStore` | users, sessions, roles | done |
| `Accounts` | credentials of one account | done |
| `ScriptJobs` | rows and crons of one script | done |
| `ScanLogin` | QR sessions, poll, one confirmation, pruning of images, quick login | done; ends in the upsert of `Accounts` |
| `Panel` | saved settings, driver and fields in use, `YYB_SERVER` as a remote read-modify-write | done; next: `ScriptJobs` composed with it, for cron ids that outlive a change of panel |
| `MmtlsLogin` | the login and the short link below the pool, from the name service to the last record | done; next: its login as what `SessionPool` calls `LoginSucceeds` and `LoginFails` |
| `Access` | login limiter, API token, middlewares, decisions about accounts and scripts | done |
| `SessionPoolProofs`, `EmailCodeProofs`, `UserStoreProofs`, `AccountsProofs`, `ScriptJobsProofs`, `ScanLoginProofs`, `AccessProofs`, `PanelProofs` | the invariants and action properties of these modules and, with the pool, of `MmtlsLogin` for all constants, and that the pool implements `LoginFlight` | done (section 6) |

Abstract specifications worth stating: `LoginFlight` (done); a table of owners
in which each script has one cron, which `ScriptJobs` would implement if
`ensureUserJob` were serialised; a list of accounts per panel, which `Panel`
implements where calls do not overlap (`ListAsTold` says so as an invariant).

The modules can be proved about: no `RECURSIVE` operator, constants with named
assumptions, one action per store statement, blocking acquisition or network
call, invariants as named conjuncts.

## 3. Modules and code

Common to all: the SQLite pool has one connection, so a statement or a
transaction is one atomic step, and consecutive reads of the tables by one
handler between two other effects are one step. A step ends wherever the code
blocks, locks, unlocks or calls the network. Only the console users may live in
MySQL, where transactions overlap; `UserStore` has both modes. An error of the
database is modelled where something is held or remembered when it comes (a
mutex, a slot, a cron already made), and where the code drops it: `RevokeFails`,
`StoreFails`, `ReadOwner`, `Forget`, `DropProxied`, `DropEmpty`. Elsewhere it only
ends the request, with nothing held. Faulty
variants of an operation stand at the head of each module under a rule of their
own: they are used in no specification, only to show that a property is
sensitive to the code (`mutants` in `PROJECT.json`).

**SessionPool.** Callers are goroutines in `GetCode`, `GetPhoneNumber` or
`OperateWXData`. `Begin` is the entry, `Lookup` the first `GetSession`,
`TakeLock`, `Recheck`, `GetAccount`, `AcquireLogin`, `LoginSucceeds`,
`LoginFails` and `StoreSession` are the lines of `state`, in that order, each
error path with its unlock and release; `AcquireShort`, `SendSucceeds`,
`SendReturnsEmpty`, `SendFails` are the shortlink; `DropProxied` and `DropEmpty`
the two invalidations that precede a fallback and the second run of `GetCode`;
`ContextDone` a cancelled wait. `Expire` and `DeleteAccount` are the
environment. Every statement of the database may fail on the way; the deletions
of the two invalidations fail unnoticed, as the code drops their errors. A session
is the number of the login that made it; `minted` remembers for whom, `emptied`
which one returned an empty code and was then deleted, and both only serve
properties.

**EmailCode.** `Ask` reads the clock, `Reserve`/`Limited` is the first critical
section of `RegisterCode`, `MailSent` and `MailFailed` are the end of the mail
with the second critical section, `Accepted`, `Mismatched`, `Expired` are
`VerifyCode`, `SetSend` the settings form, `Tick` time. Both tables with their
evictions are in `KeptSends`, `StaleSends`, `KeptCodes`, `Overflow`. Where Go
picks the entry to evict by map order, the model picks any. Mails may take any
time up to `MaxSend`, longer than the cooldown, and end in any order. What only
serves properties: `forgotten` counts how often a full table of sends was thrown
away, `era` is that count as a request found it, `late` the requests whose mail
ended a cooldown or more after they began, `taken` those whose reservation
another's roll-back took, and the stage `forfeited` a failed mail whose place was
not given back.

**UserStore.** `Authenticate` and `CreateSession` are the two halves of a login;
`RegistrationAllowed` and `Register` of a registration; `Admit` is the
middleware, which reads the role once; the rest are the handlers that run after
it with the role as read. `DisableUser` is followed by `Revoke`, or by
`RevokeFails` where the error is dropped. A batch deletion is a transaction of
two steps, `BatchCounts` and `BatchCommits`: with SQLite (`serial`) it holds the
one connection between them, with MySQL it has counted from its snapshot while
others commit. The other transactions write before they read, or read nothing,
and are one step in both modes. The epoch of a user counts its
sign-outs; a session carries the epoch of its user as the login read it, and
`excused` marks the two ways a session is known to slip through.

**Accounts.** One WeChat identity. `Scan`, `ReadOwner` and `Upsert` are the end
of a scan with the owner check before it, whose read may fail, and then counts as
having found no owner (`held` remembers whose the account was); `Request`, `GetSession`,
`CallSucceeds`, `CallFails`, `Reread`, `Retry` are `invokeWXApp`; `Tick` starts
a round of the keepalive loop; `Lock` ... `StoreFails` are `refreshAccount`
under `refreshMu`: read again, present the refresh token, fetch the login
buffer, store, or store the status of a failure. `issued` is what WeChat has
issued, in order, with age and whether it was spent or stored; the service is
external. `Restart` drops everything but the table.

**ScriptJobs.** One script. `Begin` and `ReadCatalog` are the head of every
handler; `Ensure`, `Update`, `Forget`, `Create`, `Quiet`, `Record`, `Reread` are
`ensureUserJob` and `ensureAccountJob`, down to the row that is written and then
read again; `SwitchOn` the end of enabling; `Heal`,
`Anchor`, `SwitchOn`, `StopOld` are `healLegacyOwnerJobs`, `Sync` then
`syncUserJobs`, both part of listing the jobs; `Disable`/`SwitchOff` and
`BeginDelete`/`Drop`/`Delete` the other two handlers; `Move` is somebody else's
scan of the account; `PanelDelete` somebody at work on the panel; `Fails` the
failure of a call of the panel or of a statement whose error is returned; that of
`Forget` is dropped. The key of a cron (whose it is) is its name and log
name, the scope its `WECHAT_OPENIDS`. Owner 0 (no owner) is an owner like
others. `owners` and `undone` only serve properties.

**ScanLogin.** `NewScan` is `handleQRRoot` in its steps: `PruneQR` (the map,
under the lock) and `RemovePruned` (the files, without it), the image fetched,
`AddSession` with the keep list, `WriteImage`, `ListImages` and `RemoveListed`.
`Find` is the look-up at the head of a poll or a confirmation; `LockToPoll`,
`Answer`, `PollFails` are `PollQRCode`, held over the long poll, and
`PollAnswered` what the handler does after it has given the mutex up;
`LockToConfirm`, `Callback`, `GotBuffer`, `ExchangeFails` are `GetLoginBuffer`;
`StoreFromScan` and `StoreFails` the upsert; `DropQRSession` and `RemoveImage`
the end. `QuickLogin`, `TakeQuickSession` and `Expire` are the sessions of the
desktop program. `Phone` is what somebody does with the code; WeChat takes a
code once (`spent`). `early` remembers that a poll was answered before the
session had its code.

**Panel.** `Configure`, `Tested`, `Persist`, `Reconfigure` and `Clear` are
`handleQingLongConfig`: the new driver is tried, the keys are saved one by one
in the order of a Go map, the manager is changed. `Status`, `TryOtherType` and
`UseOtherType` are `status`, which gives the lock up to try the other type.
`Sync`, `Upsert` and `WriteServers` are `syncAccountToQingLong` on both types of
panel; `Cleanup`, `RemoveEntry`, `DeleteCrons`, `CleanupFails`, `Undo` and
`UndoEnds` are `cleanupAccountFromQingLong` with its roll-back; `Fails` is a
request that is refused or whose answer is lost, after it was carried out or
not. `Restart` makes the manager from the saved keys; `settings` are the saved ones
or, for what was never saved, those of the environment, which stays what it is.
`told`, `torn` and
`shared` only serve properties: what the callers were told last, whether a save
stopped half-way, whether two calls that can disturb each other have overlapped.
Panels start with any list (`Lists`): no variable, one, or several of the same
name, with any lines; a Daidai panel has one at most.

**MmtlsLogin.** One login and one envelope, cryptography symbolic: a key is the
term it was derived from, and a record opens only with the key and the number it
was sealed with. `ResolveCached`, `ResolveAnswered`, `ResolveFails` are
`getDNSParsed`; `OrderLonglinkTargets` and `ShortlinkTargets` the lists of
targets; `Dial` and `DialFails` the direct and the proxied connection with the
fallback; `SendClientHello`, `RecvServerHello`, `RecvFlight` and
`SendClientFinished` the handshake with its transcript hashes and record
numbers; `SendManualAuth`, `RecvManualAuth` and `AttemptFails` the login and the
way to the next target; `SendEnvelope`, `SendTo`, `Heard`, `TargetFails` and
`SendGivesUp` the short link with early data. The other end (`ServerTakes`,
`AcceptHello`, `AcceptFinished`, `AnswerManualAuth`, `Execute`, ...) and the
network (`Break`, `AlterHello`, `LoseAnswer`) are external. `cause` remembers
that the attempt has met a fault, `executed` and `unheard` how often WeChat
carried the envelope out and how often the answer did not arrive. Its
specification is `LinkSpec` and its session `wmpf`, as its proofs share a module
with those of the pool.

**Access.** A request logs in (`AllowLogin`, `WrongPassword` or `RightPassword`,
`RecordLoginFailure` or `ClearLoginFailures`, `CreateSession`: three critical
sections of the limiter and the database around the check of the password), or
passes `RequireAPIToken` or `RequireBrowserSession` (with `requireAdminSession`
for the settings), is given its accounts (`ResolveAccount`, `ListAccounts`) and
script and works on them (`Operate`). A script is enabled or run after
`ResolveVisibleScript`, disabled or read the log of after `ResolveScriptJob`, which
asks only whether `jobs` has one for the owner (or, for the log, the account); the
list of jobs may make one for the owner of any script an account of the owner has
a job of (`Healed`). The decisions of
`access.go`, `fusion.go` and `script_scope.go` are operators with their names.
`ResolveAPIToken` is the token of a start, `Restart` the next one with another
configuration. `Claim`, `SetRole`, `SignOut`, `HandleScriptVisibility` and
`EditSetting` change what a decision went by while a request is on its way;
`moved` remembers that. `attempts` is the map of counters, each with its
failures, the time it was started (`clock` counts those) and whether its window
is over, which comes in the order of the starts (`WindowEnds`); `guesses` counts
the wrong passwords checked for a key while its counter is remembered, and
`Restart` forgets the counters and the guesses with them. Passwords, names and
headers are left out, a path is the sequence of its parts.

## 4. Runs

| run | instance | shows |
|---|---|---|
| `pool_safety` | 2 callers, 1 account that may be deleted, direct and one proxy, 2 login slots, 1 shortlink slot, 3 logins | single flight, slot accounting, no session of the wrong key or of a deleted account, retry after an empty code |
| `pool_live` | 2 callers, 1 login slot, 1 login | every request returns, and the pool implements `LoginFlight` with its liveness |
| `email_safety` | 4 sends, 2 addresses, tables of one entry, cooldown 2, window 5, limit 2, mails of up to 3 ticks, 6 ticks | by which ways alone a limit is lost or an older code counts; single use, bounded tables |
| `email_slow` | 3 sends, 1 address, the same times | finding: a slow failing mail gives away the cooldown of the next |
| `users_safety` | 2 requests, 3 users, 2 sessions, 1 sign-out, SQLite and MySQL | which sessions survive, who founds, how administrators are lost |
| `accounts_safety` | 2 requests and the loop, 2 users of whom one is administrator, 3 credentials, 2 rows | no replay of a refresh token, fresh second call, in which ways alone an account is taken over |
| `accounts_live` | 1 request and the loop, 2 credentials that may expire, 1 restart | what is due is presented, who waits is answered |
| `jobs_safety` | 2 requests, 2 accounts, 2 owners, 2 crons | rows name their own cron, crons run own accounts, healing leaves a gap only when an account has moved |
| `scan_safety` | 2 requests, 2 QR sessions, 1 quick session, 1 restart | a code is exchanged once, an authorised session or an image is lost to the named races only |
| `panel_safety` | 2 calls, a QingLong and a Daidai panel, 1 account and a line of others, 2 variables per panel, any lists that `Bounds` lets in to begin with, 1 restart | the list says what callers were told, what is saved is used, stale drivers come from `status` only |
| `link_safety` | 1 login, 2 targets, 3 answers of the name service, 4 flights of the server | both ends agree, a failure has a cause outside, an envelope is repeated only unheard, a proxied session stays proxied |
| `access_safety` | 2 requests, 2 users, 2 addresses, 2 accounts, 4 configurations, limits 2, tables of 3 counters, 2 scripts of which one is hidden | guesses per key, and what a request reaches by which credentials and route |

Why the bounds are enough. Every property is about at most two parties at the
same key, address, user, account, cron, session or variable, and each instance
has two requests (or a request and the loop) in every pair of stages, on top of
one earlier history: the second login after an invalidation (3 logins), the send
that follows a rolled-back one, and the same after a full table was thrown away
(4 sends), the administrator who acts on another
who acts on a third (3 users), the credentials a scan brings while others are
being renewed (3), an account deleted and scanned again (2 rows), a job made anew
after its cron has gone (2 crons), a scan that overlaps the clean-up of an
earlier one (2 QR sessions), a duplicate variable on a panel (2 variables), a
target after the one that failed (2 targets). Tables of one entry, and of three
counters under four keys, make the evictions happen.

Some runs leave out combinations by a constraint, each in its `MC` module with
its reason. `OneLeft` (`email_safety`): all four sends are made only within the
first ticks, later ones leave one unused. `OneSignedOut` (`users_safety`): one
user has been signed out, since what outlives that concerns one user and its
sessions. `FewCredentials` (`accounts_safety`): no credentials pass their
expiry, which `accounts_live` lets them, one at a time is due, and the third
credentials and the second row are not both used. `FewChanges` (`jobs_safety`):
both accounts begin with one user; one of them changes hands, or one is deleted
and one cron vanishes, with it or alone; one of the two requests at a time lists
the jobs, as both would heal and synchronise alike, and once an account has
moved or gone the two requests are not both enabling or both running a job.
`OneStory` (`scan_safety`): one session grows old, and the phone is used on the
first code. `Bounds` (`panel_safety`): calls that have overlapped are followed
where they share something (a save and a status, or two calls on `YYB_SERVER` of
one panel), accounts are put on one panel only. The scenes of `access_safety`
(`Scenes`) are attempts alone, a login before a call, and two calls with one
change under them, on tables that differ in owners, sharing, liveness and age of
two accounts. Symmetry is used in safety runs only and over sets whose members
the modules do not tell apart. The view of `panel_safety` leaves out `told` and
`torn` once calls have overlapped, when no property reads them any more.

`CHECK_DEADLOCK FALSE` stands in all runs but those of `SessionPool` and
`EmailCode`: once the ids, credentials, crons, sessions, logins or calls of the
instance are used up and the requests answered, the gateway rests.

## 5. Fairness

`SessionPool` (`FairSpec`): a goroutine that can run does, and a network call
ends, at the latest by `LoginTimeout` or `ShortlinkTimeout`: weak fairness of
its own steps. Waits for a mutex, a login slot or a shortlink slot get strong
fairness: a `sync.Mutex` hands over in arrival order once a waiter starves, and
a channel serves blocked senders in order. Nothing is assumed about new
requests, expiry or deletion.

`Accounts`: the ticker of the keepalive loop fires, calls of the login service
end (the HTTP client has a timeout), and `refreshMu` is a `sync.Mutex`, hence
strong fairness of `Lock`. Nothing is assumed of scans, requests, restarts or
the age of credentials. The other modules state safety only: what may wait in
them waits for a mutex that is held over a call with a timeout (`qr.go:153`), or
not at all.

## 6. Proofs

The eight `*Proofs` modules prove, for every value of the constants, the
following invariants and action properties that the runs check on an instance,
from the named assumption of each module. `CodeSingleUse` is a part of
`CodesCountOnce`, which needs more.

| module | theorems | properties |
|---|---|---|
| `SessionPoolProofs` | `TypeCorrect`, `OneLogin`, `Slots`, `NoOrphans`, `NoOverwrite`, `RightSession`, `Refinement` | `TypeOK`, `OneLoginPerKey`, `SlotsAccounted`, `NoOrphanSession`, `NoLiveSessionOverwritten`, `SendsRightSession`, and `LoginFlight` implemented, but for its fairness |
| `SessionPoolProofs`, about `MmtlsLogin` | `LinkTyping`, `KeysAgree`, `NotRepeated`, `Caused` | `LinkTypeOK`, `SessionKept`, `RepeatedOnlyUnheard`, `FailureHasCause` |
| `EmailCodeProofs` | `Typing`, `SingleUse`, `SendLimits`, `CodesCount` | `TypeOK`, `CodeSingleUse`, `SendLimitsKept`, `CodesCountOnce` |
| `UserStoreProofs` | `Typing`, `Founding`, `Survivors`, `Administrators` | `TypeOK`, `OneFounder`, `OnlyRacesSurvive`, `AdminKept` |
| `AccountsProofs` | `Typing`, `NeverReplayed`, `RetryRenewed`, `SeizedUnseen` | `TypeOK`, `NoReplay`, `RetryUsesRenewed`, `SeizedOnlyUnseen` |
| `ScriptJobsProofs` | `Typing`, `OwnCron`, `Isolation`, `GapByMove` | `TypeOK`, `RecordsOwnCron`, `Isolated`, `GapOnlyByMove` |
| `ScanLoginProofs` | `Typing`, `OneLoginEach`, `Kept`, `Images` | `TypeOK`, `OneLogin`, `AuthorizedKept`, `ImageLostToOlderScan` |
| `AccessProofs` | `Typing`, `Guesses`, `Reached` | `TypeOK`, `GuessesLimited`, `ReachOnlyAsGranted` |
| `PanelProofs` | `Typing`, `ListTold`, `Saved`, `StaleDriver` | `TypeOK`, `ListAsTold`, `SavedIsUsed`, `StaleDriverOnlyByStatus` |

What is assumed of the constants is that sets of requests are finite where
something is counted, that markers such as `NoCaller` are no callers, that limits
are positive numbers, and three things that say more:

* `MmtlsLoginAssumption`: an answer of the name service has finitely many addresses
  and ports, a ticket message finitely many tickets, and the flight of a server is a
  sequence without its Finished, which comes behind it. Flights may be of any length
  and repeat, omit or reorder messages; tickets may be of any types.
* `AccessAssumption` wants room for two counters, as a failure makes two.
* `MaxTime`, `MaxCrons` and their like, which bound an instance for TLC, are
  arbitrary numbers to the proofs.

No property is inductive as it stands. What each proof had to find is this.

**SessionPool.** `TypeOK` is not inductive, since a second empty code would start
a third run; `RoundInv` says that `DropEmpty` is reached in the first run only.
For locks, rows and slots the inductive invariant is

    IInv == TypeOK /\ RoundInv /\ LockInv /\ BuildInv /\ NoOrphanSession /\ SlotsAccounted

`LockInv`: a caller between `TakeLock` and its unlock holds the mutex of its
key, so two callers that build for one key are one (`LockedApart`), whence
`OneLoginPerKey`. `BuildInv`: from the second look-up to the store the key has
no session; it is what makes the mutex mean something, it needs `LockInv` (only
the holder stores), and it gives `NoOverwrite`. `NoOrphanSession` rests on the
foreign key that `StoreSession` meets and the cascade of `DeleteAccount`.
`SlotsAccounted` counts callers: `SlotCounts` says how the cardinality of the
callers in a section changes when one of them moves. The lemma `StepEffects`
says once what each action can do to locks, rows and slots.

What is in a caller's hand is a second invariant, `HInv`. `MintInv`: rows and
hands have sessions made for their key. `FreshInv`: a session that is not stored
yet is in one hand and nowhere else, so that the one a caller has seen answer
empty cannot come back to the table through somebody's `StoreSession`.
`RebuildInv`: once it has been deleted, neither the row nor the hand of a second
run has it (a deletion that failed leaves it, and `emptied` says so). `HandEffects`
sums the actions up in nine ways a hand can change.

`Refinement` maps a pool to the keys with a session and the keys with a login
under way. A step departs (`DepartStep`), arrives (`ArriveStep`) or leaves the
flights alone (`OtherFlightStep`). That there are no more keys in flight than
the limit is the surjection from callers in flight to their keys, with
`SlotsAccounted` (`FlightBounded`).

**MmtlsLogin.** `LinkInv` has eight parts. `Shaped` is what the records are made of.
`Counted` numbers the connections: those of earlier logins, those of this one and
the targets left are never more than the numbers there are, which is why a
connection finds its own entry in `issued`. `Quiet` says that between connections
nothing is left of the last one. The two that carry `KeysAgree` must survive a
network that alters hellos: `ServerHonest` says what WeChat may have sent, whatever
it was told (only its hello is plain, and with the key of the application only the
answer to the login), and `ClientHonest` that a kept hash of CertVerify is that of
the transcript up to the last one (`CertifiedAppend`: a message moves it exactly if it
is a CertVerify). An answer to the login that opens was sealed with the key the client
derived, so secret and final transcript of both ends are the same, hence also the hash
and with it the ticket; altered hellos never come that far.
`Agreed` says more, of undisturbed connections only: what is under way is due. Either
nothing has been answered, or the rest of WeChat's flight is on the wire in the order
and under the numbers the client expects while its transcript is a prefix of
WeChat's (`FlightDue`), or the two Finished, the login and its answer are where they
belong (`Shook`). An arrived record is therefore one the client goes on with
(`FlightExpected`, `AnswerExpected`), which is `FailureHasCause`. `Awaited` counts
executions against answers unheard while an envelope is under way. The parts were
checked by TLC on the instance of `link_safety` before they were proved; there is one lemma for each
action, and one for each kind of assignment to a record (`ReqMoved`, `ClientHeard`, ...).

**EmailCode.** `Stored`: a stored code goes with a request that has been sent to
its address, is unused and remembers its attempts; `SingleUse` and the sizes of the
tables follow. The other two theorems need `Limits`, which assumes nothing of how
long mails take. `Spaced`: places of one address and era are a cooldown apart, or
the reservation of the earlier was taken. `Rested`: a place is older than a
cooldown, or taken, or the record knows of it. `Held`: while a mail is being sent
the record is that of its request, for a cooldown and unless taken, so what a
roll-back takes that is not its own it takes late. `Shown`: a record that was not
rolled back shows the last place of its window. The count of a record against the
places of its window (`QuotaCounts`) and the order of the codes
(`OlderCodeOnlyLate`) go along in the induction, as they are about the same steps.

**UserStore.** `OneFounder` needs `TypeOK` only, with `RowsKeep` over all actions;
the one statement of `Register` is what counts. In `OnlyRacesSurvive` every session
is accounted for (`Accounted`): as old as its user, about to be revoked, or
excused. `AdminKept` needs `BatchesCount`: a batch that has counted spares its
caller, and with SQLite it is the only one and its caller is an administrator
still (`Alone`), since nobody else writes; with MySQL that is what may have
changed, and the property names it.

**Accounts.** `IInv` says what a caller that has the mutex knows from `Lock` to the
end of its refresh (`CallOK`): nothing renewed from the token it presents has
reached the database (`Unreplaced`); the same is true of the row (`RowOK`).
New credentials are one caller's only (`Apart`), and all are renewed from stored
ones (`ChainOK`), which is why a store invalidates nobody else's knowledge.
`SeizedOnlyUnseen` follows from what `claiming` remembers of the look before it.

**ScriptJobs.** `OK` says what a request knows of the job in hand, from catalogs that
may be old: ids are never given twice and a cron keeps its key, so an id found
under a key goes with that key or with nothing (`RecordsOwnCron` of the
tables, the same of the request). `MayRun` bounds the accounts a job of a user runs
from both sides, by those the user has ever owned and by those that were never
anybody else's; it rests on `owners`, which only grows, and holds of every cron
(`Fitting`), whence both `Isolated` and the accounts that `GapOnlyByMove` says are
run. That the user healed and the one who gets the job have both owned the account
read again is in `OK`. `Apart` is about a cron created and still to be
switched off: no row and no other request has it, hence none is running it
and the crons `StopOld` stops are others.

**ScanLogin.** `CallOK` per stage; `Core` is the types with `MutexOK`, that a session
whose mutex is held is in its holder's hands. `WonOnce` says where it is remembered that a code has
been turned into a login buffer: in the session, or by the quick session being
taken away; `SoleExchange` that no two requests are exchanging one code. What
other requests rely on is one relation, `Respects(c)`, that every step of `c` has.

**Access.** `Guessed` has two halves. The wrong passwords of a key are at most the
failures counted and those still to be counted (`Uncounted`); and failures and
attempts under way together stay below the limit plus the number of requests,
since each attempt under way was let through while the counter was below the limit.
The counter of an address is made after that of the user and may evict any but it,
as there is always an older one (`OldestIs`, with the well-founded order of the
library). `Reach` is the other invariant: while nothing has changed under a
request (`Sound`), the user the middleware gave it stands for its credentials
(`Known`), and the accounts and the script chosen are the request's own (`Chose`),
which includes that the owner the handler has read is that of its account and that
a script reached without its directory has a job (`Anchored`); jobs are only ever
added (`JobsMore`).

**Panel.** `Apart`: unless calls have overlapped, at most one of those that share
something is under way. `Steady`: the driver in use goes with the fields, and so
does the one `status` is about to put in use. `SavedSoFar`: what is saved is what is
in use, and during a save the keys saved so far are those of the new
configuration. `Listed` is the long one: what the variables of a panel say is
what was told, except for the account that is being removed; and what a call has
read is still there, but for the variables it has changed itself (`Merges`,
`Writes`, `Cleans`, `Removes`, `Undoes`). That a roll-back ends where the deletion
began follows from `Cleans` and `Undoes` together. It holds from any list of
variables, which is why the module starts from any.

Model-checked only: the liveness properties (`CallReturns`, those of
`accounts_live`, and the fairness of `LoginFlight`), as fairness and `ENABLED` are
out of the prover's reach. Every invariant and action property of the runs that
pass is proved. No module defines a recursive operator, and no statement here
needs induction over data.

## 7. What the checks found

`email_slow` ends in a counterexample, a place where the code does other than its
comments say; `findings` in `PROJECT.json` quotes both sides: the guard of
`rollbackSendLocked` compares the wrong way, so a send that outlasts the cooldown
and fails removes the reservation of the request after it
(`httpapi/emailverify.go:279`).

The other properties hold, some with an exception that is named in them or beside
them; without the exception TLC finds the counterexample described here.

1. `RetryRebuildsSession` speaks of a second run over the proxy asked for only:
   after a fallback `GetCode` has invalidated the session of the proxy alone and
   may send with the direct one that has just answered with an empty code
   (`protocol/pool.go:108`; CHANGELOG.md of `src/src`, line 84, has it otherwise). It
   also excepts a deletion of that session that failed, whose error is dropped.
2. `OnlyRacesSurvive` excuses a login that has checked the password before a
   reset and inserts its session after it (`httpapi/auth.go:124`), and a disabling
   whose `DELETE` fails (`auth/store.go:475`); README.md of `src/src`, line 84,
   says that all sessions go.
3. `RecordsOwnCron` is about the cron that is remembered: two requests create one
   each, and the other stays on the panel unrecorded (`httpapi/runs.go:1336`),
   against the comment of the table (`store/store.go:73`).
4. `AuthorizedKept` excepts a poll that WeChat had answered with an error before
   another poll got the code: it drops the session (`httpapi/app.go:483`).
5. `ImageLostToOlderScan`: the clean-up of an earlier scan removes the image of a
   later one (`httpapi/app.go:1100`).
6. `StaleDriverOnlyByStatus`: `status` puts a driver for the old address beside
   the new fields when a configuration was put in use meanwhile
   (`httpapi/panel_manager.go:119`); `ListAsTold` is about calls that do not
   overlap, as two that do lose a line of `YYB_SERVER`
   (`httpapi/qinglong_accounts.go:215`); `SavedIsUsed` excepts a save that stopped
   half-way (`httpapi/qinglong_accounts.go:159`).
7. `SeizedOnlyUnseen`: an administrator's scan takes over the account of another
   user, against "已有归属是别人的账号不夺走" (`httpapi/access.go:194`), in two ways: the
   user came to own it between the check and the upsert, or the read of the
   check failed, whose error is dropped (`httpapi/access.go:203`), and the account
   counted as nobody's.
8. `AdminKept`: two administrators can lock each other out at once, each by the
   role the middleware had read; and the check that a batch deletion leaves an
   administrator (`auth/store.go:617`) counts a snapshot in MySQL, so that two
   batches, or a batch and a demotion of its caller, can leave none together.
   With SQLite a batch always leaves one.
9. `SendLimitsKept` says by which ways alone a limit of an address is lost between
   two resets of a full table: a mail fails that outlasted the cooldown, or that was
   reserved before the reset, and its roll-back finds the record of a later request
   and takes it for its own (`httpapi/emailverify.go:279`). The same mails leave a
   place taken that should have been given back (`ForfeitedOnlyLate`).
10. `CodesCountOnce`: an older mail that ends after a newer one stores its code over
   the newer one's (`httpapi/emailverify.go:176`), so the mail the user has last
   asked for is refused. It takes a mail that outlasts the cooldown, or one whose
   reservation was taken.
11. `GapOnlyByMove`: healing makes one job for the owner of an account that it reads
   again, and then stops the old jobs. When that account has changed hands in
   between, the job is another user's, and the accounts whose jobs are stopped may be
   run by none, against the comment that leaves no gap (`httpapi/runs.go:1429`).
12. `ReachOnlyAsGranted` excepts the routes that do not ask whether a script is
   visible. The comment says that a restricted user cannot see the scripts outside the
   list, nor put them on an account (`httpapi/script_scope.go:18`); but one who has a
   job of such a script may read its log (`httpapi/runs.go:364`) and disable it
   (`runs.go:257`), and listing the jobs turns an enabled account job of it into an
   enabled job of the user (`runs.go:137`).
13. `GuessesLimited` adds the requests under way to the limit of a counter, and
   begins anew when a counter is forgotten (`httpapi/auth.go:628`), by eviction,
   by success or by a restart while a wrong password is not counted yet. With a
   table of one counter the address would evict the user it was counted with,
   and nothing would be limited; the code has room for 4096.
14. `ReachOnlyAsGranted` also excuses a list of script directories that was written into
   the database by hand as plain text. `parseScriptDirAllowlist` is meant to read
   it (comment at `httpapi/script_scope.go:59`), but `items` is never nil, so such a
   list is empty, and an empty list restricts nobody (`script_scope.go:75`).

Seen while modelling, and left without a property: an early refresh that fails
writes back the status it had read, over the one a scan has stored
(`httpapi/keepalive.go:103`), and the profile likewise (`keepalive.go:70`); the
hourly limit of mails is of a window fixed at its first mail, so nearly twice as
many can fall within an hour; a code is used up before a registration that then
fails; `InvalidateSession` deletes by key, so the session another caller has just
stored may go, at the price of a login (`pool.go:157`), and the login buffer a
login uses is the one read before it waited for its slot (`pool.go:191`);
`ChangePassword` compares outside its transaction (`auth/store.go:416`); a useless
answer of the name service is cached like any other, and the login fails until it
is over although an address is built in (`newdns.go:124`); a generated API token
that cannot be saved changes at the next start (`security.go:46`).

## 8. Not modelled

* Byte layouts, ciphers, parsing of packets and pages (`bytes.go` and the codecs
  of `ilink.go`, `mmtls_*.go`): `MmtlsLogin` has their results as terms.
* The OAuth page and its client (`oauth/`, `httpapi/oauth.go`) and the SMTP
  dialogue (`emailtls.go`): a sequence of calls of one request without shared
  state, a step that may fail where another module needs it.
* The panel's access token and its cache (`panel_qinglong.go:54`): kept until its
  expiry, so a token the panel has dropped shows as refused requests, which
  `Fails` has. Script and log listings, push settings, schedules.
* The bypass of `/login` for the console, the parsing of headers and references,
  remarks and profile data, names and their formatting: no property of the
  modelled parts depends on them.
* Rows of accounts without credentials (`keepalive.go:84`), which no scan makes; a
  refresh answers them with the status `unknown`. The lifetime of session tickets
  (`mmtls_client.go:297`) beyond their type. The environment behind the panel's
  settings, which is that of the process.
* The commands of jobs of hidden scripts that the list of jobs and the push settings
  bring up to date (`runs.go:145`, `runs.go:1044`): `Access` has the jobs, not what
  they run.
* MySQL for the console users beyond transactions that overlap: its deadlocks and
  lock waits end a request that has changed nothing.
* Start-up, embedded pages, the API document: no state that changes later.
* Expiry of console sessions: a comparison with the clock at each use, the same
  as a sign-out to `UserStore` and `Access`.
