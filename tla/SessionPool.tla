---------------------------- MODULE SessionPool ----------------------------
(***************************************************************************)
(* The protocol session pool (internal/protocol/pool.go) together with the *)
(* `sessions' table it caches its logins in (internal/store/store.go).     *)
(*                                                                         *)
(* Every HTTP request that needs WeChat runs GetCode, GetPhoneNumber or    *)
(* OperateWXData in a goroutine of its own: here a caller.  A caller looks *)
(* a session up by (account, proxy); on a miss it takes the mutex of that  *)
(* pair, looks again, takes one of the login slots, logs in over mmtls and *)
(* stores the session.  It then takes a shortlink slot and sends.  When    *)
(* the proxied attempt fails it may fall back to a direct connection, and  *)
(* GetCode rebuilds the session once when WeChat answers an empty code.    *)
(*                                                                         *)
(* A step is one database statement, one blocking acquisition or one       *)
(* network exchange.  Packets, keys and addresses are left out: a session  *)
(* is the number of the login that made it, and 0 is the absence of a row. *)
(***************************************************************************)
EXTENDS Naturals, FiniteSets, Sequences

CONSTANTS Callers,         \* concurrent requests
          Accounts,        \* rows of wechat_accounts; AUTOINCREMENT ids are never reused
          Proxies,         \* proxies a session may be keyed by, Direct among them
          Direct,          \* the empty proxy string
          NoCaller,        \* owner of a mutex nobody holds
          MaxLogin,        \* Config.MaxLoginConcurrency
          MaxShort,        \* Config.MaxShortlinkConcurrency
          FallbackDirect,  \* Config.TCPProxyFallbackDirect
          MaxSession       \* bound: logins that may succeed in a behaviour

ASSUME PoolAssumption ==
    /\ IsFiniteSet(Callers)
    /\ NoCaller \notin Callers
    /\ Direct \in Proxies
    /\ MaxLogin \in Nat \ {0}
    /\ MaxShort \in Nat \ {0}
    /\ FallbackDirect \in BOOLEAN
    /\ MaxSession \in Nat

VARIABLES accounts,   \* accounts that still have their row
          session,    \* session[k]: the unexpired row of table sessions, or 0
          minted,     \* minted[s]: the account and proxy login s was made for
          lock,       \* lock[k]: who holds the mutex lockFor hands out for k
          loginSem,   \* tokens in the channel p.loginSem
          shortSem,   \* tokens in the channel p.shortlinkSem
          pc,         \* what each caller does next
          acct,       \* account of the caller's request
          proxy,      \* its effective proxy
          via,        \* proxy of the attempt under way: proxy[c], or Direct after falling back
          codeCall,   \* the request is GetCode, which retries an empty code
          round,      \* which of GetCode's two runs is under way
          held,       \* session the caller works with
          emptied,    \* session that answered GetCode with an empty code, or 0 (also when
                      \* its row could not be deleted)
          outcome     \* what the caller's last request returned

store == <<accounts, session, minted>>
request == <<acct, proxy, codeCall>>
vars == <<accounts, session, minted, lock, loginSem, shortSem, pc, acct, proxy,
          via, codeCall, round, held, emptied, outcome>>

Keys == Accounts \X Proxies

Labels == {"idle", "lookup", "wantLock", "recheck", "getAccount", "wantLogin",
           "login", "store", "wantShort", "send", "dropProxied", "dropEmpty"}

\* Between lock.Lock() and the deferred lock.Unlock() of state.
Locked == {"recheck", "getAccount", "wantLogin", "login", "store"}

\* Between acquire and the deferred release of a login slot.
LoggingIn == {"login", "store"}

Outcomes == {"none", "ok", "empty", "error"}

Key(c) == <<acct[c], via[c]>>

----------------------------------------------------------------------------
(* Resources, and how a call goes on or ends. *)

Goto(c, l) == pc' = [pc EXCEPT ![c] = l]

\* release: a select with a default, so an empty channel stays empty.
Released(sem) == IF sem > 0 THEN sem - 1 ELSE sem

Unlock(c) == lock' = [lock EXCEPT ![Key(c)] = NoCaller]

\* The call returns o to its HTTP handler.
Return(c, o) ==
    /\ Goto(c, "idle")
    /\ outcome' = [outcome EXCEPT ![c] = o]
    /\ held' = [held EXCEPT ![c] = 0]
    /\ emptied' = [emptied EXCEPT ![c] = 0]
    /\ UNCHANGED <<via, round>>

CanFallBack(c) == via[c] # Direct /\ FallbackDirect

\* run: the direct attempt that follows a failed proxied one.
FallBack(c) ==
    /\ via' = [via EXCEPT ![c] = Direct]
    /\ held' = [held EXCEPT ![c] = 0]
    /\ Goto(c, "lookup")
    /\ UNCHANGED <<round, emptied, outcome>>

\* run, when state returned an error.
StateFailed(c) ==
    \/ CanFallBack(c) /\ FallBack(c)
    \/ ~CanFallBack(c) /\ Return(c, "error")

\* run, when the operation itself returned an error.
OpFailed(c) ==
    \/ /\ CanFallBack(c)
       /\ Goto(c, "dropProxied")
       /\ UNCHANGED <<via, round, held, emptied, outcome>>
    \/ ~CanFallBack(c) /\ Return(c, "error")

\* state returned session s: on to the operation.
UseSession(c, s) ==
    /\ held' = [held EXCEPT ![c] = s]
    /\ Goto(c, "wantShort")
    /\ UNCHANGED <<via, round, emptied, outcome>>
----------------------------------------------------------------------------
(* Faulty variants of the steps below, one per property: each is a slip the *)
(* code could have, and TLC must find the property violated with it.        *)

\* GetCode retrying an empty code without counting.
SendReturnsEmptyUncounted(c) ==
    /\ pc[c] = "send" /\ codeCall[c]
    /\ shortSem' = Released(shortSem)
    /\ emptied' = [emptied EXCEPT ![c] = held[c]]
    /\ Goto(c, "dropEmpty")
    /\ UNCHANGED <<store, lock, loginSem, request, via, round, held, outcome>>

\* lockFor handing out a new mutex each time.
TakeLockOfItsOwn(c) ==
    /\ pc[c] = "wantLock"
    /\ lock' = [lock EXCEPT ![Key(c)] = c]
    /\ Goto(c, "recheck")
    /\ UNCHANGED <<store, loginSem, shortSem, request, via, round, held, emptied, outcome>>

\* No second look-up under the mutex.
RecheckNothing(c) ==
    /\ pc[c] = "recheck"
    /\ Goto(c, "getAccount")
    /\ UNCHANGED <<store, lock, loginSem, shortSem, request, via, round, held, emptied, outcome>>

\* acquire without the capacity of the channel.
AcquireLoginUnbounded(c) ==
    /\ pc[c] = "wantLogin"
    /\ loginSem' = loginSem + 1
    /\ Goto(c, "login")
    /\ UNCHANGED <<store, lock, shortSem, request, via, round, held, emptied, outcome>>

\* An error return that forgets the login slot.
LoginFailsKeepingSlot(c) ==
    /\ pc[c] = "login"
    /\ Unlock(c)
    /\ StateFailed(c)
    /\ UNCHANGED <<store, loginSem, shortSem, request>>

\* An error return that forgets the mutex.
LoginFailsKeepingLock(c) ==
    /\ pc[c] = "login"
    /\ loginSem' = Released(loginSem)
    /\ StateFailed(c)
    /\ UNCHANGED <<store, lock, shortSem, request>>

\* A sessions table without its foreign key.
StoreSessionUnchecked(c) ==
    /\ pc[c] = "store"
    /\ session' = [session EXCEPT ![Key(c)] = held[c]]
    /\ UseSession(c, held[c])
    /\ loginSem' = Released(loginSem)
    /\ Unlock(c)
    /\ UNCHANGED <<accounts, minted, shortSem, request>>

\* The second run of GetCode without Invalidate.
DropEmptyKeepingRow(c) ==
    /\ pc[c] = "dropEmpty"
    /\ via' = [via EXCEPT ![c] = proxy[c]]
    /\ round' = [round EXCEPT ![c] = round[c] + 1]
    /\ held' = [held EXCEPT ![c] = 0]
    /\ Goto(c, "lookup")
    /\ UNCHANGED <<store, lock, loginSem, shortSem, request, emptied, outcome>>
----------------------------------------------------------------------------
Init ==
    /\ accounts = Accounts
    /\ session = [k \in Keys |-> 0]
    /\ minted = <<>>
    /\ lock = [k \in Keys |-> NoCaller]
    /\ loginSem = 0
    /\ shortSem = 0
    /\ pc = [c \in Callers |-> "idle"]
    /\ acct \in [Callers -> Accounts]
    /\ proxy = [c \in Callers |-> Direct]
    /\ via = [c \in Callers |-> Direct]
    /\ codeCall = [c \in Callers |-> FALSE]
    /\ round = [c \in Callers |-> 1]
    /\ held = [c \in Callers |-> 0]
    /\ emptied = [c \in Callers |-> 0]
    /\ outcome = [c \in Callers |-> "none"]

\* A handler calls the pool for account a and effective proxy p.
Begin(c, a, p, code) ==
    /\ pc[c] = "idle"
    /\ Goto(c, "lookup")
    /\ acct' = [acct EXCEPT ![c] = a]
    /\ proxy' = [proxy EXCEPT ![c] = p]
    /\ via' = [via EXCEPT ![c] = p]
    /\ codeCall' = [codeCall EXCEPT ![c] = code]
    /\ round' = [round EXCEPT ![c] = 1]
    /\ outcome' = [outcome EXCEPT ![c] = "none"]
    /\ UNCHANGED <<store, lock, loginSem, shortSem, held, emptied>>

\* state: the look-up without the mutex.  A row that cannot be read ends it.
Lookup(c) ==
    /\ pc[c] = "lookup"
    /\ \/ session[Key(c)] # 0 /\ UseSession(c, session[Key(c)])
       \/ /\ session[Key(c)] = 0
          /\ Goto(c, "wantLock")
          /\ UNCHANGED <<via, round, held, emptied, outcome>>
       \/ StateFailed(c)
    /\ UNCHANGED <<store, lock, loginSem, shortSem, request>>

\* lockFor(...).Lock().  It does not watch the context.
TakeLock(c) ==
    /\ pc[c] = "wantLock"
    /\ lock[Key(c)] = NoCaller
    /\ lock' = [lock EXCEPT ![Key(c)] = c]
    /\ Goto(c, "recheck")
    /\ UNCHANGED <<store, loginSem, shortSem, request, via, round, held, emptied, outcome>>

\* state: the look-up under the mutex; another caller may have logged in meanwhile.
Recheck(c) ==
    /\ pc[c] = "recheck"
    /\ \/ /\ session[Key(c)] # 0
          /\ Unlock(c)
          /\ UseSession(c, session[Key(c)])
       \/ /\ session[Key(c)] = 0
          /\ Goto(c, "getAccount")
          /\ UNCHANGED <<lock, via, round, held, emptied, outcome>>
       \/ Unlock(c) /\ StateFailed(c)
    /\ UNCHANGED <<store, loginSem, shortSem, request>>

\* state: GetAccount, which fails with the database or when the account has been deleted.
GetAccount(c) ==
    /\ pc[c] = "getAccount"
    /\ \/ /\ acct[c] \in accounts
          /\ Goto(c, "wantLogin")
          /\ UNCHANGED <<lock, via, round, held, emptied, outcome>>
       \/ Unlock(c) /\ StateFailed(c)
    /\ UNCHANGED <<store, loginSem, shortSem, request>>

\* acquire(ctx, p.loginSem), with the mutex still held.
AcquireLogin(c) ==
    /\ pc[c] = "wantLogin"
    /\ loginSem < MaxLogin
    /\ loginSem' = loginSem + 1
    /\ Goto(c, "login")
    /\ UNCHANGED <<store, lock, shortSem, request, via, round, held, emptied, outcome>>

\* loginAndSession succeeds against one of its LongLink targets.
LoginSucceeds(c) ==
    /\ pc[c] = "login"
    /\ Len(minted) < MaxSession
    /\ minted' = Append(minted, Key(c))
    /\ held' = [held EXCEPT ![c] = Len(minted) + 1]
    /\ Goto(c, "store")
    /\ UNCHANGED <<accounts, session, lock, loginSem, shortSem, request, via,
                   round, emptied, outcome>>

\* All targets failed, the login buffer was refused, or LoginTimeout passed.
LoginFails(c) ==
    /\ pc[c] = "login"
    /\ loginSem' = Released(loginSem)
    /\ Unlock(c)
    /\ StateFailed(c)
    /\ UNCHANGED <<store, shortSem, request>>

\* PutSession and the deferred releases.  It fails with the database, and the
\* foreign key refuses the row when the account was deleted during the login.
StoreSession(c) ==
    /\ pc[c] = "store"
    /\ \/ /\ acct[c] \in accounts
          /\ session' = [session EXCEPT ![Key(c)] = held[c]]
          /\ UseSession(c, held[c])
       \/ StateFailed(c) /\ UNCHANGED session
    /\ loginSem' = Released(loginSem)
    /\ Unlock(c)
    /\ UNCHANGED <<accounts, minted, shortSem, request>>

\* sendEnvelope: acquire(ctx, p.shortlinkSem).
AcquireShort(c) ==
    /\ pc[c] = "wantShort"
    /\ shortSem < MaxShort
    /\ shortSem' = shortSem + 1
    /\ Goto(c, "send")
    /\ UNCHANGED <<store, lock, loginSem, request, via, round, held, emptied, outcome>>

\* send0RTT answers.
SendSucceeds(c) ==
    /\ pc[c] = "send"
    /\ shortSem' = Released(shortSem)
    /\ Return(c, "ok")
    /\ UNCHANGED <<store, lock, loginSem, request>>

\* WeChat answers GetCode with an empty code: run again once, then give it back.
SendReturnsEmpty(c) ==
    /\ pc[c] = "send"
    /\ codeCall[c]
    /\ shortSem' = Released(shortSem)
    /\ \/ /\ round[c] = 1
          /\ emptied' = [emptied EXCEPT ![c] = held[c]]
          /\ Goto(c, "dropEmpty")
          /\ UNCHANGED <<via, round, held, outcome>>
       \/ round[c] # 1 /\ Return(c, "empty")
    /\ UNCHANGED <<store, lock, loginSem, request>>

\* send0RTT fails on every target, or ShortlinkTimeout passes.
SendFails(c) ==
    /\ pc[c] = "send"
    /\ shortSem' = Released(shortSem)
    /\ OpFailed(c)
    /\ UNCHANGED <<store, lock, loginSem, request>>

\* InvalidateSession: deletes whatever row the key has by now.
Invalidate(k) == session' = [session EXCEPT ![k] = 0]

\* run: drop the proxied session, then try without the proxy.  An error of the
\* deletion is dropped, here and below.
DropProxied(c) ==
    /\ pc[c] = "dropProxied"
    /\ Invalidate(<<acct[c], proxy[c]>>) \/ UNCHANGED session
    /\ FallBack(c)
    /\ UNCHANGED <<accounts, minted, lock, loginSem, shortSem, request>>

\* GetCode: Invalidate(accountID, tcpProxy), then the second run.
DropEmpty(c) ==
    /\ pc[c] = "dropEmpty"
    /\ \/ Invalidate(<<acct[c], proxy[c]>>) /\ UNCHANGED emptied
       \/ UNCHANGED session /\ emptied' = [emptied EXCEPT ![c] = 0]
    /\ via' = [via EXCEPT ![c] = proxy[c]]
    /\ round' = [round EXCEPT ![c] = round[c] + 1]
    /\ held' = [held EXCEPT ![c] = 0]
    /\ Goto(c, "lookup")
    /\ UNCHANGED <<accounts, minted, lock, loginSem, shortSem, request, outcome>>

\* The request's context is done (the client went away, the server stops): the
\* database call, acquire or network exchange under way fails, and so does every
\* later one of the call, the fallback's included, so the call returns an error
\* and its deferred releases run.  Only a blocked Lock does not notice.
ContextDone(c) ==
    /\ pc[c] \notin {"idle", "wantLock"}
    /\ lock' = IF pc[c] \in Locked THEN [lock EXCEPT ![Key(c)] = NoCaller] ELSE lock
    /\ loginSem' = IF pc[c] \in LoggingIn THEN Released(loginSem) ELSE loginSem
    /\ shortSem' = IF pc[c] = "send" THEN Released(shortSem) ELSE shortSem
    /\ Return(c, "error")
    /\ UNCHANGED <<store, request>>

\* expires_at passes: GetSession no longer returns the row, PutSession replaces it.
Expire(k) ==
    /\ session[k] # 0
    /\ Invalidate(k)
    /\ UNCHANGED <<accounts, minted, lock, loginSem, shortSem, pc, request, via,
                   round, held, emptied, outcome>>

\* DeleteAccount; sessions has ON DELETE CASCADE.
DeleteAccount(a) ==
    /\ a \in accounts
    /\ accounts' = accounts \ {a}
    /\ session' = [k \in Keys |-> IF k[1] = a THEN 0 ELSE session[k]]
    /\ UNCHANGED <<minted, lock, loginSem, shortSem, pc, request, via, round,
                   held, emptied, outcome>>
----------------------------------------------------------------------------
\* Steps a caller takes by itself once its request has begun.
Work(c) ==
    \/ Lookup(c) \/ Recheck(c) \/ GetAccount(c)
    \/ LoginSucceeds(c) \/ LoginFails(c) \/ StoreSession(c)
    \/ SendSucceeds(c) \/ SendReturnsEmpty(c) \/ SendFails(c)
    \/ DropProxied(c) \/ DropEmpty(c)

\* Steps that wait for another caller.
Wait(c) == TakeLock(c) \/ AcquireLogin(c) \/ AcquireShort(c)

Environment == \/ \E k \in Keys : Expire(k)
               \/ \E a \in Accounts : DeleteAccount(a)

Next ==
    \/ \E c \in Callers :
          \/ \E a \in Accounts, p \in Proxies, code \in BOOLEAN : Begin(c, a, p, code)
          \/ Work(c)
          \/ Wait(c)
          \/ ContextDone(c)
    \/ Environment

Spec == Init /\ [][Next]_vars

\* A running goroutine is scheduled and its network calls end, at the latest by
\* LoginTimeout or ShortlinkTimeout (weak fairness).  A Go mutex hands over in
\* arrival order once a waiter starves, and a channel serves blocked senders in
\* order, so a waiter is not overtaken for ever (strong fairness).
Fairness == \A c \in Callers :
    /\ WF_vars(Work(c))
    /\ SF_vars(TakeLock(c))
    /\ SF_vars(AcquireLogin(c))
    /\ SF_vars(AcquireShort(c))

FairSpec == Spec /\ Fairness
----------------------------------------------------------------------------
(* Properties *)

TypeOK ==
    /\ accounts \in SUBSET Accounts
    /\ session \in [Keys -> Nat]
    /\ minted \in Seq(Keys)
    /\ lock \in [Keys -> Callers \cup {NoCaller}]
    /\ loginSem \in Nat
    /\ shortSem \in Nat
    /\ pc \in [Callers -> Labels]
    /\ acct \in [Callers -> Accounts]
    /\ proxy \in [Callers -> Proxies]
    /\ via \in [Callers -> Proxies]
    /\ codeCall \in [Callers -> BOOLEAN]
    /\ round \in [Callers -> {1, 2}]
    /\ held \in [Callers -> Nat]
    /\ emptied \in [Callers -> Nat]
    /\ outcome \in [Callers -> Outcomes]

\* Single flight: two requests never log the same account in over the same
\* proxy at the same time, whichever way a login ends (the per-key mutex of
\* state is taken on every path and given back on every path).
OneLoginPerKey ==
    \A c, d \in Callers :
        pc[c] \in LoggingIn /\ pc[d] \in LoggingIn /\ Key(c) = Key(d) => c = d

\* The tokens in loginSem and shortlinkSem are exactly the callers inside the
\* guarded sections, on every path: none is leaked, no release takes the token
\* of another caller (the `default' of release is never reached), and the
\* configured concurrency is kept.
SlotsAccounted ==
    /\ loginSem = Cardinality({c \in Callers : pc[c] \in LoggingIn})
    /\ shortSem = Cardinality({c \in Callers : pc[c] = "send"})
    /\ loginSem <= MaxLogin
    /\ shortSem <= MaxShort

\* A login is never wasted: PutSession never replaces a session that is still
\* good, because the second look-up happens under the mutex.
NoLiveSessionOverwritten ==
    [][\A k \in Keys : session[k] # 0 => session'[k] \in {0, session[k]}]_vars

\* No session outlives its account, even when the account is deleted while one
\* of its logins is in flight (cascade plus the foreign key PutSession meets).
NoOrphanSession == \A k \in Keys : session[k] # 0 => k[1] \in accounts

\* A session is cached, and used, only for the account and the proxy it was
\* logged in with: falling back never sends a proxied session directly, nor
\* finds it under the direct key.
SessionMatchesKey ==
    /\ \A k \in Keys : session[k] # 0 => minted[session[k]] = k
    /\ \A c \in Callers : held[c] # 0 => minted[held[c]] = Key(c)

\* After an empty code GetCode rebuilds the session: as long as the second run
\* uses the proxy the request asked for, it never sends with the session that
\* produced the empty code, whatever other callers cached in between, unless
\* its row could not be deleted (pool.go:108 drops that error).
RetryRebuildsSession ==
    \A c \in Callers :
        pc[c] = "send" /\ round[c] = 2 /\ via[c] = proxy[c] => held[c] # emptied[c]

\* Whatever falls back and is tried again, a request sends with a session logged in for
\* its account over its proxy, and not with the one that has just failed it.
SendsRightSession == SessionMatchesKey /\ RetryRebuildsSession

\* Every request returns: no deadlock between mutexes, login slots and
\* shortlink slots, and no endless chain of retries and fallbacks.
CallReturns == \A c \in Callers : pc[c] # "idle" ~> pc[c] = "idle"

\* The pool implements the abstract single flight of logins.
Flight == INSTANCE LoginFlight WITH
    Limit  <- MaxLogin,
    live   <- {k \in Keys : session[k] # 0},
    flight <- {Key(c) : c \in {d \in Callers : pc[d] \in LoggingIn}}

ImplementsLoginFlight == Flight!FairSpec
============================================================================
