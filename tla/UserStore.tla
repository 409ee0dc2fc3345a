----------------------------- MODULE UserStore -----------------------------
(***************************************************************************)
(* Console users and their sessions (internal/auth/store.go) under the     *)
(* HTTP handlers of internal/httpapi/auth.go and auth_batch.go.            *)
(*                                                                         *)
(* A statement or a short transaction is one step; a handler runs several  *)
(* of them and other requests come in between.  A batch deletion is a      *)
(* transaction that reads before it writes.  SQLite's one connection keeps *)
(* everybody else waiting until it ends; under MySQL (REPEATABLE READ) it  *)
(* reads from a snapshot, and others commit before it does.                *)
(*                                                                         *)
(* The middleware reads the caller's role once, a login reads the password *)
(* before it inserts its session, registration asks whether it is open     *)
(* before it inserts the user, and disabling a user is an UPDATE followed  *)
(* by a DELETE of the sessions.                                            *)
(*                                                                         *)
(* Names, mails and hashes are left out.  The password and the state of a  *)
(* user enter as an epoch: the number of times something happened to the   *)
(* user that is to sign its sessions out.                                  *)
(***************************************************************************)
EXTENDS Naturals, FiniteSets

CONSTANTS Requests,    \* requests under way at the same time
          MaxUsers,    \* bound: users ever inserted; AUTOINCREMENT ids are not reused
          MaxSessions, \* bound: sessions ever inserted
          MaxEpoch     \* bound: sign-outs per user

ASSUME UserAssumption ==
    /\ IsFiniteSet(Requests)
    /\ MaxUsers \in Nat \ {0} /\ MaxSessions \in Nat /\ MaxEpoch \in Nat

Ids == 1 .. MaxUsers

VARIABLES users,       \* table users, by id
          lastUser,    \* its AUTOINCREMENT counter
          sessions,    \* table user_sessions, by id
          lastSession,
          open,        \* auth_settings.registration_enabled, or YYB_ALLOW_REGISTRATION
          req,         \* what each request does next, and what it has read
          serial       \* SQLite with its one connection, rather than MySQL with ten

vars == <<users, lastUser, sessions, lastSession, open, req, serial>>

\* founder: administrator for having been the first.  A session is excused when it was
\* inserted after a sign-out by a login that had read the user before, or when its user
\* was disabled by a request cut off before its DELETE.
NewUser(asAdmin, founder) ==
    [admin |-> asAdmin, enabled |-> TRUE, epoch |-> 0, founder |-> founder]

Stages ==
    {"idle", "authenticated", "mayRegister", "admitted", "changing", "revoking", "counted"}

\* user: who the request acts as, logs in, or (when revoking) signs out;
\* epoch and admin: what it has read of that user's row; gone: the rows its batch deletes.
Idle == [at |-> "idle", user |-> 0, session |-> 0, epoch |-> 0, admin |-> FALSE, gone |-> {}]

Become(r, x) == req' = [req EXCEPT ![r] = x]
Finish(r) == Become(r, Idle)

Without(f, gone) == [x \in DOMAIN f \ gone |-> f[x]]
SessionsOf(gone) == {s \in DOMAIN sessions : sessions[s].user \in gone}

\* Past requireAdmin, which goes by the role the middleware read.
AdminRequest(r) == req[r].at = "admitted" /\ req[r].admin
----------------------------------------------------------------------------
(* Faulty variants, one per property, as in SessionPool. *)

\* Ids taken again.
InsertKeepingCounter(asAdmin, founder) ==
    /\ lastUser < MaxUsers
    /\ users' = [u \in DOMAIN users \cup {lastUser + 1} |->
                    IF u = lastUser + 1 THEN NewUser(asAdmin, founder) ELSE users[u]]
    /\ UNCHANGED lastUser

\* AdminResetPassword without its DELETE.
ResetPasswordOnly(r, u) ==
    /\ AdminRequest(r)
    /\ u \in DOMAIN users /\ users[u].epoch < MaxEpoch
    /\ users' = [users EXCEPT ![u].epoch = @ + 1]
    /\ Finish(r)
    /\ UNCHANGED <<lastUser, sessions, lastSession, open>>

\* BatchDeleteUsers that goes by the role the middleware read.
MayDeleteByRole(r, gone) == AdminRequest(r) /\ req[r].user \notin gone
----------------------------------------------------------------------------
\* BootstrapAdmin inserts the first administrator, or nobody does.
Init ==
    /\ users \in {<<>>, [u \in {1} |-> NewUser(TRUE, TRUE)]}
    /\ lastUser = Cardinality(DOMAIN users)
    /\ sessions = <<>>
    /\ lastSession = 0
    /\ open \in BOOLEAN
    /\ req = [r \in Requests |-> Idle]
    /\ serial \in BOOLEAN

\* Authenticate: the row is read, the password matches and the user is enabled.
Authenticate(r, u) ==
    /\ req[r].at = "idle"
    /\ u \in DOMAIN users /\ users[u].enabled
    /\ Become(r, [Idle EXCEPT !.at = "authenticated", !.user = u, !.epoch = users[u].epoch])
    /\ UNCHANGED <<users, lastUser, sessions, lastSession, open>>

\* CreateSession, after a login or a registration.  The foreign key refuses the
\* session of a user deleted meanwhile.
CreateSession(r) ==
    LET u == req[r].user IN
    /\ req[r].at = "authenticated"
    /\ \/ /\ u \in DOMAIN users
          /\ lastSession < MaxSessions
          /\ lastSession' = lastSession + 1
          /\ sessions' = [s \in DOMAIN sessions \cup {lastSession'} |->
                            IF s # lastSession' THEN sessions[s]
                            ELSE [user |-> u, epoch |-> req[r].epoch,
                                  excused |-> req[r].epoch # users[u].epoch]]
       \/ u \notin DOMAIN users /\ UNCHANGED <<sessions, lastSession>>
    /\ Finish(r)
    /\ UNCHANGED <<users, lastUser, open>>

\* registrationAllowed: the switch is on, or there is no user yet (and the
\* request comes from a private network).
RegistrationAllowed(r) ==
    /\ req[r].at = "idle"
    /\ open \/ users = <<>>
    /\ Become(r, [Idle EXCEPT !.at = "mayRegister"])
    /\ UNCHANGED <<users, lastUser, sessions, lastSession, open>>

\* INSERT INTO users.
Insert(asAdmin, founder) ==
    /\ lastUser < MaxUsers
    /\ lastUser' = lastUser + 1
    /\ users' = [u \in DOMAIN users \cup {lastUser'} |->
                    IF u = lastUser' THEN NewUser(asAdmin, founder) ELSE users[u]]

\* Faulty variant of Register: who is let in while registration is closed is the first.
RegisterAsGated(r) ==
    /\ req[r].at = "mayRegister"
    /\ Insert(~open, ~open)
    /\ Become(r, [Idle EXCEPT !.at = "authenticated", !.user = lastUser'])
    /\ UNCHANGED <<sessions, lastSession, open>>

\* RegisterUserWithEmail: the INSERT itself decides the role.
Register(r) ==
    /\ req[r].at = "mayRegister"
    /\ Insert(users = <<>>, users = <<>>)
    /\ Become(r, [Idle EXCEPT !.at = "authenticated", !.user = lastUser'])
    /\ UNCHANGED <<sessions, lastSession, open>>

\* requireBrowserSession: UserBySession joins the session with its user, and
\* refuses a disabled one.
Admit(r, s) ==
    /\ req[r].at = "idle"
    /\ s \in DOMAIN sessions
    /\ LET u == sessions[s].user IN
          /\ users[u].enabled
          /\ Become(r, [Idle EXCEPT !.at = "admitted", !.user = u, !.session = s,
                                    !.admin = users[u].admin])
    /\ UNCHANGED <<users, lastUser, sessions, lastSession, open>>

\* ChangePassword reads the hash and compares the current password.
CheckPassword(r) ==
    /\ req[r].at = "admitted"
    /\ req[r].user \in DOMAIN users
    /\ Become(r, [req[r] EXCEPT !.at = "changing"])
    /\ UNCHANGED <<users, lastUser, sessions, lastSession, open>>

\* Its transaction: the new hash, and every session of the user but this one goes.
ChangePassword(r) ==
    LET u == req[r].user
        others == SessionsOf({u}) \ {req[r].session}
    IN
    /\ req[r].at = "changing"
    /\ \/ /\ u \in DOMAIN users
          /\ users[u].epoch < MaxEpoch
          /\ users' = [users EXCEPT ![u].epoch = @ + 1]
          /\ sessions' = [s \in DOMAIN sessions \ others |->
                IF s = req[r].session
                THEN [user |-> u, epoch |-> users[u].epoch + 1, excused |-> FALSE]
                ELSE sessions[s]]
       \/ u \notin DOMAIN users /\ UNCHANGED <<users, sessions>>
    /\ Finish(r)
    /\ UNCHANGED <<lastUser, lastSession, open>>

\* DeleteOtherSessions.
SignOutOthers(r) ==
    /\ req[r].at = "admitted"
    /\ sessions' = Without(sessions, SessionsOf({req[r].user}) \ {req[r].session})
    /\ Finish(r)
    /\ UNCHANGED <<users, lastUser, lastSession, open>>

\* handleLogout deletes the session of its cookie; an expired one is as good as gone.
Logout(s) ==
    /\ sessions' = Without(sessions, {s})
    /\ UNCHANGED <<users, lastUser, lastSession, open, req>>
----------------------------------------------------------------------------
(* Administrators. *)

\* CreateUser.
CreateUser(r, asAdmin) ==
    /\ AdminRequest(r)
    /\ Insert(asAdmin, FALSE)
    /\ Finish(r)
    /\ UNCHANGED <<sessions, lastSession, open>>

\* UpdateUser: nobody disables or demotes himself.
MayChange(r, u, asAdmin, on) ==
    /\ AdminRequest(r)
    /\ u \in DOMAIN users
    /\ u = req[r].user => asAdmin /\ on

\* UpdateUser: the UPDATE of a user who stays enabled ...
UpdateUser(r, u, asAdmin) ==
    /\ MayChange(r, u, asAdmin, TRUE)
    /\ users' = [users EXCEPT ![u].admin = asAdmin, ![u].enabled = TRUE]
    /\ Finish(r)
    /\ UNCHANGED <<lastUser, sessions, lastSession, open>>

\* ... or is disabled, and is to be signed out.
DisableUser(r, u, asAdmin) ==
    /\ MayChange(r, u, asAdmin, FALSE)
    /\ users[u].epoch < MaxEpoch
    /\ users' = [users EXCEPT ![u].admin = asAdmin, ![u].enabled = FALSE, ![u].epoch = @ + 1]
    /\ Become(r, [Idle EXCEPT !.at = "revoking", !.user = u])
    /\ UNCHANGED <<lastUser, sessions, lastSession, open>>

\* UpdateUser: the DELETE of a disabled user's sessions.
Revoke(r) ==
    /\ req[r].at = "revoking"
    /\ sessions' = Without(sessions, SessionsOf({req[r].user}))
    /\ Finish(r)
    /\ UNCHANGED <<users, lastUser, lastSession, open>>

\* UpdateUser ignores a failure of that DELETE: the client is gone.
RevokeFails(r) ==
    /\ req[r].at = "revoking"
    /\ sessions' = [s \in DOMAIN sessions |->
                      [sessions[s] EXCEPT !.excused = @ \/ sessions[s].user = req[r].user]]
    /\ Finish(r)
    /\ UNCHANGED <<users, lastUser, lastSession, open>>

\* AdminResetPassword, one transaction.
ResetPassword(r, u) ==
    /\ AdminRequest(r)
    /\ u \in DOMAIN users /\ users[u].epoch < MaxEpoch
    /\ users' = [users EXCEPT ![u].epoch = @ + 1]
    /\ sessions' = Without(sessions, SessionsOf({u}))
    /\ Finish(r)
    /\ UNCHANGED <<lastUser, lastSession, open>>

\* The rows of users go, and their sessions with them (ON DELETE CASCADE).
Delete(r, gone) ==
    /\ users' = Without(users, gone)
    /\ sessions' = Without(sessions, SessionsOf(gone))
    /\ Finish(r)
    /\ UNCHANGED <<lastUser, lastSession, open>>

\* DeleteUser: anyone but the caller.
DeleteUser(r, u) ==
    /\ AdminRequest(r)
    /\ u # req[r].user /\ u \in DOMAIN users
    /\ Delete(r, {u})

\* BatchDeleteUsers, begun: the caller is not in the batch, is still an administrator
\* by what the transaction reads, and an administrator is left when it counts.  It
\* counts after its own DELETEs, from the snapshot of its first read.
MayDelete(r, gone) ==
    /\ AdminRequest(r)
    /\ req[r].user \in DOMAIN users \ gone
    /\ users[req[r].user].admin
    /\ \E u \in DOMAIN users \ gone : users[u].admin

BatchCounts(r, gone) ==
    /\ MayDelete(r, gone)
    /\ Become(r, [Idle EXCEPT !.at = "counted", !.user = req[r].user, !.admin = TRUE, !.gone = gone])
    /\ UNCHANGED <<users, lastUser, sessions, lastSession, open>>

\* Its commit: the DELETEs go by the rows as they are, which they lock until then.
BatchCommits(r) == req[r].at = "counted" /\ Delete(r, req[r].gone)

\* Somebody else's transaction holds the one connection.
Held == serial /\ \E r \in Requests : req[r].at = "counted"

\* SetRegistrationEnabled.
SetOpen(r) ==
    /\ AdminRequest(r)
    /\ open' = ~open
    /\ Finish(r)
    /\ UNCHANGED <<users, lastUser, sessions, lastSession>>

\* The request ends without a further effect: it only reads, is refused, or its
\* client is gone and the next statement fails.
Leave(r) ==
    /\ req[r].at \notin {"idle", "revoking"}
    /\ Finish(r)
    /\ UNCHANGED <<users, lastUser, sessions, lastSession, open>>

Next ==
    /\ UNCHANGED serial
    /\ \/ \E r \in Requests : BatchCommits(r) \/ Leave(r)
       \/ /\ ~Held
          /\ \/ \E r \in Requests :
                   \/ \E u \in Ids : Authenticate(r, u)
                   \/ CreateSession(r) \/ RegistrationAllowed(r) \/ Register(r)
                   \/ \E s \in DOMAIN sessions : Admit(r, s)
                   \/ CheckPassword(r) \/ ChangePassword(r) \/ SignOutOthers(r)
                   \/ \E asAdmin \in BOOLEAN : CreateUser(r, asAdmin)
                   \/ \E u \in Ids, asAdmin \in BOOLEAN :
                         UpdateUser(r, u, asAdmin) \/ DisableUser(r, u, asAdmin)
                   \/ Revoke(r) \/ RevokeFails(r)
                   \/ \E u \in Ids : ResetPassword(r, u) \/ DeleteUser(r, u)
                   \/ \E gone \in SUBSET DOMAIN users \ {{}} : BatchCounts(r, gone)
                   \/ SetOpen(r)
             \/ \E s \in DOMAIN sessions : Logout(s)

Spec == Init /\ [][Next]_vars
----------------------------------------------------------------------------
(* Properties *)

UserRow == [admin : BOOLEAN, enabled : BOOLEAN, epoch : 0 .. MaxEpoch,
            founder : BOOLEAN]
SessionRow == [user : Ids, epoch : 0 .. MaxEpoch, excused : BOOLEAN]
Request == [at : Stages, user : 0 .. MaxUsers, session : 0 .. MaxSessions,
            epoch : 0 .. MaxEpoch, admin : BOOLEAN, gone : SUBSET Ids]

TypeOK ==
    /\ lastUser \in 0 .. MaxUsers
    /\ DOMAIN users \subseteq 1 .. lastUser
    /\ \A u \in DOMAIN users : users[u] \in UserRow
    /\ lastSession \in 0 .. MaxSessions
    /\ DOMAIN sessions \subseteq 1 .. lastSession
    /\ \A s \in DOMAIN sessions : sessions[s] \in SessionRow /\ sessions[s].user \in DOMAIN users
    /\ open \in BOOLEAN
    /\ req \in [Requests -> Request]
    /\ serial \in BOOLEAN

\* Registration makes an administrator of the first user only, however many first
\* registrations have passed the gate together (comment of RegisterUser).
OneFounder ==
    \A u, v \in DOMAIN users : users[u].founder /\ users[v].founder => u = v

\* The session is older than its user's last sign-out, which is not still going on.
Outlives(s) ==
    LET u == sessions[s].user
    IN  /\ sessions[s].epoch # users[u].epoch
        /\ \A r \in Requests : ~(req[r].at = "revoking" /\ req[r].user = u)

\* That race, and a disabling request cut off before its DELETE, are the only ways
\* a session outlives a sign-out.
OnlyRacesSurvive == \A s \in DOMAIN sessions : Outlives(s) => sessions[s].excused

\* The last administrator who can log in is only ever lost to a request that goes by a
\* role its caller does not have any more: demoted, disabled or deleted after the
\* middleware had read it.  Nobody demotes, disables or deletes himself.
AdminRows == {u \in DOMAIN users : users[u].admin /\ users[u].enabled}

ActsAsAdmin(r) == req[r].at \in {"admitted", "counted"} /\ req[r].admin

AdminLostOnlyByStaleRole ==
    [][AdminRows # {} /\ AdminRows' = {}
          => \E r \in Requests :
                ActsAsAdmin(r) /\ req'[r] # req[r] /\ req[r].user \notin AdminRows]_vars

\* A batch, of one row or of many, deletes and leaves an administrator in the table
\* (comment of BatchDeleteUsers).  Under MySQL it may leave none, when its caller has
\* been demoted or deleted by somebody who committed after its snapshot.
BatchKeepsAdmin ==
    [][\A r \in Requests :
          req[r].at = "counted" /\ req'[r] # req[r] /\ users' # users
            => \/ \E u \in DOMAIN users' : users'[u].admin
               \/ ~serial /\ ~(req[r].user \in DOMAIN users /\ users[req[r].user].admin)]_vars

\* Administrators are lost to a stale role only: of a request that changes one user, or
\* of a batch under MySQL.
AdminKept == AdminLostOnlyByStaleRole /\ BatchKeepsAdmin
============================================================================
