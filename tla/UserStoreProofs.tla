-------------------------- MODULE UserStoreProofs --------------------------
(***************************************************************************)
(* Proofs about UserStore, for any number of requests, users, sessions and *)
(* sign-outs.                                                              *)
(***************************************************************************)
EXTENDS UserStore, FiniteSetTheorems, TLAPS

----------------------------------------------------------------------------
(* Types *)

\* What a request has read is of its type.
LEMMA RequestTyped ==
  ASSUME TypeOK, NEW r \in Requests
  PROVE  /\ req[r].at \in Stages /\ req[r].user \in 0 .. MaxUsers
         /\ req[r].session \in 0 .. MaxSessions /\ req[r].epoch \in 0 .. MaxEpoch
         /\ req[r].admin \in BOOLEAN /\ req[r].gone \in SUBSET Ids
BY DEF TypeOK, Request

\* The rows a step meets are of their types.
LEMMA RowsTyped ==
  ASSUME TypeOK
  PROVE  /\ \A u \in DOMAIN users :
              /\ u \in 1 .. lastUser /\ u \in Ids
              /\ users[u].admin \in BOOLEAN /\ users[u].enabled \in BOOLEAN
              /\ users[u].epoch \in 0 .. MaxEpoch /\ users[u].founder \in BOOLEAN
         /\ \A s \in DOMAIN sessions :
              /\ s \in 1 .. lastSession
              /\ sessions[s].user \in DOMAIN users /\ sessions[s].epoch \in 0 .. MaxEpoch
              /\ sessions[s].excused \in BOOLEAN
BY UserAssumption DEF TypeOK, UserRow, SessionRow, Ids

\* A new row keeps the table typed, and the ids below their counter.
LEMMA InsertTyped ==
  ASSUME TypeOK, NEW asAdmin \in BOOLEAN, NEW founder \in BOOLEAN, Insert(asAdmin, founder)
  PROVE  /\ lastUser' \in 0 .. MaxUsers /\ lastUser' \in 1 .. MaxUsers
         /\ DOMAIN users' = DOMAIN users \cup {lastUser'} /\ lastUser' \notin DOMAIN users
         /\ DOMAIN users' \subseteq 1 .. lastUser'
         /\ \A u \in DOMAIN users : users'[u] = users[u]
         /\ users'[lastUser'] = NewUser(asAdmin, founder)
         /\ \A u \in DOMAIN users' : users'[u] \in UserRow
<1>1. lastUser' = lastUser + 1 /\ lastUser' \in 1 .. MaxUsers
  BY UserAssumption DEF Insert, TypeOK
<1>2. /\ DOMAIN users' = DOMAIN users \cup {lastUser'}
      /\ \A u \in DOMAIN users' :
            users'[u] = IF u = lastUser' THEN NewUser(asAdmin, founder) ELSE users[u]
  BY DEF Insert
<1>3. lastUser' \notin DOMAIN users /\ DOMAIN users' \subseteq 1 .. lastUser'
  BY <1>1, <1>2, UserAssumption DEF TypeOK
<1>4. NewUser(asAdmin, founder) \in UserRow
  BY UserAssumption DEF NewUser, UserRow
<1>5. QED
  BY <1>1, <1>2, <1>3, <1>4, UserAssumption DEF TypeOK

\* A step takes a request to another request.
LEMMA BecomeTyped ==
  ASSUME TypeOK, NEW r \in Requests, NEW x \in Request, Become(r, x)
  PROVE  req' \in [Requests -> Request]
BY DEF TypeOK, Become

\* An idle request is a request.
LEMMA IdleTyped == Idle \in Request
<1>1. 0 \in 0 .. MaxUsers /\ 0 \in 0 .. MaxSessions /\ 0 \in 0 .. MaxEpoch
  BY UserAssumption
<1>2. QED
  BY <1>1 DEF Idle, Request, Stages

\* A request stays one when it moves on for a user.
LEMMA RequestMoves ==
  ASSUME NEW x \in Request, NEW a \in Stages, NEW u \in Ids
  PROVE  [x EXCEPT !.at = a, !.user = u] \in Request
<1>1. u \in 0 .. MaxUsers
  BY UserAssumption DEF Ids
<1>2. [x EXCEPT !.at = a] \in Request
  BY DEF Request
<1>3. QED
  BY <1>1, <1>2 DEF Request

\* A request can always end.
LEMMA FinishTyped ==
  ASSUME TypeOK, NEW r \in Requests, Finish(r)
  PROVE  req' \in [Requests -> Request]
BY BecomeTyped, IdleTyped DEF Finish

\* Deleting rows leaves the others as they are.
LEMMA DeleteTyped ==
  ASSUME TypeOK, NEW r \in Requests, NEW gone, Delete(r, gone), UNCHANGED serial
  PROVE  TypeOK'
<1>1. /\ DOMAIN users' = DOMAIN users \ gone /\ \A u \in DOMAIN users' : users'[u] = users[u]
      /\ DOMAIN sessions' = DOMAIN sessions \ SessionsOf(gone)
      /\ \A s \in DOMAIN sessions' : sessions'[s] = sessions[s]
      /\ UNCHANGED <<lastUser, lastSession, open>>
  BY DEF Delete, Without
<1>2. \A s \in DOMAIN sessions' : sessions[s].user \in DOMAIN users'
  BY <1>1 DEF SessionsOf, TypeOK
<1>3. req' \in [Requests -> Request]
  BY FinishTyped DEF Delete
<1>4. QED
  BY <1>1, <1>2, <1>3 DEF TypeOK

\* Signing sessions out touches the sessions only.
LEMMA SignOutTyped ==
  ASSUME TypeOK, NEW gone, sessions' = Without(sessions, gone),
         UNCHANGED <<users, lastUser, lastSession, open, serial>>,
         req' \in [Requests -> Request]
  PROVE  TypeOK'
BY DEF TypeOK, Without

\* A step that changes one row to another row.
LEMMA UpdateTyped ==
  ASSUME TypeOK, NEW u \in DOMAIN users, NEW x \in UserRow, users' = [users EXCEPT ![u] = x],
         UNCHANGED <<lastUser, lastSession, open, serial>>, req' \in [Requests -> Request],
         DOMAIN sessions' \subseteq DOMAIN sessions,
         \A s \in DOMAIN sessions' : sessions'[s] \in SessionRow /\ sessions'[s].user \in DOMAIN users
  PROVE  TypeOK'
BY DEF TypeOK

\* Each step keeps the tables and the requests well typed.
LEMMA TypeStep == TypeOK /\ [Next]_vars => TypeOK'
<1> SUFFICES ASSUME TypeOK, [Next]_vars PROVE TypeOK'
  OBVIOUS
<1>0. serial' = serial
  BY DEF Next, vars
<1>1. ASSUME NEW r \in Requests, NEW u \in Ids, Authenticate(r, u) PROVE TypeOK'
  <2> DEFINE x == [Idle EXCEPT !.at = "authenticated", !.user = u]
  <2>1. x \in Request
    BY IdleTyped, RequestMoves DEF Stages
  <2>2. users[u].epoch \in 0 .. MaxEpoch
    BY <1>1, RowsTyped DEF Authenticate
  <2>3. [x EXCEPT !.epoch = users[u].epoch] \in Request
    BY <2>1, <2>2 DEF Request
  <2>4. QED
    BY <1>0, <1>1, <2>3, BecomeTyped DEF Authenticate, TypeOK
<1>2. ASSUME NEW r \in Requests, CreateSession(r) PROVE TypeOK'
  <2>1. req' \in [Requests -> Request] /\ UNCHANGED <<users, lastUser, open>>
    BY <1>2, FinishTyped DEF CreateSession
  <2>2. CASE UNCHANGED <<sessions, lastSession>>
    BY <1>0, <2>1, <2>2 DEF TypeOK
  <2>3. CASE /\ req[r].user \in DOMAIN users /\ lastSession < MaxSessions
             /\ lastSession' = lastSession + 1
             /\ sessions' = [s \in DOMAIN sessions \cup {lastSession'} |->
                               IF s # lastSession' THEN sessions[s]
                               ELSE [user |-> req[r].user, epoch |-> req[r].epoch,
                                     excused |-> req[r].epoch # users[req[r].user].epoch]]
    <3>1. lastSession' \in 0 .. MaxSessions /\ DOMAIN sessions' \subseteq 1 .. lastSession'
      BY <1>0, <2>3, UserAssumption DEF TypeOK
    <3>2. [user |-> req[r].user, epoch |-> req[r].epoch,
           excused |-> req[r].epoch # users[req[r].user].epoch] \in SessionRow
      BY <2>3, RowsTyped, RequestTyped DEF SessionRow
    <3>3. \A s \in DOMAIN sessions' : sessions'[s] \in SessionRow /\ sessions'[s].user \in DOMAIN users
      BY <1>0, <2>3, <3>2 DEF TypeOK
    <3>4. QED
      BY <1>0, <2>1, <3>1, <3>3 DEF TypeOK
  <2>4. QED
    BY <1>2, <2>2, <2>3 DEF CreateSession
<1>3. ASSUME NEW r \in Requests, RegistrationAllowed(r) PROVE TypeOK'
  <2>1. [Idle EXCEPT !.at = "mayRegister"] \in Request
    BY IdleTyped DEF Request, Stages
  <2>2. QED
    BY <1>0, <1>3, <2>1, BecomeTyped DEF RegistrationAllowed, TypeOK
<1>4. ASSUME NEW r \in Requests, Register(r) PROVE TypeOK'
  <2>1. Insert(users = <<>>, users = <<>>) /\ (users = <<>>) \in BOOLEAN
    BY <1>4 DEF Register
  <2>2. /\ lastUser' \in 1 .. MaxUsers /\ DOMAIN users \subseteq DOMAIN users'
        /\ DOMAIN users' \subseteq 1 .. lastUser' /\ \A u \in DOMAIN users' : users'[u] \in UserRow
    BY <2>1, InsertTyped
  <2>3. [Idle EXCEPT !.at = "authenticated", !.user = lastUser'] \in Request
    BY <2>2, IdleTyped, RequestMoves DEF Stages, Ids
  <2>4. QED
    BY <1>0, <1>4, <2>2, <2>3, BecomeTyped, UserAssumption DEF Register, TypeOK
<1>5. ASSUME NEW r \in Requests, NEW s \in DOMAIN sessions, Admit(r, s) PROVE TypeOK'
  <2> DEFINE u == sessions[s].user
             x == [Idle EXCEPT !.at = "admitted", !.user = u]
  <2>1. x \in Request
    BY RowsTyped, IdleTyped, RequestMoves DEF Stages
  <2>2. s \in 0 .. MaxSessions /\ users[u].admin \in BOOLEAN
    BY <1>0, RowsTyped, UserAssumption DEF TypeOK
  <2>3. [x EXCEPT !.session = s, !.admin = users[u].admin] \in Request
    BY <2>1, <2>2 DEF Request
  <2>4. QED
    BY <1>0, <1>5, <2>3, BecomeTyped DEF Admit, TypeOK
<1>6. ASSUME NEW r \in Requests, CheckPassword(r) PROVE TypeOK'
  <2>1. [req[r] EXCEPT !.at = "changing"] \in Request
    BY <1>0 DEF TypeOK, Request, Stages
  <2>2. QED
    BY <1>0, <1>6, <2>1, BecomeTyped DEF CheckPassword, TypeOK
<1>7. ASSUME NEW r \in Requests, ChangePassword(r) PROVE TypeOK'
  <2> DEFINE u == req[r].user
             kept == DOMAIN sessions \ (SessionsOf({u}) \ {req[r].session})
  <2>1. req' \in [Requests -> Request] /\ UNCHANGED <<lastUser, lastSession, open>>
    BY <1>7, FinishTyped DEF ChangePassword
  <2>2. CASE UNCHANGED <<users, sessions>>
    BY <1>0, <2>1, <2>2 DEF TypeOK
  <2>3. CASE /\ u \in DOMAIN users /\ users[u].epoch < MaxEpoch
             /\ users' = [users EXCEPT ![u].epoch = @ + 1]
             /\ sessions' = [s \in kept |->
                  IF s = req[r].session
                  THEN [user |-> u, epoch |-> users[u].epoch + 1, excused |-> FALSE]
                  ELSE sessions[s]]
    <3>1. [users[u] EXCEPT !.epoch = @ + 1] \in UserRow /\ users[u].epoch + 1 \in 0 .. MaxEpoch
      BY <1>0, <2>3, RowsTyped, UserAssumption DEF TypeOK, UserRow
    <3>2. [user |-> u, epoch |-> users[u].epoch + 1, excused |-> FALSE] \in SessionRow
      BY <2>3, <3>1, RowsTyped DEF SessionRow
    <3>3. \A s \in DOMAIN sessions' : sessions'[s] \in SessionRow /\ sessions'[s].user \in DOMAIN users
      BY <1>0, <2>3, <3>2 DEF TypeOK
    <3>4. users' = [users EXCEPT ![u] = [users[u] EXCEPT !.epoch = @ + 1]]
      BY <2>3
    <3>5. QED
      BY <1>0, <2>1, <2>3, <3>1, <3>3, <3>4, UpdateTyped
  <2>4. QED
    BY <1>7, <2>2, <2>3 DEF ChangePassword
<1>8. ASSUME NEW r \in Requests, SignOutOthers(r) PROVE TypeOK'
  BY <1>0, <1>8, FinishTyped, SignOutTyped DEF SignOutOthers
<1>9. ASSUME NEW r \in Requests, NEW asAdmin \in BOOLEAN, CreateUser(r, asAdmin) PROVE TypeOK'
  <2>1. /\ lastUser' \in 0 .. MaxUsers /\ DOMAIN users \subseteq DOMAIN users'
        /\ DOMAIN users' \subseteq 1 .. lastUser' /\ \A u \in DOMAIN users' : users'[u] \in UserRow
    BY <1>9, InsertTyped DEF CreateUser
  <2>2. QED
    BY <1>0, <1>9, <2>1, FinishTyped DEF CreateUser, TypeOK
<1>10. ASSUME NEW r \in Requests, NEW u \in Ids, NEW asAdmin \in BOOLEAN, UpdateUser(r, u, asAdmin)
       PROVE  TypeOK'
  <2>1. u \in DOMAIN users /\ [users[u] EXCEPT !.admin = asAdmin, !.enabled = TRUE] \in UserRow
    BY <1>0, <1>10 DEF UpdateUser, MayChange, TypeOK, UserRow
  <2>2. users' = [users EXCEPT ![u] = [users[u] EXCEPT !.admin = asAdmin, !.enabled = TRUE]]
    BY <1>10 DEF UpdateUser
  <2>3. QED
    BY <1>0, <1>10, <2>1, <2>2, UpdateTyped, FinishTyped DEF UpdateUser, TypeOK
<1>11. ASSUME NEW r \in Requests, NEW u \in Ids, NEW asAdmin \in BOOLEAN, DisableUser(r, u, asAdmin)
       PROVE  TypeOK'
  <2> DEFINE x == [users[u] EXCEPT !.admin = asAdmin, !.enabled = FALSE, !.epoch = @ + 1]
  <2>1. u \in DOMAIN users /\ x \in UserRow
    BY <1>0, <1>11, UserAssumption DEF DisableUser, MayChange, TypeOK, UserRow
  <2>2. users' = [users EXCEPT ![u] = x]
    BY <1>11 DEF DisableUser
  <2>3. [Idle EXCEPT !.at = "revoking", !.user = u] \in Request
    BY IdleTyped, RequestMoves DEF Stages
  <2>4. req' \in [Requests -> Request]
    BY <1>11, <2>3, BecomeTyped DEF DisableUser
  <2>5. QED
    BY <1>0, <1>11, <2>1, <2>2, <2>4, UpdateTyped DEF DisableUser, TypeOK
<1>12. ASSUME NEW r \in Requests, Revoke(r) PROVE TypeOK'
  BY <1>0, <1>12, FinishTyped, SignOutTyped DEF Revoke
<1>13. ASSUME NEW r \in Requests, RevokeFails(r) PROVE TypeOK'
  BY <1>0, <1>13, FinishTyped DEF RevokeFails, TypeOK, SessionRow
<1>14. ASSUME NEW r \in Requests, NEW u \in Ids, ResetPassword(r, u) PROVE TypeOK'
  <2>1. u \in DOMAIN users /\ [users[u] EXCEPT !.epoch = @ + 1] \in UserRow
    BY <1>0, <1>14, UserAssumption DEF ResetPassword, TypeOK, UserRow
  <2>2. users' = [users EXCEPT ![u] = [users[u] EXCEPT !.epoch = @ + 1]]
    BY <1>14 DEF ResetPassword
  <2>3. QED
    BY <1>0, <1>14, <2>1, <2>2, UpdateTyped, FinishTyped DEF ResetPassword, Without, TypeOK
<1>15. ASSUME NEW r \in Requests, NEW u \in Ids, DeleteUser(r, u) PROVE TypeOK'
  BY <1>0, <1>15, DeleteTyped DEF DeleteUser
<1>16. ASSUME NEW r \in Requests, BatchCommits(r) PROVE TypeOK'
  BY <1>0, <1>16, DeleteTyped DEF BatchCommits
<1>17. ASSUME NEW r \in Requests, SetOpen(r) PROVE TypeOK'
  BY <1>0, <1>17, FinishTyped DEF SetOpen, TypeOK
<1>18. ASSUME NEW r \in Requests, Leave(r) PROVE TypeOK'
  BY <1>0, <1>18, FinishTyped DEF Leave, TypeOK
<1>19. ASSUME NEW s \in DOMAIN sessions, Logout(s) PROVE TypeOK'
  BY <1>0, <1>19, SignOutTyped DEF Logout, TypeOK
<1>22. ASSUME NEW r \in Requests, NEW gone \in SUBSET DOMAIN users, BatchCounts(r, gone)
       PROVE  TypeOK'
  <2> DEFINE x == [Idle EXCEPT !.at = "counted", !.user = req[r].user]
  <2>1. req[r].user \in Ids /\ gone \in SUBSET Ids
    BY <1>22, RowsTyped DEF BatchCounts, MayDelete
  <2>2. x \in Request
    BY <2>1, IdleTyped, RequestMoves DEF Stages
  <2>3. [x EXCEPT !.admin = TRUE, !.gone = gone] \in Request
    BY <2>1, <2>2 DEF Request
  <2>4. QED
    BY <1>0, <1>22, <2>3, BecomeTyped DEF BatchCounts, TypeOK
<1>20. CASE UNCHANGED vars
  BY <1>0, <1>20 DEF vars, TypeOK
<1>21. QED
  BY <1>1, <1>2, <1>3, <1>4, <1>5, <1>6, <1>7, <1>8, <1>9, <1>10, <1>11, <1>12, <1>13, <1>14,
     <1>15, <1>16, <1>17, <1>18, <1>19, <1>20, <1>22 DEF Next

\* The empty table and the table of the bootstrap administrator.
LEMMA InitUsers ==
  ASSUME Init
  PROVE  \/ users = <<>> /\ DOMAIN users = {} /\ lastUser = 0
         \/ users = [u \in {1} |-> NewUser(TRUE, TRUE)] /\ lastUser = 1
<1>1. users = <<>> \/ users = [u \in {1} |-> NewUser(TRUE, TRUE)]
  BY DEF Init
<1>2. CASE users = <<>>
  <2>1. DOMAIN users = 1 .. 0 /\ 1 .. 0 = {}
    BY <1>2
  <2>2. QED
    BY <1>2, <2>1, FS_EmptySet DEF Init
<1>3. CASE users = [u \in {1} |-> NewUser(TRUE, TRUE)]
  BY <1>3, FS_Singleton DEF Init
<1>4. QED
  BY <1>1, <1>2, <1>3

\* The tables and the requests stay well typed: sessions belong to users, and ids are
\* below their counters (schema of auth/store.go).
THEOREM Typing == Spec => []TypeOK
<1>1. Init => TypeOK
  <2> SUFFICES ASSUME Init PROVE TypeOK
    OBVIOUS
  <2>1. NewUser(TRUE, TRUE) \in UserRow /\ Idle \in Request
    BY IdleTyped, UserAssumption DEF NewUser, UserRow
  <2>2. lastUser \in 0 .. MaxUsers /\ DOMAIN users \subseteq 1 .. lastUser
    <3>1. CASE DOMAIN users = {} /\ lastUser = 0
      BY <3>1, UserAssumption
    <3>2. CASE users = [u \in {1} |-> NewUser(TRUE, TRUE)] /\ lastUser = 1
      <4>1. DOMAIN users = {1}
        BY <3>2
      <4>2. QED
        BY <3>2, <4>1, UserAssumption
    <3>3. QED
      BY <3>1, <3>2, InitUsers
  <2>3. \A u \in DOMAIN users : users[u] \in UserRow
    BY <2>1, InitUsers
  <2>4. QED
    BY <2>1, <2>2, <2>3, UserAssumption DEF Init, TypeOK
<1>2. QED
  BY <1>1, TypeStep, PTL DEF Spec
----------------------------------------------------------------------------
(* One founder *)

\* What a step does to the rows of users that stay, and to a new one: only a
\* registration into the empty table founds.
RowsKeep ==
  /\ \A u \in DOMAIN users' \cap DOMAIN users : users'[u].founder = users[u].founder
  /\ DOMAIN users' \subseteq DOMAIN users \cup {lastUser'}
  /\ \A u \in DOMAIN users' \ DOMAIN users : users'[u].founder => DOMAIN users = {}

\* An insertion is such a step when its founder flag is.
LEMMA InsertKeeps ==
  ASSUME TypeOK, NEW asAdmin \in BOOLEAN, NEW founder \in BOOLEAN, Insert(asAdmin, founder),
         founder => DOMAIN users = {}
  PROVE  RowsKeep
<1>1. /\ DOMAIN users' = DOMAIN users \cup {lastUser'} /\ lastUser' \notin DOMAIN users
      /\ \A u \in DOMAIN users : users'[u] = users[u]
      /\ users'[lastUser'] = NewUser(asAdmin, founder)
  BY InsertTyped
<1>2. users'[lastUser'].founder = founder
  BY <1>1 DEF NewUser
<1>3. QED
  BY <1>1, <1>2 DEF RowsKeep

\* So is every step.
LEMMA StepRows == TypeOK /\ [Next]_vars => RowsKeep
<1> SUFFICES ASSUME TypeOK, [Next]_vars PROVE RowsKeep
  OBVIOUS
<1>1. CASE users' = users
  BY <1>1 DEF RowsKeep
<1>2. ASSUME NEW r \in Requests, Register(r) PROVE RowsKeep
  <2>1. Insert(users = <<>>, users = <<>>) /\ (users = <<>>) \in BOOLEAN
    BY <1>2 DEF Register
  <2>2. users = <<>> => DOMAIN users = {}
    <3>1. users = <<>> => DOMAIN users = 1 .. 0
      OBVIOUS
    <3>2. 1 .. 0 = {}
      OBVIOUS
    <3>3. QED
      BY <3>1, <3>2
  <2>3. QED
    BY <2>1, <2>2, InsertKeeps
<1>3. ASSUME NEW r \in Requests, NEW asAdmin \in BOOLEAN, CreateUser(r, asAdmin) PROVE RowsKeep
  BY <1>3, InsertKeeps DEF CreateUser
<1>4. ASSUME NEW u \in DOMAIN users, NEW x, users' = [users EXCEPT ![u] = x],
             x.founder = users[u].founder
      PROVE  RowsKeep
  BY <1>4 DEF RowsKeep
<1>5. ASSUME NEW r \in Requests, ChangePassword(r) PROVE RowsKeep
  <2>1. CASE users' = users
    BY <2>1, <1>1
  <2>2. CASE /\ req[r].user \in DOMAIN users
             /\ users' = [users EXCEPT ![req[r].user] = [users[req[r].user] EXCEPT !.epoch = @ + 1]]
    <3>1. [users[req[r].user] EXCEPT !.epoch = @ + 1].founder = users[req[r].user].founder
      BY <2>2 DEF TypeOK, UserRow
    <3>2. QED
      BY <2>2, <3>1, <1>4
  <2>3. QED
    BY <1>5, <2>1, <2>2 DEF ChangePassword
<1>6. ASSUME NEW r \in Requests, NEW u \in Ids, NEW asAdmin \in BOOLEAN, UpdateUser(r, u, asAdmin)
      PROVE  RowsKeep
  <2> DEFINE x == [users[u] EXCEPT !.admin = asAdmin, !.enabled = TRUE]
  <2>1. u \in DOMAIN users /\ users' = [users EXCEPT ![u] = x]
    BY <1>6 DEF UpdateUser, MayChange
  <2>2. x.founder = users[u].founder
    BY <2>1 DEF TypeOK, UserRow
  <2>3. QED
    BY <2>1, <2>2, <1>4
<1>7. ASSUME NEW r \in Requests, NEW u \in Ids, NEW asAdmin \in BOOLEAN, DisableUser(r, u, asAdmin)
      PROVE  RowsKeep
  <2> DEFINE x == [users[u] EXCEPT !.admin = asAdmin, !.enabled = FALSE, !.epoch = @ + 1]
  <2>1. u \in DOMAIN users /\ users' = [users EXCEPT ![u] = x]
    BY <1>7 DEF DisableUser, MayChange
  <2>2. x.founder = users[u].founder
    BY <2>1 DEF TypeOK, UserRow
  <2>3. QED
    BY <2>1, <2>2, <1>4
<1>8. ASSUME NEW r \in Requests, NEW u \in Ids, ResetPassword(r, u) PROVE RowsKeep
  <2> DEFINE x == [users[u] EXCEPT !.epoch = @ + 1]
  <2>1. u \in DOMAIN users /\ users' = [users EXCEPT ![u] = x]
    BY <1>8 DEF ResetPassword
  <2>2. x.founder = users[u].founder
    BY <2>1 DEF TypeOK, UserRow
  <2>3. QED
    BY <2>1, <2>2, <1>4
<1>9. ASSUME NEW r \in Requests, NEW gone, Delete(r, gone) PROVE RowsKeep
  BY <1>9 DEF Delete, Without, RowsKeep
<1>10. QED
  BY <1>1, <1>2, <1>3, <1>5, <1>6, <1>7, <1>8, <1>9
  DEF Next, vars, Authenticate, CreateSession, RegistrationAllowed, Admit, CheckPassword,
      SignOutOthers, Revoke, RevokeFails, DeleteUser, BatchCounts, BatchCommits, SetOpen, Leave,
      Logout

\* However many registrations pass the gate of an empty table together, one of them
\* founds (RegisterUser and RegisterUserWithEmail).
THEOREM Founding == Spec => []OneFounder
<1>1. Init => OneFounder
  BY InitUsers DEF OneFounder
<1>2. TypeOK /\ OneFounder /\ [Next]_vars => OneFounder'
  BY StepRows DEF RowsKeep, OneFounder
<1>3. QED
  BY <1>1, <1>2, Typing, PTL DEF Spec

----------------------------------------------------------------------------
(* Sessions that outlive a sign-out *)

\* Some request is about to sign the user out.
BeingRevoked(u) == \E r \in Requests : req[r].at = "revoking" /\ req[r].user = u

\* Session s is as old as its user, being revoked, or excused.
Accounted(s) ==
  \/ sessions[s].epoch = users[sessions[s].user].epoch
  \/ BeingRevoked(sessions[s].user)
  \/ sessions[s].excused

\* No session outlives a sign-out unexcused if and only if every one is accounted for.
LEMMA SurvivorsAreUnaccounted ==
  OnlyRacesSurvive <=> \A s \in DOMAIN sessions : Accounted(s)
BY DEF OnlyRacesSurvive, Outlives, Accounted, BeingRevoked

\* A request that was not about to sign a user out can move on without harm.
LEMMA RevocationKept ==
  ASSUME TypeOK, NEW r \in Requests, NEW x, Become(r, x), req[r].at # "revoking", NEW u,
         BeingRevoked(u)
  PROVE  BeingRevoked(u)'
BY DEF TypeOK, Become, BeingRevoked

\* A step that leaves every remaining session and its user's epoch alone.
LEMMA AccountsKept ==
  ASSUME TypeOK, \A s \in DOMAIN sessions : Accounted(s),
         DOMAIN sessions' \subseteq DOMAIN sessions,
         NEW r \in Requests, NEW x, Become(r, x), req[r].at # "revoking",
         \A s \in DOMAIN sessions' : /\ sessions'[s] = sessions[s]
                                     /\ users'[sessions[s].user].epoch = users[sessions[s].user].epoch
  PROVE  \A s \in DOMAIN sessions' : Accounted(s)'
<1> SUFFICES ASSUME NEW s \in DOMAIN sessions' PROVE Accounted(s)'
  OBVIOUS
<1>1. Accounted(s)
  OBVIOUS
<1>2. BeingRevoked(sessions[s].user) => BeingRevoked(sessions[s].user)'
  BY RevocationKept
<1>3. QED
  BY <1>1, <1>2 DEF Accounted, BeingRevoked

\* Each step accounts for the sessions it leaves.
LEMMA SurvivorStep ==
  TypeOK /\ OnlyRacesSurvive /\ [Next]_vars => \A s \in DOMAIN sessions' : Accounted(s)'
<1> SUFFICES ASSUME TypeOK, \A s \in DOMAIN sessions : Accounted(s), [Next]_vars
             PROVE  \A s \in DOMAIN sessions' : Accounted(s)'
  BY SurvivorsAreUnaccounted
<1> DEFINE Goal == \A s \in DOMAIN sessions' : Accounted(s)'
<1>0. \A s \in DOMAIN sessions : sessions[s].user \in DOMAIN users
  BY DEF TypeOK
<1>1. ASSUME NEW r \in Requests, NEW x, Become(r, x), req[r].at # "revoking",
             UNCHANGED <<users, sessions>>
      PROVE  Goal
  BY <1>1, AccountsKept
<1>2. ASSUME NEW r \in Requests, CreateSession(r) PROVE Goal
  <2>1. CASE UNCHANGED sessions
    BY <1>1, <1>2, <2>1 DEF CreateSession, Finish
  <2>2. CASE /\ req[r].user \in DOMAIN users
             /\ sessions' = [s \in DOMAIN sessions \cup {lastSession'} |->
                               IF s # lastSession' THEN sessions[s]
                               ELSE [user |-> req[r].user, epoch |-> req[r].epoch,
                                     excused |-> req[r].epoch # users[req[r].user].epoch]]
    <3> SUFFICES ASSUME NEW s \in DOMAIN sessions' PROVE Accounted(s)'
      OBVIOUS
    <3>1. users' = users /\ Become(r, Idle) /\ req[r].at # "revoking"
      BY <1>2 DEF CreateSession, Finish
    <3>2. CASE s = lastSession'
      BY <2>2, <3>1, <3>2 DEF Accounted
    <3>3. CASE s # lastSession'
      <4>1. s \in DOMAIN sessions /\ sessions'[s] = sessions[s] /\ Accounted(s)
        BY <2>2, <3>3
      <4>2. BeingRevoked(sessions[s].user) => BeingRevoked(sessions[s].user)'
        BY <3>1, <4>1, RevocationKept
      <4>3. QED
        BY <3>1, <4>1, <4>2 DEF Accounted, BeingRevoked
    <3>4. QED
      BY <3>2, <3>3
  <2>3. QED
    BY <1>2, <2>1, <2>2 DEF CreateSession
<1>3. ASSUME NEW r \in Requests, NEW x, Become(r, x), req[r].at # "revoking",
             NEW asAdmin \in BOOLEAN, NEW founder \in BOOLEAN, Insert(asAdmin, founder),
             sessions' = sessions
      PROVE  Goal
  <2>1. \A u \in DOMAIN users : users'[u] = users[u]
    BY <1>3, InsertTyped
  <2>2. QED
    BY <1>0, <1>3, <2>1, AccountsKept
<1>4. ASSUME NEW r \in Requests, Register(r) PROVE Goal
  <2>1. Insert(users = <<>>, users = <<>>) /\ (users = <<>>) \in BOOLEAN /\ sessions' = sessions
    BY <1>4 DEF Register
  <2>2. req[r].at # "revoking" /\ \E x : Become(r, x)
    BY <1>4 DEF Register
  <2>3. QED
    BY <2>1, <2>2, <1>3
<1>5. ASSUME NEW r \in Requests, ChangePassword(r) PROVE Goal
  <2> DEFINE u == req[r].user
             kept == DOMAIN sessions \ (SessionsOf({u}) \ {req[r].session})
  <2>1. Become(r, Idle) /\ req[r].at # "revoking"
    BY <1>5 DEF ChangePassword, Finish
  <2>2. CASE UNCHANGED <<users, sessions>>
    BY <1>1, <2>1, <2>2
  <2>3. CASE /\ u \in DOMAIN users /\ users' = [users EXCEPT ![u].epoch = @ + 1]
             /\ sessions' = [s \in kept |->
                  IF s = req[r].session
                  THEN [user |-> u, epoch |-> users[u].epoch + 1, excused |-> FALSE]
                  ELSE sessions[s]]
    <3> SUFFICES ASSUME NEW s \in DOMAIN sessions' PROVE Accounted(s)'
      OBVIOUS
    <3>1. users'[u].epoch = users[u].epoch + 1 /\ \A v \in DOMAIN users \ {u} : users'[v] = users[v]
      BY <2>3 DEF TypeOK, UserRow
    <3>2. CASE s = req[r].session
      BY <2>3, <3>1, <3>2 DEF Accounted
    <3>3. CASE s # req[r].session
      <4>1. s \in DOMAIN sessions /\ sessions'[s] = sessions[s] /\ Accounted(s)
        BY <2>3, <3>3
      <4>2. sessions[s].user # u
        BY <2>3, <3>3 DEF SessionsOf
      <4>3. users'[sessions[s].user] = users[sessions[s].user]
        BY <1>0, <3>1, <4>1, <4>2
      <4>4. BeingRevoked(sessions[s].user) => BeingRevoked(sessions[s].user)'
        BY <2>1, <4>1, RevocationKept
      <4>5. QED
        BY <4>1, <4>3, <4>4 DEF Accounted, BeingRevoked
    <3>4. QED
      BY <3>2, <3>3
  <2>4. QED
    BY <1>5, <2>2, <2>3 DEF ChangePassword
<1>6. ASSUME NEW r \in Requests, Become(r, Idle), req[r].at # "revoking", users' = users,
             NEW gone, sessions' = Without(sessions, gone)
      PROVE  Goal
  BY <1>6, AccountsKept DEF Without
<1>7. ASSUME NEW r \in Requests, NEW u \in Ids, NEW asAdmin \in BOOLEAN, UpdateUser(r, u, asAdmin)
      PROVE  Goal
  <2>1. Become(r, Idle) /\ req[r].at # "revoking" /\ sessions' = sessions
    BY <1>7 DEF UpdateUser, MayChange, AdminRequest, Finish
  <2>2. \A v \in DOMAIN users : users'[v].epoch = users[v].epoch
    BY <1>7 DEF UpdateUser, TypeOK, UserRow
  <2>3. QED
    BY <1>0, <2>1, <2>2, AccountsKept
<1>8. ASSUME NEW r \in Requests, NEW u \in Ids, NEW asAdmin \in BOOLEAN, DisableUser(r, u, asAdmin)
      PROVE  Goal
  <2> SUFFICES ASSUME NEW s \in DOMAIN sessions' PROVE Accounted(s)'
    OBVIOUS
  <2>1. req[r].at # "revoking" /\ sessions' = sessions
    BY <1>8 DEF DisableUser, MayChange, AdminRequest
  <2> DEFINE x == [Idle EXCEPT !.at = "revoking", !.user = u]
  <2>2. Become(r, x) /\ x.at = "revoking" /\ x.user = u
    BY <1>8, IdleTyped DEF DisableUser, Request
  <2>3. CASE sessions[s].user = u
    <3>1. req'[r] = x
      BY <2>2 DEF Become, TypeOK
    <3>2. QED
      BY <2>1, <2>2, <2>3, <3>1 DEF Accounted, BeingRevoked
  <2>4. CASE sessions[s].user # u
    <3>1. users'[sessions[s].user] = users[sessions[s].user]
      BY <1>0, <1>8, <2>1, <2>4 DEF DisableUser
    <3>2. BeingRevoked(sessions[s].user) => BeingRevoked(sessions[s].user)'
      BY <2>1, <2>2, RevocationKept
    <3>3. Accounted(s)
      BY <2>1
    <3>4. QED
      BY <2>1, <3>1, <3>2, <3>3 DEF Accounted, BeingRevoked
  <2>5. QED
    BY <2>3, <2>4
<1>9. ASSUME NEW r \in Requests, Revoke(r) PROVE Goal
  <2> SUFFICES ASSUME NEW s \in DOMAIN sessions' PROVE Accounted(s)'
    OBVIOUS
  <2>1. s \in DOMAIN sessions /\ sessions'[s] = sessions[s] /\ sessions[s].user # req[r].user
    BY <1>9 DEF Revoke, Without, SessionsOf
  <2>2. BeingRevoked(sessions[s].user) => BeingRevoked(sessions[s].user)'
    BY <1>9, <2>1 DEF Revoke, Finish, Become, BeingRevoked, TypeOK
  <2>3. Accounted(s) /\ users' = users
    BY <1>9, <2>1 DEF Revoke
  <2>4. QED
    BY <2>1, <2>2, <2>3 DEF Accounted, BeingRevoked
<1>10. ASSUME NEW r \in Requests, RevokeFails(r) PROVE Goal
  <2> SUFFICES ASSUME NEW s \in DOMAIN sessions' PROVE Accounted(s)'
    OBVIOUS
  <2>1. s \in DOMAIN sessions /\ users' = users
    BY <1>10 DEF RevokeFails
  <2>2. /\ sessions[s] \in SessionRow
        /\ sessions'[s] = [sessions[s] EXCEPT !.excused = @ \/ sessions[s].user = req[r].user]
    BY <1>10, <2>1 DEF RevokeFails, TypeOK
  <2>3. /\ sessions'[s].user = sessions[s].user /\ sessions'[s].epoch = sessions[s].epoch
        /\ sessions'[s].excused = (sessions[s].excused \/ sessions[s].user = req[r].user)
    BY <2>2 DEF SessionRow
  <2>4. CASE sessions[s].user = req[r].user
    BY <2>3, <2>4 DEF Accounted
  <2>5. CASE sessions[s].user # req[r].user
    <3>1. BeingRevoked(sessions[s].user) => BeingRevoked(sessions[s].user)'
      BY <1>10, <2>3, <2>5 DEF RevokeFails, Finish, Become, BeingRevoked, TypeOK
    <3>2. Accounted(s)
      BY <2>1
    <3>3. QED
      BY <2>1, <2>3, <3>1, <3>2 DEF Accounted, BeingRevoked
  <2>6. QED
    BY <2>4, <2>5
<1>11. ASSUME NEW r \in Requests, NEW u \in Ids, ResetPassword(r, u) PROVE Goal
  <2>1. Become(r, Idle) /\ req[r].at # "revoking"
    BY <1>11 DEF ResetPassword, AdminRequest, Finish
  <2>2. \A s \in DOMAIN sessions' : /\ s \in DOMAIN sessions /\ sessions'[s] = sessions[s]
                                    /\ sessions[s].user # u
    BY <1>11 DEF ResetPassword, Without, SessionsOf
  <2>3. \A v \in DOMAIN users \ {u} : users'[v] = users[v]
    BY <1>11 DEF ResetPassword
  <2>4. QED
    BY <1>0, <2>1, <2>2, <2>3, AccountsKept
<1>12. ASSUME NEW r \in Requests, req[r].at # "revoking", NEW gone, Delete(r, gone) PROVE Goal
  <2>1. Become(r, Idle) /\ req[r].at # "revoking"
    BY <1>12 DEF Delete, Finish
  <2>2. \A s \in DOMAIN sessions' : /\ s \in DOMAIN sessions /\ sessions'[s] = sessions[s]
                                    /\ sessions[s].user \notin gone
    BY <1>12 DEF Delete, Without, SessionsOf
  <2>3. \A v \in DOMAIN users \ gone : users'[v] = users[v]
    BY <1>12 DEF Delete, Without
  <2>4. QED
    BY <1>0, <2>1, <2>2, <2>3, AccountsKept
<1>13. ASSUME NEW s \in DOMAIN sessions, Logout(s) PROVE Goal
  BY <1>13 DEF Logout, Without, Accounted, BeingRevoked
<1>14. CASE UNCHANGED vars
  BY <1>14 DEF vars, Accounted, BeingRevoked
<1>15. ASSUME NEW r \in Requests, NEW u \in Ids, Authenticate(r, u) PROVE Goal
  BY <1>1, <1>15 DEF Authenticate
<1>16. ASSUME NEW r \in Requests, NEW s \in DOMAIN sessions, Admit(r, s) PROVE Goal
  BY <1>1, <1>16 DEF Admit
<1>17. ASSUME NEW r \in Requests,
              RegistrationAllowed(r) \/ CheckPassword(r) \/ SetOpen(r) \/ Leave(r)
       PROVE  Goal
  BY <1>1, <1>17 DEF RegistrationAllowed, CheckPassword, SetOpen, Leave, AdminRequest, Finish
<1>18. ASSUME NEW r \in Requests, SignOutOthers(r) PROVE Goal
  BY <1>6, <1>18 DEF SignOutOthers, Finish
<1>19. ASSUME NEW r \in Requests, NEW asAdmin \in BOOLEAN, CreateUser(r, asAdmin) PROVE Goal
  BY <1>3, <1>19 DEF CreateUser, AdminRequest, Finish
<1>21. ASSUME NEW r \in Requests, NEW gone \in SUBSET DOMAIN users, BatchCounts(r, gone) PROVE Goal
  BY <1>1, <1>21 DEF BatchCounts, MayDelete, AdminRequest
<1>20. QED
  BY <1>2, <1>4, <1>5, <1>7, <1>8, <1>9, <1>10, <1>11, <1>12, <1>13, <1>14, <1>15, <1>16, <1>17,
     <1>18, <1>19, <1>21
  DEF Next, DeleteUser, AdminRequest, BatchCommits

\* A session outlives its user's sign-out only through a login that had read the user
\* before, or a disabling request cut off before its DELETE (Login, UpdateUser).
THEOREM Survivors == Spec => []OnlyRacesSurvive
<1>1. Init => OnlyRacesSurvive
  <2>1. Init => DOMAIN sessions = 1 .. 0 /\ 1 .. 0 = {}
    BY DEF Init
  <2>2. QED
    BY <2>1 DEF OnlyRacesSurvive
<1>2. TypeOK /\ OnlyRacesSurvive /\ [Next]_vars => OnlyRacesSurvive'
  BY SurvivorStep DEF OnlyRacesSurvive, Outlives, Accounted, BeingRevoked
<1>3. QED
  BY <1>1, <1>2, Typing, PTL DEF Spec

----------------------------------------------------------------------------
(* Administrators *)

\* A batch that has counted spares its caller; where the store is serial, it is the only
\* one, and its caller is still an administrator.
Alone(r) ==
  /\ req[r].user \in DOMAIN users /\ users[req[r].user].admin
  /\ \A q \in Requests \ {r} : req[q].at # "counted"

BatchesCount ==
  \A r \in Requests :
    req[r].at = "counted" => /\ req[r].user \notin req[r].gone /\ req[r].admin
                             /\ serial => Alone(r)

\* A step by which a request that has no batch under way goes on without one.
LEMMA CountsKept ==
  ASSUME TypeOK, BatchesCount, UNCHANGED serial, NEW r \in Requests, NEW x, Become(r, x),
         x.at # "counted", ~Held \/ UNCHANGED users \/ req[r].at = "counted"
  PROVE  BatchesCount'
<1> SUFFICES ASSUME NEW q \in Requests, req'[q].at = "counted"
             PROVE  /\ req'[q].user \notin req'[q].gone /\ req'[q].admin
                    /\ serial => Alone(q)'
  BY DEF BatchesCount
<1>1. q # r /\ req'[q] = req[q] /\ req'[r] = x
  BY DEF TypeOK, Become
<1>2. /\ req[q].user \notin req[q].gone /\ req[q].admin
      /\ serial => Alone(q)
  BY <1>1 DEF BatchesCount
<1>3. ASSUME serial PROVE Alone(q)'
  <2>1. Held /\ Alone(q) /\ req[r].at # "counted"
    BY <1>1, <1>2, <1>3 DEF Held, Alone
  <2>2. users' = users
    BY <2>1
  <2>3. \A p \in Requests \ {q} : req'[p].at # "counted"
    BY <1>1, <2>1 DEF Alone, TypeOK, Become
  <2>4. QED
    BY <1>1, <2>1, <2>2, <2>3 DEF Alone
<1>4. QED
  BY <1>1, <1>2, <1>3

\* Each step keeps what a batch has counted.
LEMMA CountStep == TypeOK /\ BatchesCount /\ [Next]_vars => BatchesCount'
<1> SUFFICES ASSUME TypeOK, BatchesCount, [Next]_vars PROVE BatchesCount'
  OBVIOUS
<1>0. serial' = serial /\ Idle.at # "counted"
  BY DEF Next, vars, Idle
<1>1. ASSUME NEW r \in Requests, BatchCommits(r) PROVE BatchesCount'
  BY <1>0, <1>1, CountsKept DEF BatchCommits, Delete, Finish
<1>2. ASSUME NEW r \in Requests, Leave(r) PROVE BatchesCount'
  BY <1>0, <1>2, CountsKept DEF Leave, Finish
<1>3. ASSUME ~Held, NEW r \in Requests, NEW gone \in SUBSET DOMAIN users, BatchCounts(r, gone)
      PROVE  BatchesCount'
  <2> DEFINE x == [Idle EXCEPT !.at = "counted", !.user = req[r].user, !.admin = TRUE,
                               !.gone = gone]
  <2>1. /\ req'[r] = x /\ users' = users /\ \A q \in Requests \ {r} : req'[q] = req[q]
        /\ req[r].user \notin gone /\ req[r].user \in DOMAIN users /\ users[req[r].user].admin
    BY <1>3 DEF BatchCounts, MayDelete, Become, TypeOK
  <2>2. x.at = "counted" /\ x.user = req[r].user /\ x.admin /\ x.gone = gone
    BY DEF Idle
  <2>3. serial => \A q \in Requests : req[q].at # "counted"
    BY <1>3 DEF Held
  <2> HIDE DEF x
  <2>4. serial => Alone(r)'
    BY <2>1, <2>2, <2>3 DEF Alone
  <2> SUFFICES ASSUME NEW q \in Requests, req'[q].at = "counted"
               PROVE  /\ req'[q].user \notin req'[q].gone /\ req'[q].admin
                      /\ serial => Alone(q)'
    BY <1>0 DEF BatchesCount
  <2>5. CASE q = r
    BY <2>1, <2>2, <2>4, <2>5
  <2>6. CASE q # r
    BY <2>1, <2>3, <2>6 DEF BatchesCount
  <2>7. QED
    BY <2>5, <2>6
<1>4. ASSUME ~Held, NEW r \in Requests, NEW x, Become(r, x), x.at # "counted" PROVE BatchesCount'
  BY <1>0, <1>4, CountsKept
<1>5. ASSUME ~Held, NEW r \in Requests, NEW u \in Ids, Authenticate(r, u) PROVE BatchesCount'
  <2>1. [Idle EXCEPT !.at = "authenticated", !.user = u, !.epoch = users[u].epoch].at # "counted"
    BY DEF Idle
  <2>2. QED
    BY <1>4, <1>5, <2>1 DEF Authenticate
<1>6. ASSUME ~Held, NEW r \in Requests,
             \/ CreateSession(r) \/ ChangePassword(r) \/ SignOutOthers(r) \/ Revoke(r)
             \/ RevokeFails(r) \/ SetOpen(r)
             \/ \E asAdmin \in BOOLEAN : CreateUser(r, asAdmin)
             \/ \E u \in Ids, asAdmin \in BOOLEAN : UpdateUser(r, u, asAdmin)
             \/ \E u \in Ids : ResetPassword(r, u) \/ DeleteUser(r, u)
      PROVE  BatchesCount'
  BY <1>0, <1>4, <1>6
  DEF CreateSession, ChangePassword, SignOutOthers, Revoke, RevokeFails, SetOpen, CreateUser,
      UpdateUser, ResetPassword, DeleteUser, Delete, Finish
<1>7. ASSUME ~Held, NEW r \in Requests, RegistrationAllowed(r) PROVE BatchesCount'
  <2>1. [Idle EXCEPT !.at = "mayRegister"].at # "counted"
    BY DEF Idle
  <2>2. QED
    BY <1>4, <1>7, <2>1 DEF RegistrationAllowed
<1>8. ASSUME ~Held, NEW r \in Requests, Register(r) PROVE BatchesCount'
  <2>1. [Idle EXCEPT !.at = "authenticated", !.user = lastUser'].at # "counted"
    BY DEF Idle
  <2>2. QED
    BY <1>4, <1>8, <2>1 DEF Register
<1>9. ASSUME ~Held, NEW r \in Requests, NEW s \in DOMAIN sessions, Admit(r, s) PROVE BatchesCount'
  <2> DEFINE u == sessions[s].user
  <2>1. [Idle EXCEPT !.at = "admitted", !.user = u, !.session = s,
                     !.admin = users[u].admin].at # "counted"
    BY DEF Idle
  <2>2. QED
    BY <1>4, <1>9, <2>1 DEF Admit
<1>10. ASSUME ~Held, NEW r \in Requests, CheckPassword(r) PROVE BatchesCount'
  <2>1. [req[r] EXCEPT !.at = "changing"].at # "counted"
    BY DEF TypeOK, Request
  <2>2. QED
    BY <1>4, <1>10, <2>1 DEF CheckPassword
<1>11. ASSUME ~Held, NEW r \in Requests, NEW u \in Ids, NEW asAdmin \in BOOLEAN,
              DisableUser(r, u, asAdmin)
       PROVE  BatchesCount'
  <2>1. [Idle EXCEPT !.at = "revoking", !.user = u].at # "counted"
    BY DEF Idle
  <2>2. QED
    BY <1>4, <1>11, <2>1 DEF DisableUser
<1>12. CASE UNCHANGED <<users, req>>
  BY <1>0, <1>12 DEF BatchesCount, Alone
<1>13. QED
  BY <1>1, <1>2, <1>3, <1>5, <1>6, <1>7, <1>8, <1>9, <1>10, <1>11, <1>12 DEF Next, vars, Logout

\* A request goes by a role its caller does not have any more.
StaleRole ==
  \E r \in Requests : ActsAsAdmin(r) /\ req'[r] # req[r] /\ req[r].user \notin AdminRows

\* A step that keeps the row of the caller of an administrator's request.
LEMMA CallerStays ==
  ASSUME TypeOK, NEW r \in Requests, ActsAsAdmin(r), NEW x, Become(r, x),
         x.at \notin {"admitted", "counted"},
         req[r].user \in AdminRows => req[r].user \in AdminRows'
  PROVE  AdminRows' # {} \/ StaleRole
<1>1. req'[r] = x /\ req[r].at \in {"admitted", "counted"}
  BY DEF TypeOK, Become, ActsAsAdmin
<1>2. QED
  BY <1>1 DEF StaleRole

\* The last administrator who can log in is only lost to a stale role.
LEMMA AdminStep ==
  TypeOK /\ BatchesCount /\ [Next]_vars => (AdminRows # {} => AdminRows' # {} \/ StaleRole)
<1> SUFFICES ASSUME TypeOK, BatchesCount, AdminRows # {}, [Next]_vars PROVE AdminRows' # {} \/ StaleRole
  OBVIOUS
<1> DEFINE Goal == AdminRows' # {} \/ StaleRole
<1>1. CASE users' = users
  BY <1>1 DEF AdminRows
<1>2. ASSUME \A u \in DOMAIN users :
               u \in DOMAIN users' /\ users'[u].admin = users[u].admin
                                   /\ users'[u].enabled = users[u].enabled
      PROVE  Goal
  BY <1>2 DEF AdminRows
<1>3. ASSUME NEW asAdmin \in BOOLEAN, NEW founder \in BOOLEAN, Insert(asAdmin, founder) PROVE Goal
  BY <1>2, <1>3, InsertTyped
<1>4. ASSUME NEW r \in Requests, Register(r) PROVE Goal
  <2>1. Insert(users = <<>>, users = <<>>) /\ (users = <<>>) \in BOOLEAN
    BY <1>4 DEF Register
  <2>2. QED
    BY <2>1, <1>3
<1>5. ASSUME NEW u, u \in DOMAIN users, users' = [users EXCEPT ![u].epoch = @ + 1] PROVE Goal
  BY <1>2, <1>5 DEF TypeOK, UserRow
<1>6. ASSUME NEW r \in Requests, ChangePassword(r) PROVE Goal
  BY <1>1, <1>5, <1>6 DEF ChangePassword
<1>7. ASSUME NEW r \in Requests, NEW u \in Ids, ResetPassword(r, u) PROVE Goal
  BY <1>5, <1>7 DEF ResetPassword
<1>8. ASSUME NEW r \in Requests, NEW u \in Ids, NEW asAdmin \in BOOLEAN, UpdateUser(r, u, asAdmin)
      PROVE  Goal
  <2>1. ActsAsAdmin(r) /\ Become(r, Idle) /\ Idle.at \notin {"admitted", "counted"}
    BY <1>8 DEF UpdateUser, MayChange, AdminRequest, ActsAsAdmin, Finish, Idle
  <2>2. ASSUME req[r].user \in AdminRows PROVE req[r].user \in AdminRows'
    BY <1>8, <2>2 DEF UpdateUser, MayChange, AdminRows, TypeOK, UserRow
  <2>3. QED
    BY <2>1, <2>2, CallerStays
<1>9. ASSUME NEW r \in Requests, NEW u \in Ids, NEW asAdmin \in BOOLEAN, DisableUser(r, u, asAdmin)
      PROVE  Goal
  <2> DEFINE x == [Idle EXCEPT !.at = "revoking", !.user = u]
  <2>1. ActsAsAdmin(r) /\ Become(r, x) /\ x.at \notin {"admitted", "counted"}
    BY <1>9, IdleTyped DEF DisableUser, MayChange, AdminRequest, ActsAsAdmin, Request
  <2>2. ASSUME req[r].user \in AdminRows PROVE req[r].user \in AdminRows'
    BY <1>9, <2>2 DEF DisableUser, MayChange, AdminRows
  <2>3. QED
    BY <2>1, <2>2, CallerStays
<1>10. ASSUME NEW r \in Requests, ActsAsAdmin(r), NEW gone, req[r].user \notin gone, Delete(r, gone)
       PROVE  Goal
  <2>1. Become(r, Idle) /\ Idle.at \notin {"admitted", "counted"}
    BY <1>10 DEF Delete, Finish, Idle
  <2>2. ASSUME req[r].user \in AdminRows PROVE req[r].user \in AdminRows'
    BY <1>10, <2>2 DEF Delete, Without, AdminRows
  <2>3. QED
    BY <1>10, <2>1, <2>2, CallerStays
<1>11. ASSUME NEW r \in Requests, NEW u \in Ids, DeleteUser(r, u) PROVE Goal
  BY <1>10, <1>11 DEF DeleteUser, AdminRequest, ActsAsAdmin
<1>12. ASSUME NEW r \in Requests, BatchCommits(r) PROVE Goal
  BY <1>10, <1>12 DEF BatchCommits, BatchesCount, ActsAsAdmin
<1>13. ASSUME NEW r \in Requests, NEW asAdmin \in BOOLEAN, CreateUser(r, asAdmin) PROVE Goal
  BY <1>3, <1>13 DEF CreateUser
<1>14. QED
  BY <1>1, <1>4, <1>6, <1>7, <1>8, <1>9, <1>11, <1>12, <1>13
  DEF Next, vars, Authenticate, CreateSession, RegistrationAllowed, Admit, CheckPassword,
      SignOutOthers, Revoke, RevokeFails, BatchCounts, SetOpen, Leave, Logout

\* A batch spares its caller, who is still an administrator unless somebody else has
\* committed since its snapshot, which only MySQL lets happen.
Spared(r) ==
  \/ \E u \in DOMAIN users' : users'[u].admin
  \/ ~serial /\ ~(req[r].user \in DOMAIN users /\ users[req[r].user].admin)

LEMMA BatchStep ==
  TypeOK /\ BatchesCount /\ [Next]_vars
    => \A r \in Requests :
         req[r].at = "counted" /\ req'[r] # req[r] /\ users' # users => Spared(r)
<1> SUFFICES ASSUME TypeOK, BatchesCount, [Next]_vars, NEW r \in Requests,
                    req[r].at = "counted", req'[r] # req[r], users' # users
             PROVE  Spared(r)
  OBVIOUS
<1>1. CASE BatchCommits(r)
  <2>1. /\ DOMAIN users' = DOMAIN users \ req[r].gone
        /\ \A u \in DOMAIN users' : users'[u] = users[u]
    BY <1>1 DEF BatchCommits, Delete, Without
  <2>2. req[r].user \notin req[r].gone /\ (serial => Alone(r))
    BY DEF BatchesCount
  <2>3. CASE req[r].user \in DOMAIN users /\ users[req[r].user].admin
    BY <2>1, <2>2, <2>3 DEF Spared
  <2>4. CASE ~(req[r].user \in DOMAIN users /\ users[req[r].user].admin)
    BY <2>2, <2>4 DEF Spared, Alone
  <2>5. QED
    BY <2>3, <2>4
<1>2. ASSUME NEW q \in Requests, NEW x, Become(q, x), req[q].at # "counted" PROVE FALSE
  BY <1>2 DEF Become, TypeOK
<1>3. ASSUME NEW q \in Requests, BatchCommits(q) PROVE q = r
  BY <1>3 DEF BatchCommits, Delete, Finish, Become, TypeOK
<1>4. ASSUME NEW q \in Requests, CreateSession(q) \/ Register(q) \/ ChangePassword(q) PROVE FALSE
  BY <1>2, <1>4 DEF CreateSession, Register, ChangePassword, Finish
<1>5. ASSUME NEW q \in Requests, NEW asAdmin \in BOOLEAN, CreateUser(q, asAdmin) PROVE FALSE
  BY <1>2, <1>5 DEF CreateUser, AdminRequest, Finish
<1>6. ASSUME NEW q \in Requests, NEW u \in Ids, NEW asAdmin \in BOOLEAN,
             UpdateUser(q, u, asAdmin) \/ DisableUser(q, u, asAdmin)
      PROVE  FALSE
  BY <1>2, <1>6 DEF UpdateUser, DisableUser, MayChange, AdminRequest, Finish
<1>7. ASSUME NEW q \in Requests, NEW u \in Ids, ResetPassword(q, u) \/ DeleteUser(q, u)
      PROVE  FALSE
  BY <1>2, <1>7 DEF ResetPassword, DeleteUser, Delete, AdminRequest, Finish
<1>8. QED
  BY <1>1, <1>3, <1>4, <1>5, <1>6, <1>7
  DEF Next, vars, Authenticate, RegistrationAllowed, Admit, CheckPassword, SignOutOthers, Revoke,
      RevokeFails, BatchCounts, SetOpen, Leave, Logout

\* The last administrator is lost to a stale role only, and a batch of any size leaves one
\* but under MySQL to such a role (MayChange's conditions in UpdateUser; BatchDeleteUsers).
THEOREM Administrators == Spec => AdminKept
<1>1. Init => BatchesCount
  BY DEF Init, Idle, BatchesCount
<1>2. TypeOK /\ BatchesCount /\ [Next]_vars
        => [AdminRows # {} /\ AdminRows' = {}
              => \E r \in Requests :
                    ActsAsAdmin(r) /\ req'[r] # req[r] /\ req[r].user \notin AdminRows]_vars
  BY AdminStep DEF StaleRole
<1>3. TypeOK /\ BatchesCount /\ [Next]_vars
        => [\A r \in Requests :
              req[r].at = "counted" /\ req'[r] # req[r] /\ users' # users
                => \/ \E u \in DOMAIN users' : users'[u].admin
                   \/ ~serial /\ ~(req[r].user \in DOMAIN users /\ users[req[r].user].admin)]_vars
  BY BatchStep DEF Spared
<1>4. TypeOK /\ BatchesCount /\ [Next]_vars => BatchesCount'
  BY CountStep
<1>5. QED
  BY <1>1, <1>2, <1>3, <1>4, Typing, PTL
  DEF Spec, AdminKept, AdminLostOnlyByStaleRole, BatchKeepsAdmin
============================================================================
