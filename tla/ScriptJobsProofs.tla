-------------------------- MODULE ScriptJobsProofs --------------------------
(***************************************************************************)
(* Proofs about ScriptJobs, for any number of requests, accounts, users    *)
(* and crons.                                                              *)
(***************************************************************************)
EXTENDS ScriptJobs, FiniteSetTheorems, TLAPS

----------------------------------------------------------------------------
(* The inductive invariant *)

Rows == [scope : SUBSET Accounts, on : BOOLEAN]
Catalogs == UNION {[ids -> Rows] : ids \in SUBSET Ids}
Request == [at : Stages, for : Purposes, acc : Accounts \cup {NoAccount},
            key : Keys \cup {NoAccount}, back : Owners \cup {NoAccount}, catalog : Catalogs,
            scope : SUBSET Accounts, id : 0 .. MaxCrons, old : SUBSET Ids, undone : BOOLEAN]

\* A request has seen only ids the panel has given.
Known(q) == DOMAIN q.catalog \subseteq 1 .. lastCron /\ q.old \subseteq 1 .. lastCron /\ q.id <= lastCron

TablesTyped ==
    /\ owner \in [Accounts -> Owners \cup {Gone}]
    /\ owners \in [Accounts -> SUBSET Owners]
    /\ lastCron \in 0 .. MaxCrons
    /\ job \in [Keys -> 0 .. lastCron]
    /\ DOMAIN cron \subseteq 1 .. lastCron /\ \A i \in DOMAIN cron : cron[i] \in Crons

\* The accounts a job of k may run, and must: those a user has had all along.
MayRun(k, scope) ==
    IF k \in Owners
    THEN /\ \A a \in scope : k \in owners[a]
         /\ \A a \in Accounts : owner[a] = k /\ owners[a] = {k} => a \in scope
    ELSE scope = {k}

Fitting == \A i \in DOMAIN cron : MayRun(cron[i].key, cron[i].scope)

Running(i) == i \in DOMAIN cron /\ cron[i].on

\* Stages of ensureUserJob and ensureAccountJob, and of those the ones with a cron in hand.
Ensures == {"ensure", "update", "forget", "create", "quiet", "record", "reread", "switchOn", "stop"}
InHand == {"update", "quiet", "record", "reread", "switchOn", "stop"}

\* What a request knows of the job it is about: the cron in hand was made for its key, the
\* accounts it has read are for that job to run, the crons to be stopped are accounts', and
\* the user who is healed and the one who gets the job have both owned the account read again.
OK(q) ==
    /\ q.at = "anchor" => q.for = "heal" /\ q.acc \in Accounts
    /\ q.at \in {"drop", "delete"} => q.for # "heal" /\ q.acc \in Accounts
    /\ q.at = "catalog" => /\ q.for \in {"enable", "run", "list"} /\ q.key \in Keys
                           /\ q.for = "list" => q.key \in Owners
    /\ q.at \in {"heal", "sync"} => q.for = "list" /\ q.key \in Owners
    /\ q.at \in Ensures => q.key \in Keys
    /\ q.for = "heal" => /\ q.at \in Ensures \cup {"anchor"} /\ q.back \in Owners
                         /\ q.acc \in Accounts /\ q.back \in owners[q.acc]
                         /\ q.at # "anchor" => q.key \in Owners /\ q.key \in owners[q.acc]
    /\ q.at = "stop" => q.for = "heal"
    /\ q.at \in InHand /\ q.id \in DOMAIN cron => cron[q.id].key = q.key
    /\ q.at \in {"update", "forget", "create"} => MayRun(q.key, q.scope)
    /\ \A i \in q.old \cap DOMAIN cron : cron[i].key \in Accounts
    /\ q.at = "stop" /\ ~q.undone => Running(q.id)

\* A cron that is still to be switched off is nobody else's: no row and no other request has it.
Apart == \A r \in Requests : req[r].at = "quiet" =>
    /\ req[r].id # 0
    /\ \A k \in Keys : job[k] # req[r].id
    /\ \A s \in Requests \ {r} : req[s].id # req[r].id

OwnersKnown == \A a \in Accounts : owner[a] \in Owners => owner[a] \in owners[a]

IInv ==
    /\ TablesTyped /\ req \in [Requests -> Request]
    /\ RecordsOwnCron /\ Fitting /\ OwnersKnown /\ Apart
    /\ \A r \in Requests : Known(req[r]) /\ OK(req[r])

----------------------------------------------------------------------------
(* Types *)

\* A request at rest.
LEMMA IdleTyped ==
  TablesTyped => /\ Idle \in Request /\ Known(Idle) /\ OK(Idle)
                 /\ Idle.at = "idle" /\ Idle.id = 0 /\ Idle.for = "list" /\ Idle.old = {}
                 /\ Idle.catalog = <<>>
<1> SUFFICES ASSUME TablesTyped PROVE Idle \in Request /\ Known(Idle) /\ OK(Idle)
  BY DEF Idle
<1>1. DOMAIN <<>> = {}
  <2>1. DOMAIN <<>> = 1 .. 0
    OBVIOUS
  <2>2. 1 .. 0 = {}
    OBVIOUS
  <2>3. QED
    BY <2>1, <2>2
<1>2. <<>> \in Catalogs
  <2>1. <<>> \in [{} -> Rows]
    BY <1>1
  <2>2. QED
    BY <2>1 DEF Catalogs
<1>3. Idle \in Request
  BY <1>2, JobsAssumption DEF Idle, Request, Stages, Purposes
<1>4. QED
  BY <1>1, <1>3 DEF Idle, Known, OK, TablesTyped, Ensures, InHand

\* The fields of a request.
LEMMA Fields ==
  ASSUME NEW q \in Request
  PROVE  /\ q.at \in Stages /\ q.for \in Purposes /\ q.acc \in Accounts \cup {NoAccount}
         /\ q.key \in Keys \cup {NoAccount} /\ q.back \in Owners \cup {NoAccount}
         /\ q.catalog \in Catalogs /\ q.scope \subseteq Accounts
         /\ q.id \in 0 .. MaxCrons /\ q.id \in Nat /\ q.old \subseteq Ids /\ q.undone \in BOOLEAN
BY JobsAssumption DEF Request

\* What a request has seen of a cron.
LEMMA CatalogRows ==
  ASSUME NEW f \in Catalogs
  PROVE  DOMAIN f \subseteq Ids /\ \A i \in DOMAIN f : f[i] \in Rows
<1>1. PICK ids \in SUBSET Ids : f \in [ids -> Rows]
  BY DEF Catalogs
<1>2. QED
  BY <1>1

\* The ids the panel has given so far.
LEMMA Given ==
  TablesTyped => /\ lastCron \in Nat /\ lastCron <= MaxCrons /\ 1 .. lastCron \subseteq Ids
                 /\ \A k \in Keys : job[k] \in 0 .. MaxCrons /\ job[k] <= lastCron /\ job[k] \in Nat
BY JobsAssumption DEF TablesTyped, Ids

----------------------------------------------------------------------------
(* What a step keeps *)

\* Crons keep their keys, new ones get new ids, no owner of an account is forgotten, and
\* nobody comes to have had an account all along.
Grows ==
    /\ lastCron' \in lastCron .. MaxCrons
    /\ \A a \in Accounts : /\ owners[a] \subseteq owners'[a]
                           /\ \A k \in Owners : owner'[a] = k /\ owners'[a] = {k}
                                                 => owner[a] = k /\ owners[a] = {k}
    /\ \A i \in DOMAIN cron' :
          IF i \in 1 .. lastCron THEN i \in DOMAIN cron /\ cron'[i].key = cron[i].key
          ELSE i \in lastCron + 1 .. lastCron'

\* A request p that is q, but somebody may have undone its work.
Matches(p, q) ==
    /\ p.at = q.at /\ p.for = q.for /\ p.acc = q.acc /\ p.key = q.key /\ p.back = q.back
    /\ p.catalog = q.catalog /\ p.scope = q.scope /\ p.id = q.id /\ p.old = q.old
    /\ q.undone => p.undone

\* What a request knows stays true as long as its cron runs.
LEMMA OthersKept ==
  ASSUME TablesTyped, Grows, NEW d \in Requests, req[d] \in Request, req'[d] \in Request,
         Known(req[d]), OK(req[d]), Matches(req'[d], req[d]),
         req'[d].at = "stop" /\ ~req'[d].undone => Running(req[d].id)'
  PROVE  Known(req[d])' /\ OK(req[d])'
<1>1. lastCron \in Nat /\ lastCron' \in Nat /\ lastCron <= lastCron'
  BY JobsAssumption DEF Grows, TablesTyped
<1>2. \A i \in Ids : i <= lastCron /\ i \in DOMAIN cron'
                        => i \in DOMAIN cron /\ cron'[i].key = cron[i].key
  BY <1>1 DEF Grows, Ids
<1>3. Known(req[d])'
  BY <1>1, Fields DEF Known, Matches
<1>4. req'[d].at \in InHand /\ req'[d].id \in DOMAIN cron' => cron'[req'[d].id].key = req'[d].key
  <2> SUFFICES ASSUME req[d].at \in InHand, req[d].id \in DOMAIN cron'
               PROVE  cron'[req[d].id].key = req[d].key
    BY DEF Matches
  <2>1. req[d].id \in 0 .. MaxCrons /\ req[d].id <= lastCron
    BY <1>1, Fields DEF Known
  <2>2. req[d].id # 0
    BY <1>1 DEF Grows
  <2>3. QED
    BY <1>2, <2>1, <2>2, JobsAssumption DEF OK, Ids
<1>5. \A i \in req'[d].old \cap DOMAIN cron' : cron'[i].key \in Accounts
  <2>1. \A i \in req[d].old : i \in Ids /\ i <= lastCron
    BY <1>1, Fields DEF Known
  <2>2. QED
    BY <1>2, <2>1 DEF OK, Matches
<1>6. MayRun(req[d].key, req[d].scope) => MayRun(req[d].key, req[d].scope)'
  <2>1. req[d].scope \subseteq Accounts /\ req'[d].key = req[d].key /\ req'[d].scope = req[d].scope
    BY Fields DEF Matches
  <2>2. QED
    BY <2>1 DEF MayRun, Grows
<1>7. req[d].for = "heal" => /\ req[d].acc \in Accounts /\ req[d].back \in owners'[req[d].acc]
                             /\ req[d].at # "anchor" => req[d].key \in owners'[req[d].acc]
  BY DEF OK, Grows
<1>8. QED
  BY <1>3, <1>4, <1>5, <1>6, <1>7 DEF OK, Matches, Running

\* So do the properties of the tables, when rows are cleared or name crons of their own.
LEMMA TablesKept ==
  ASSUME IInv, TablesTyped', Grows,
         \A k \in Keys : \/ job'[k] \in {0, job[k]}
                         \/ job'[k] \in DOMAIN cron' => cron'[job'[k]].key = k,
         \A i \in DOMAIN cron' : \/ i \in DOMAIN cron /\ cron'[i].scope = cron[i].scope
                                 \/ MayRun(cron[i].key, cron[i].scope)'
  PROVE  RecordsOwnCron' /\ Fitting'
<1>1. lastCron \in Nat /\ DOMAIN cron' \subseteq Nat /\ 0 \notin DOMAIN cron'
  BY JobsAssumption DEF IInv, TablesTyped
<1>2. \A i \in DOMAIN cron' \cap DOMAIN cron : cron'[i].key = cron[i].key
  BY <1>1 DEF IInv, TablesTyped, Grows
<1>3. RecordsOwnCron'
  <2> SUFFICES ASSUME NEW k \in Keys, job'[k] \in DOMAIN cron' PROVE cron'[job'[k]].key = k
    BY DEF RecordsOwnCron
  <2>1. CASE job'[k] = job[k]
    <3>1. job[k] \in 1 .. lastCron
      BY <1>1, <2>1, Given DEF IInv
    <3>2. job[k] \in DOMAIN cron /\ cron'[job[k]].key = cron[job[k]].key
      BY <2>1, <3>1 DEF Grows
    <3>3. QED
      BY <2>1, <3>2 DEF IInv, RecordsOwnCron
  <2>2. QED
    BY <1>1, <2>1
<1>4. Fitting'
  <2> SUFFICES ASSUME NEW i \in DOMAIN cron' PROVE MayRun(cron[i].key, cron[i].scope)'
    BY DEF Fitting
  <2>1. CASE i \in DOMAIN cron /\ cron'[i].scope = cron[i].scope
    <3>1. cron'[i].key = cron[i].key /\ cron[i].scope \subseteq Accounts
      BY <1>2, <2>1 DEF IInv, TablesTyped, Crons
    <3>2. MayRun(cron[i].key, cron[i].scope)
      BY <2>1 DEF IInv, Fitting
    <3>3. QED
      BY <2>1, <3>1, <3>2 DEF MayRun, Grows
  <2>2. QED
    BY <2>1
<1>5. QED
  BY <1>3, <1>4

\* No request or row comes to share a new cron when ids are only passed on.
LEMMA ApartKept ==
  ASSUME IInv,
         \A d \in Requests :
            \/ req'[d].at = req[d].at /\ req'[d].id = req[d].id
            \/ req'[d].at # "quiet" /\ req'[d].id \in {0, req[d].id} \cup {job[k] : k \in Keys},
         \A k \in Keys : \/ job'[k] \in {0, job[k]}
                         \/ \E s \in Requests : req[s].at # "quiet" /\ job'[k] = req[s].id
  PROVE  Apart'
<1> SUFFICES ASSUME NEW d \in Requests, req'[d].at = "quiet"
             PROVE  /\ req'[d].id # 0
                    /\ \A k \in Keys : job'[k] # req'[d].id
                    /\ \A s \in Requests \ {d} : req'[s].id # req'[d].id
  BY DEF Apart
<1>1. req[d].at = "quiet" /\ req'[d].id = req[d].id
  OBVIOUS
<1>2. /\ req[d].id # 0
      /\ \A k \in Keys : job[k] # req[d].id
      /\ \A s \in Requests \ {d} : req[s].id # req[d].id
  BY <1>1 DEF IInv, Apart
<1>3. \A k \in Keys : job'[k] # req[d].id
  BY <1>1, <1>2
<1>4. \A s \in Requests \ {d} : req'[s].id # req[d].id
  BY <1>2
<1>5. QED
  BY <1>1, <1>2, <1>3, <1>4

\* A request that only reads goes on with what it has read.
LEMMA ReadStep ==
  ASSUME IInv, NEW r \in Requests, NEW x \in Request, Become(r, x),
         UNCHANGED <<owner, owners, job, cron, lastCron>>, Known(x), OK(x),
         x.at # "quiet", x.id \in {0, req[r].id} \cup {job[k] : k \in Keys}
  PROVE  IInv'
<1>1. /\ req' \in [Requests -> Request] /\ req'[r] = x
      /\ \A d \in Requests \ {r} : req'[d] = req[d]
  BY DEF IInv, Become
<1>2. Apart'
  BY <1>1, ApartKept
<1>3. TablesTyped' /\ RecordsOwnCron' /\ Fitting' /\ OwnersKnown'
  BY DEF IInv, TablesTyped, RecordsOwnCron, Fitting, MayRun, OwnersKnown
<1>4. \A q \in Request : (Known(q)' <=> Known(q)) /\ (OK(q)' <=> OK(q))
  BY DEF Known, OK, Running, MayRun
<1>5. ASSUME NEW d \in Requests PROVE (Known(req[d]) /\ OK(req[d]))'
  <2>1. req'[d] \in Request /\ Known(req'[d]) /\ OK(req'[d])
    BY <1>1 DEF IInv
  <2>2. QED
    BY <1>4, <2>1
<1>6. QED
  BY <1>1, <1>2, <1>3, <1>5 DEF IInv

\* A step that changes the tables: everything its invariant needs.
LEMMA TableStep ==
  ASSUME IInv, TablesTyped', Grows, req' \in [Requests -> Request], OwnersKnown', Apart',
         \A k \in Keys : \/ job'[k] \in {0, job[k]}
                         \/ job'[k] \in DOMAIN cron' => cron'[job'[k]].key = k,
         \A i \in DOMAIN cron' : \/ i \in DOMAIN cron /\ cron'[i].scope = cron[i].scope
                                 \/ MayRun(cron[i].key, cron[i].scope)',
         \A d \in Requests :
            \/ Known(req[d])' /\ OK(req[d])'
            \/ /\ Matches(req'[d], req[d])
               /\ req'[d].at = "stop" /\ ~req'[d].undone => Running(req[d].id)'
  PROVE  IInv'
<1>1. RecordsOwnCron' /\ Fitting'
  BY TablesKept
<1>2. ASSUME NEW d \in Requests PROVE (Known(req[d]) /\ OK(req[d]))'
  <2>1. CASE Known(req[d])' /\ OK(req[d])'
    BY <2>1
  <2>2. CASE /\ Matches(req'[d], req[d])
             /\ req'[d].at = "stop" /\ ~req'[d].undone => Running(req[d].id)'
    <3>1. req[d] \in Request /\ req'[d] \in Request /\ Known(req[d]) /\ OK(req[d])
      BY DEF IInv
    <3>2. QED
      BY <2>2, <3>1, OthersKept DEF IInv
  <2>3. QED
    BY <2>1, <2>2
<1>3. QED
  BY <1>1, <1>2 DEF IInv

----------------------------------------------------------------------------
(* The steps of a request that change none of the tables *)

\* What the invariant says of one request.
LEMMA Parts ==
  ASSUME IInv, NEW r \in Requests
  PROVE  /\ TablesTyped /\ req[r] \in Request /\ Known(req[r]) /\ OK(req[r])
         /\ \A k \in Keys : job[k] \in Nat /\ job[k] <= lastCron /\ job[k] \in 0 .. MaxCrons
         /\ \A k \in Keys : job[k] \in DOMAIN cron => cron[job[k]].key = k
         /\ \A a \in Accounts : \/ owner[a] = Gone
                                \/ owner[a] \in Owners /\ owner[a] \in owners[a]
         /\ Owners \subseteq Keys /\ Accounts \subseteq Keys
         /\ \A a \in Accounts : a \notin Owners
<1>1. TablesTyped /\ req[r] \in Request /\ Known(req[r]) /\ OK(req[r])
  BY DEF IInv
<1>2. \A k \in Keys : job[k] \in DOMAIN cron => cron[job[k]].key = k
  BY DEF IInv, RecordsOwnCron
<1>3. \A a \in Accounts : owner[a] = Gone \/ (owner[a] \in Owners /\ owner[a] \in owners[a])
  BY <1>1 DEF IInv, OwnersKnown, TablesTyped
<1>4. QED
  BY <1>1, <1>2, <1>3, Given, JobsAssumption DEF Keys

\* A request resolves the account.
LEMMA BeginStep ==
  ASSUME IInv, NEW r \in Requests, NEW a \in Accounts, NEW for \in {"enable", "run", "list"},
         Begin(r, a, for)
  PROVE  IInv'
<1> DEFINE x == [Idle EXCEPT !.at = "catalog", !.for = for,
                             !.key = IF for = "run" THEN a ELSE owner[a]]
<1>1. owner[a] \in Owners /\ owner[a] \in Keys /\ a \in Keys
  BY Parts DEF Begin
<1>2. x \in Request
  <2>1. Idle \in Request /\ (IF for = "run" THEN a ELSE owner[a]) \in Keys /\ for \in Purposes
    BY <1>1, Parts, IdleTyped DEF Purposes
  <2>2. QED
    BY <2>1 DEF Request, Stages
<1>3. x.at = "catalog" /\ x.for = for /\ x.key = (IF for = "run" THEN a ELSE owner[a])
      /\ x.id = 0 /\ x.old = {} /\ x.catalog = <<>> /\ Known(x)
  BY Parts, IdleTyped DEF Request, Known
<1>4. OK(x)
  BY <1>1, <1>3 DEF OK, Ensures, InHand
<1>5. QED
  BY <1>2, <1>3, <1>4, ReadStep DEF Begin

\* The crons on the panel are listed.
LEMMA ReadCatalogStep ==
  ASSUME IInv, NEW r \in Requests, ReadCatalog(r)
  PROVE  IInv'
<1> DEFINE list == req[r].for = "list"
           seen == [i \in DOMAIN cron |-> [scope |-> IF list THEN cron[i].scope ELSE {},
                                           on |-> list /\ cron[i].on]]
           x == [req[r] EXCEPT !.at = IF list THEN "heal" ELSE "ensure", !.catalog = seen]
<1>1. TablesTyped /\ req[r] \in Request /\ Known(req[r]) /\ OK(req[r]) /\ req[r].at = "catalog"
  BY Parts DEF ReadCatalog
<1>2. seen \in Catalogs
  <2>1. \A i \in DOMAIN cron : cron[i].scope \subseteq Accounts /\ cron[i].on \in BOOLEAN
    BY <1>1 DEF TablesTyped, Crons
  <2>2. seen \in [DOMAIN cron -> Rows]
    BY <2>1 DEF Rows
  <2>3. DOMAIN cron \subseteq Ids
    BY <1>1, Given DEF TablesTyped
  <2>4. QED
    BY <2>2, <2>3 DEF Catalogs
<1>3. DOMAIN seen \subseteq 1 .. lastCron
  BY <1>1 DEF TablesTyped
<1> HIDE DEF seen
<1>4. x \in Request /\ x.id = req[r].id /\ x.at = (IF list THEN "heal" ELSE "ensure")
      /\ x.for = req[r].for /\ x.key = req[r].key /\ x.old = req[r].old /\ x.catalog = seen
  BY <1>1, <1>2 DEF Request, Stages
<1>5. Known(x) /\ OK(x)
  BY <1>1, <1>3, <1>4 DEF Known, OK, Ensures, InHand
<1>6. Become(r, x) /\ UNCHANGED <<owner, owners, job, cron, lastCron>>
  BY DEF ReadCatalog, seen
<1>7. x.at # "quiet"
  BY <1>4
<1>8. QED
  BY <1>4, <1>5, <1>6, <1>7, ReadStep

\* A request, or the healing within it, is given up.
LEMMA AfterStep ==
  ASSUME IInv, NEW r \in Requests, After(r), UNCHANGED <<owner, owners, job, cron, lastCron>>
  PROVE  IInv'
<1> DEFINE x == [Idle EXCEPT !.at = "sync", !.key = req[r].back, !.catalog = req[r].catalog]
<1>1. TablesTyped /\ req[r] \in Request /\ Known(req[r]) /\ OK(req[r]) /\ Owners \subseteq Keys
  BY Parts
<1>2. CASE req[r].for = "heal"
  <2>1. req[r].back \in Owners /\ req[r].catalog \in Catalogs
    BY <1>1, <1>2, Fields DEF OK
  <2>2. x \in Request /\ x.at = "sync" /\ x.for = "list" /\ x.key = req[r].back /\ x.id = 0
        /\ x.old = {} /\ x.catalog = req[r].catalog
    BY <1>1, <2>1, IdleTyped DEF Request, Stages
  <2>3. Known(x) /\ OK(x)
    BY <1>1, <2>1, <2>2, JobsAssumption DEF Known, OK, Ensures, InHand, TablesTyped
  <2>4. QED
    BY <1>2, <2>2, <2>3, ReadStep DEF After
<1>3. CASE req[r].for # "heal"
  BY <1>1, <1>3, IdleTyped, ReadStep DEF After, Finish
<1>4. QED
  BY <1>2, <1>3

\* The enabled account jobs of the owner are found, or none.
LEMMA HealStep ==
  ASSUME IInv, NEW r \in Requests, Heal(r)
  PROVE  IInv'
<1> DEFINE q == req[r]
           old == {job[a] : a \in Owned(q.key)} \cap On(q.catalog)
           x == [q EXCEPT !.at = "sync"]
<1>1. q \in Request /\ Known(q) /\ OK(q) /\ q.at = "heal" /\ q.for = "list" /\ q.key \in Owners
  BY Parts DEF Heal, OK
<1>2. old \subseteq Ids /\ old \subseteq 1 .. lastCron
  BY <1>1, Fields, CatalogRows DEF Known, On
<1>3. \A i \in old \cap DOMAIN cron : cron[i].key \in Accounts
  BY Parts DEF Owned
<1> HIDE DEF old
<1>4. CASE Become(r, x) /\ UNCHANGED <<owner, owners, job, cron, lastCron>>
  <2>1. x \in Request /\ x.at = "sync" /\ x.for = q.for /\ x.key = q.key /\ x.id = q.id
        /\ x.old = q.old /\ x.catalog = q.catalog
    BY <1>1 DEF Request, Stages
  <2>2. Known(x) /\ OK(x)
    BY <1>1, <2>1 DEF Known, OK, Ensures, InHand
  <2>3. QED
    BY <1>4, <2>1, <2>2, ReadStep
<1>5. ASSUME NEW a \in Owned(q.key), UNCHANGED <<owner, owners, job, cron, lastCron>>,
             Become(r, [q EXCEPT !.at = "anchor", !.for = "heal", !.acc = a, !.back = q.key,
                                 !.old = old])
      PROVE  IInv'
  <2> DEFINE y == [q EXCEPT !.at = "anchor", !.for = "heal", !.acc = a, !.back = q.key, !.old = old]
  <2>1. a \in Accounts /\ q.key \in owners[a]
    <3>1. a \in Accounts /\ owner[a] = q.key
      BY DEF Owned
    <3>2. QED
      BY <1>1, <3>1, Parts, JobsAssumption
  <2>2. y \in Request /\ y.at = "anchor" /\ y.for = "heal" /\ y.acc = a /\ y.back = q.key
        /\ q.key \in owners[a] /\ y.id = q.id /\ y.old = old /\ y.catalog = q.catalog
    BY <1>1, <1>2, <2>1 DEF Request, Stages, Purposes
  <2>3. Known(y) /\ OK(y)
    BY <1>1, <1>2, <1>3, <2>1, <2>2 DEF Known, OK, Ensures, InHand
  <2>4. QED
    BY <1>5, <2>2, <2>3, ReadStep
<1>6. QED
  BY <1>4, <1>5 DEF Heal, old

\* The account of the healing is read again.
LEMMA AnchorStep ==
  ASSUME IInv, NEW r \in Requests, Anchor(r)
  PROVE  IInv'
<1> DEFINE q == req[r]
           x == [q EXCEPT !.at = "ensure", !.key = owner[q.acc]]
<1>1. q \in Request /\ Known(q) /\ OK(q) /\ q.at = "anchor" /\ q.for = "heal" /\ q.acc \in Accounts
  BY Parts DEF Anchor, OK
<1>2. CASE owner[q.acc] = Gone
  BY <1>2, AfterStep DEF Anchor
<1>3. CASE owner[q.acc] # Gone
  <2>1. owner[q.acc] \in Owners /\ owner[q.acc] \in Keys /\ owner[q.acc] \in owners[q.acc]
    BY <1>1, <1>3, Parts
  <2>2. x \in Request /\ x.at = "ensure" /\ x.for = "heal" /\ x.key = owner[q.acc]
        /\ x.acc = q.acc /\ x.back = q.back /\ x.id = q.id /\ x.old = q.old /\ x.catalog = q.catalog
    BY <1>1, <2>1 DEF Request, Stages
  <2>3. Known(x) /\ OK(x)
    BY <1>1, <2>1, <2>2 DEF Known, OK, Ensures, InHand
  <2>4. QED
    BY <1>3, <2>2, <2>3, ReadStep DEF Anchor
<1>4. QED
  BY <1>2, <1>3

\* The synchronisation updates the owner's cron, or has nothing to do.
LEMMA SyncStep ==
  ASSUME IInv, NEW r \in Requests, Sync(r)
  PROVE  IInv'
<1> DEFINE q == req[r]
           id == job[q.key]
           scope == Owned(q.key)
           x == [q EXCEPT !.at = "update", !.for = "sync", !.id = id, !.catalog = <<>>,
                          !.scope = scope]
<1>1. q \in Request /\ Known(q) /\ OK(q) /\ q.key \in Owners /\ q.key \in Keys
  BY Parts DEF Sync, OK
<1>2. CASE Finish(r)
  BY <1>2, Parts, IdleTyped, ReadStep DEF Finish, Sync
<1>3. CASE Become(r, x)
  <2>1. /\ scope \subseteq Accounts /\ MayRun(q.key, scope)
        /\ id \in 0 .. MaxCrons /\ id <= lastCron
        /\ <<>> \in Catalogs /\ DOMAIN <<>> \subseteq 1 .. lastCron
    <3>1. \A a \in scope : a \in Accounts /\ q.key \in owners[a]
      BY <1>1, Parts, JobsAssumption DEF Owned
    <3>2. MayRun(q.key, scope)
      BY <1>1, <3>1 DEF MayRun, Owned
    <3>3. <<>> \in Catalogs /\ DOMAIN <<>> \subseteq 1 .. lastCron
      BY Parts, IdleTyped DEF Request, Known
    <3>4. QED
      BY <1>1, <3>1, <3>2, <3>3, Parts
  <2>2. x \in Request /\ x.at = "update" /\ x.for = "sync" /\ x.key = q.key /\ x.id = id
        /\ x.old = q.old /\ x.catalog = <<>> /\ x.scope = scope
    BY <1>1, <2>1 DEF Request, Stages, Purposes
  <2>3. Known(x)
    BY <1>1, <2>1, <2>2 DEF Known
  <2>4. OK(x)
    BY <1>1, <2>1, <2>2, Parts DEF OK, Ensures, InHand
  <2>5. QED
    BY <1>1, <1>3, <2>2, <2>3, <2>4, ReadStep DEF Sync
<1>4. QED
  BY <1>2, <1>3 DEF Sync

\* The accounts and the job are read.
LEMMA EnsureStep ==
  ASSUME IInv, NEW r \in Requests, Ensure(r)
  PROVE  IInv'
<1> DEFINE q == req[r]
           id == job[q.key]
           at == IF id \in DOMAIN q.catalog THEN "update" ELSE IF id = 0 THEN "create" ELSE "forget"
           catalog == IF q.for = "heal" THEN q.catalog ELSE <<>>
           x == [q EXCEPT !.at = at, !.id = id, !.scope = Scope(q.key), !.catalog = catalog]
<1>1. q \in Request /\ Known(q) /\ OK(q) /\ q.at = "ensure" /\ q.key \in Keys
  BY Parts DEF Ensure, OK, Ensures
<1>2. CASE Scope(q.key) = {}
  BY <1>2, AfterStep DEF Ensure
<1>3. CASE Scope(q.key) # {}
  <2>1. /\ Scope(q.key) \subseteq Accounts /\ MayRun(q.key, Scope(q.key))
        /\ id \in 0 .. MaxCrons /\ id <= lastCron
    <3>1. \A a \in Owned(q.key) : a \in Accounts /\ (q.key \in Owners => q.key \in owners[a])
      BY <1>1, Parts, JobsAssumption DEF Owned
    <3>2. Scope(q.key) \subseteq Accounts /\ MayRun(q.key, Scope(q.key))
      BY <1>1, <3>1 DEF Scope, MayRun, Keys, Owned
    <3>3. QED
      BY <1>1, <3>2, Parts
  <2>2. catalog \in Catalogs /\ DOMAIN catalog \subseteq 1 .. lastCron
    BY <1>1, Parts, IdleTyped DEF Request, Known
  <2>3. at \in {"update", "create", "forget"}
    OBVIOUS
  <2> HIDE DEF at, catalog
  <2>4. x \in Request /\ x.at = at /\ x.for = q.for /\ x.key = q.key /\ x.back = q.back /\ x.acc = q.acc
        /\ x.id = id /\ x.old = q.old /\ x.catalog = catalog /\ x.scope = Scope(q.key)
    BY <1>1, <2>1, <2>2, <2>3 DEF Request, Stages
  <2>5. Known(x)
    BY <1>1, <2>1, <2>2, <2>4 DEF Known
  <2>6. OK(x)
    BY <1>1, <2>1, <2>3, <2>4, Parts DEF OK, Ensures, InHand
  <2>7. Become(r, x) /\ UNCHANGED <<owner, owners, job, cron, lastCron>>
    BY <1>3 DEF Ensure, JobOf, at, catalog
  <2>8. QED
    BY <1>1, <2>3, <2>4, <2>5, <2>6, <2>7, ReadStep
<1>4. QED
  BY <1>2, <1>3

\* The row is read again.
LEMMA RereadStep ==
  ASSUME IInv, NEW r \in Requests, Reread(r)
  PROVE  IInv'
<1> DEFINE q == req[r]
           id == job[q.key]
           x == [q EXCEPT !.at = "switchOn", !.id = id]
<1>1. q \in Request /\ Known(q) /\ OK(q) /\ q.at = "reread" /\ q.key \in Keys
  BY Parts DEF Reread, OK, Ensures
<1>2. CASE id = 0
  BY <1>2, AfterStep DEF Reread
<1>3. CASE id # 0
  <2>1. id \in 0 .. MaxCrons /\ id <= lastCron /\ (id \in DOMAIN cron => cron[id].key = q.key)
    BY <1>1, Parts
  <2>2. /\ x \in Request /\ x.at = "switchOn" /\ x.for = q.for /\ x.key = q.key /\ x.back = q.back
        /\ x.acc = q.acc /\ x.id = id /\ x.old = q.old /\ x.catalog = q.catalog
    BY <1>1, <2>1 DEF Request, Stages
  <2>3. Known(x)
    BY <1>1, <2>1, <2>2 DEF Known
  <2>4. OK(x)
    BY <1>1, <2>1, <2>2 DEF OK, Ensures, InHand
  <2>5. Become(r, x) /\ UNCHANGED <<owner, owners, job, cron, lastCron>>
    BY <1>3 DEF Reread
  <2>6. QED
    BY <1>1, <2>2, <2>3, <2>4, <2>5, ReadStep
<1>4. QED
  BY <1>2, <1>3

\* The job to be switched off is read.
LEMMA DisableStep ==
  ASSUME IInv, NEW r \in Requests, NEW a \in Accounts, Disable(r, a)
  PROVE  IInv'
<1> DEFINE x == [Idle EXCEPT !.at = "switchOff", !.id = job[owner[a]]]
<1>1. owner[a] \in Keys /\ job[owner[a]] \in 0 .. MaxCrons /\ job[owner[a]] <= lastCron
  BY Parts DEF Disable
<1>2. x \in Request /\ x.at = "switchOff" /\ x.for = "list" /\ x.id = job[owner[a]] /\ x.old = {}
      /\ x.catalog = <<>>
  BY <1>1, Parts, IdleTyped DEF Request, Stages
<1>3. Known(x) /\ OK(x)
  BY <1>1, <1>2, Parts, IdleTyped DEF Known, OK, Ensures, InHand
<1>4. QED
  BY <1>1, <1>2, <1>3, ReadStep DEF Disable

\* The job of the account to be deleted is read.
LEMMA BeginDeleteStep ==
  ASSUME IInv, NEW r \in Requests, NEW a \in Accounts, BeginDelete(r, a)
  PROVE  IInv'
<1> DEFINE x == [Idle EXCEPT !.at = "drop", !.acc = a, !.id = job[a]]
<1>1. a \in Keys /\ job[a] \in 0 .. MaxCrons /\ job[a] <= lastCron
  BY Parts
<1>2. x \in Request /\ x.at = "drop" /\ x.for = "list" /\ x.acc = a /\ x.id = job[a] /\ x.old = {}
      /\ x.catalog = <<>>
  BY <1>1, Parts, IdleTyped DEF Request, Stages
<1>3. Known(x) /\ OK(x)
  BY <1>1, <1>2, Parts, IdleTyped DEF Known, OK, Ensures, InHand
<1>4. QED
  BY <1>1, <1>2, <1>3, ReadStep DEF BeginDelete

----------------------------------------------------------------------------
(* The calls of the panel *)

\* A call that changes crons but makes none.
LEMMA PanelKeeps ==
  ASSUME IInv, UNCHANGED <<owner, owners, job, lastCron>>,
         DOMAIN cron' \subseteq DOMAIN cron,
         \A i \in DOMAIN cron' : cron'[i] \in Crons /\ cron'[i].key = cron[i].key
  PROVE  TablesTyped' /\ Grows /\ OwnersKnown'
<1>1. TablesTyped /\ OwnersKnown /\ lastCron \in Nat /\ MaxCrons \in Nat
  BY Given, JobsAssumption DEF IInv
<1>2. TablesTyped' /\ OwnersKnown'
  BY <1>1 DEF TablesTyped, OwnersKnown
<1>3. lastCron' \in lastCron .. MaxCrons
  BY <1>1 DEF TablesTyped
<1>4. Grows
  BY <1>1, <1>3 DEF Grows, TablesTyped
<1>5. QED
  BY <1>2, <1>4

\* A request that goes on with the cron in hand, or is done, after such a call.
LEMMA PanelStep ==
  ASSUME IInv, NEW r \in Requests, NEW x \in Request, Become(r, x),
         UNCHANGED <<owner, owners, job, lastCron>>, DOMAIN cron' \subseteq DOMAIN cron,
         \A i \in DOMAIN cron' : cron'[i] \in Crons /\ cron'[i].key = cron[i].key,
         \A i \in DOMAIN cron' : \/ cron'[i].scope = cron[i].scope
                                 \/ MayRun(cron[i].key, cron[i].scope)',
         Known(req[r])', OK(req[r])', x.at # "quiet", x.id \in {0, req[r].id},
         \A d \in Requests \ {r} :
            req[d].at = "stop" /\ ~req[d].undone /\ Running(req[d].id) => Running(req[d].id)'
  PROVE  IInv'
<1>1. /\ req' \in [Requests -> Request] /\ req'[r] = x
      /\ \A d \in Requests \ {r} : req'[d] = req[d]
  BY DEF IInv, Become
<1>2. Apart'
  BY <1>1, ApartKept
<1>3. TablesTyped' /\ Grows /\ OwnersKnown'
  BY PanelKeeps
<1>4. ASSUME NEW d \in Requests \ {r}
      PROVE  /\ Matches(req'[d], req[d])
             /\ req'[d].at = "stop" /\ ~req'[d].undone => Running(req[d].id)'
  <2>1. req'[d] = req[d] /\ OK(req[d])
    BY <1>1 DEF IInv
  <2>2. Running(req[d].id)' <=> req[d].id \in DOMAIN cron' /\ cron'[req[d].id].on
    BY <2>1 DEF Running
  <2>3. QED
    BY <2>1, <2>2 DEF Matches, OK
<1>5. QED
  BY <1>1, <1>2, <1>3, <1>4, TableStep

\* A cron is updated.
LEMMA UpdateStep ==
  ASSUME IInv, NEW r \in Requests, Update(r)
  PROVE  IInv'
<1> DEFINE q == req[r]
           x == IF q.for = "run" THEN Idle ELSE [q EXCEPT !.at = "record", !.scope = {}]
<1>1. /\ TablesTyped /\ q \in Request /\ Known(q) /\ OK(q) /\ q.at = "update"
      /\ q.id \in DOMAIN cron /\ cron[q.id] \in Crons /\ cron[q.id].key = q.key
      /\ q.key \in Keys /\ MayRun(q.key, q.scope) /\ q.scope \subseteq Accounts
  BY Parts, Fields DEF Update, OK, InHand, Ensures, TablesTyped
<1>2. /\ DOMAIN cron' = DOMAIN cron /\ UNCHANGED <<owner, owners, job, lastCron>>
      /\ \A i \in DOMAIN cron \ {q.id} : cron'[i] = cron[i]
      /\ cron'[q.id] = [cron[q.id] EXCEPT !.key = q.key, !.scope = q.scope]
  BY <1>1 DEF Update
<1>3. /\ cron'[q.id] \in Crons /\ cron'[q.id].key = q.key /\ cron'[q.id].scope = q.scope
      /\ cron'[q.id].on = cron[q.id].on
  BY <1>1, <1>2 DEF Crons
<1>4. /\ x \in Request /\ x.at \in {"record", "idle"} /\ x.id \in {0, q.id} /\ Known(x)
      /\ x.at = "record" => x.id = q.id /\ x.key = q.key /\ x.for = q.for /\ x.back = q.back
                         /\ x.acc = q.acc
      /\ x.at = "idle" => x = Idle
      /\ x.old \in {{}, q.old}
  BY <1>1, Parts, IdleTyped, ZenonT(30) DEF Request, Stages, Known
<1>5. Become(r, x) /\ req'[r] = x
  BY DEF Update, Finish, Become, IInv
<1>6. Known(req[r])' /\ OK(req[r])'
  <2>1. \A i \in q.old \cap DOMAIN cron' : cron'[i].key \in Accounts
    BY <1>1, <1>2, <1>3 DEF OK
  <2>2. x.for = "heal" => x.at = "record" /\ q.for = "heal"
    BY <1>4, Parts, IdleTyped
  <2>3. Known(req[r])'
    BY <1>2, <1>4, <1>5 DEF Known
  <2>4. QED
    BY <1>1, <1>2, <1>3, <1>4, <1>5, <2>1, <2>2, <2>3, ZenonT(30) DEF OK, Ensures, InHand
<1>7. \A i \in DOMAIN cron : cron'[i] \in Crons /\ cron'[i].key = cron[i].key /\ cron'[i].on = cron[i].on
  BY <1>1, <1>2, <1>3 DEF TablesTyped
<1>8. ASSUME NEW i \in DOMAIN cron', i = q.id PROVE MayRun(cron[i].key, cron[i].scope)'
  BY <1>1, <1>2, <1>3, <1>8 DEF MayRun
<1>9. \A d \in Requests \ {r} : Running(req[d].id) => Running(req[d].id)'
  <2> SUFFICES ASSUME NEW d \in Requests \ {r}, Running(req[d].id) PROVE Running(req[d].id)'
    OBVIOUS
  <2>1. req'[d] = req[d]
    BY <1>5 DEF Become, IInv
  <2>2. QED
    BY <1>2, <1>7, <2>1 DEF Running
<1>10. \A i \in DOMAIN cron' : \/ cron'[i].scope = cron[i].scope
                               \/ MayRun(cron[i].key, cron[i].scope)'
  BY <1>2, <1>8
<1>11. QED
  BY <1>2, <1>4, <1>5, <1>6, <1>7, <1>9, <1>10, PanelStep

\* Crons are switched.
LEMMA SwitchedCrons ==
  ASSUME TablesTyped, NEW ids, NEW on \in BOOLEAN, cron' = Switched(ids, on)
  PROVE  /\ DOMAIN cron' = DOMAIN cron
         /\ \A i \in DOMAIN cron : /\ cron'[i] \in Crons /\ cron'[i].key = cron[i].key
                                   /\ cron'[i].scope = cron[i].scope
                                   /\ cron'[i].on = IF i \in ids THEN on ELSE cron[i].on
<1>1. DOMAIN cron' = DOMAIN cron
  BY DEF Switched
<1>2. ASSUME NEW i \in DOMAIN cron
      PROVE  /\ cron'[i] \in Crons /\ cron'[i].key = cron[i].key
             /\ cron'[i].scope = cron[i].scope
             /\ cron'[i].on = IF i \in ids THEN on ELSE cron[i].on
  <2>1. cron[i] \in Crons /\ cron'[i] = IF i \in ids THEN [cron[i] EXCEPT !.on = on] ELSE cron[i]
    BY DEF Switched, TablesTyped
  <2>2. QED
    BY <2>1 DEF Crons
<1>3. QED
  BY <1>1, <1>2

\* A request switches crons and goes on as x.
LEMMA SwitchStep ==
  ASSUME IInv, NEW r \in Requests, NEW ids, NEW on \in BOOLEAN, cron' = Switched(ids, on),
         NEW x \in Request, Become(r, x), UNCHANGED <<owner, owners, job, lastCron>>,
         Known(x), OK(req[r])', x.at # "quiet", x.id \in {0, req[r].id},
         \A d \in Requests \ {r} :
            req[d].at = "stop" /\ Running(req[d].id) /\ req[d].id \in ids => on
  PROVE  IInv'
<1>1. /\ req'[r] = x /\ \A d \in Requests \ {r} : req'[d] = req[d]
      /\ \A d \in Requests : req[d] \in Request
  BY DEF IInv, Become
<1>2. /\ DOMAIN cron' = DOMAIN cron
      /\ \A i \in DOMAIN cron : /\ cron'[i] \in Crons /\ cron'[i].key = cron[i].key
                                /\ cron'[i].scope = cron[i].scope
                                /\ cron'[i].on = IF i \in ids THEN on ELSE cron[i].on
  BY SwitchedCrons DEF IInv
<1>3. Known(req[r])'
  BY <1>1 DEF Known
<1>4. \A d \in Requests \ {r} :
         req[d].at = "stop" /\ ~req[d].undone /\ Running(req[d].id) => Running(req[d].id)'
  <2> SUFFICES ASSUME NEW d \in Requests \ {r}, req[d].at = "stop", Running(req[d].id)
               PROVE  Running(req[d].id)'
    OBVIOUS
  <2>1. req[d].id \in ids => on
    OBVIOUS
  <2>2. QED
    BY <1>1, <1>2, <2>1 DEF Running
<1>5. QED
  BY <1>2, <1>3, <1>4, PanelStep

\* The new cron is switched off; nobody else has it.
LEMMA QuietStep ==
  ASSUME IInv, NEW r \in Requests, Quiet(r)
  PROVE  IInv'
<1> DEFINE q == req[r]
           x == [q EXCEPT !.at = "record"]
<1>1. TablesTyped /\ q \in Request /\ Known(q) /\ OK(q) /\ q.at = "quiet"
  BY Parts DEF Quiet
<1>2. /\ x \in Request /\ x.at = "record" /\ x.for = q.for /\ x.key = q.key /\ x.back = q.back
      /\ x.acc = q.acc /\ x.id = q.id /\ x.old = q.old /\ x.catalog = q.catalog
  BY <1>1 DEF Request, Stages
<1>3. cron' = Switched({q.id}, FALSE) /\ Become(r, x) /\ UNCHANGED <<owner, owners, job, lastCron>>
  BY DEF Quiet
<1>4. Known(x) /\ req'[r] = x
  BY <1>1, <1>2, <1>3 DEF Known, Become, IInv
<1>5. DOMAIN cron' = DOMAIN cron /\ \A i \in DOMAIN cron : cron'[i].key = cron[i].key
  BY <1>1, <1>3, SwitchedCrons
<1>6. OK(req[r])'
  <2>1. x.for = "heal" => /\ x.back \in Owners /\ x.acc \in Accounts
                          /\ {x.key, x.back} \subseteq owners'[x.acc] /\ x.key \in Owners
    BY <1>1, <1>2, <1>3 DEF OK
  <2>2. \A i \in x.old \cap DOMAIN cron' : cron'[i].key \in Accounts
    BY <1>1, <1>2, <1>5 DEF OK
  <2>3. x.key \in Keys /\ (x.id \in DOMAIN cron' => cron'[x.id].key = x.key)
    BY <1>1, <1>2, <1>5 DEF OK, Ensures, InHand
  <2> HIDE DEF x
  <2>4. QED
    BY <1>2, <1>4, <2>1, <2>2, <2>3 DEF OK, Ensures, InHand
<1>7. \A d \in Requests \ {r} :
         req[d].at = "stop" /\ Running(req[d].id) /\ req[d].id \in {q.id} => FALSE
  BY <1>1 DEF IInv, Apart
<1> HIDE DEF x
<1>8. QED
  BY <1>2, <1>3, <1>4, <1>6, <1>7, SwitchStep

\* The user's cron is switched on.
LEMMA SwitchOnStep ==
  ASSUME IInv, NEW r \in Requests, SwitchOn(r)
  PROVE  IInv'
<1> DEFINE q == req[r]
           y == [q EXCEPT !.at = "stop", !.undone = q.id \notin DOMAIN cron]
           x == IF q.for = "heal" THEN y ELSE Idle
<1>1. TablesTyped /\ q \in Request /\ Known(q) /\ OK(q) /\ q.at = "switchOn"
  BY Parts DEF SwitchOn
<1>2. /\ y \in Request /\ y.at = "stop" /\ y.for = q.for /\ y.key = q.key /\ y.back = q.back
      /\ y.acc = q.acc /\ y.id = q.id /\ y.old = q.old /\ y.catalog = q.catalog /\ y.undone = (q.id \notin DOMAIN cron)
  BY <1>1 DEF Request, Stages
<1>3. cron' = Switched({q.id}, TRUE) /\ Become(r, x) /\ UNCHANGED <<owner, owners, job, lastCron>>
  BY DEF SwitchOn, Finish
<1>4. req'[r] = x /\ x \in Request /\ Known(x) /\ x.at # "quiet" /\ x.id \in {0, q.id}
  BY <1>1, <1>2, <1>3, IdleTyped DEF Known, Become, IInv
<1>5. /\ DOMAIN cron' = DOMAIN cron /\ \A i \in DOMAIN cron : cron'[i].key = cron[i].key
      /\ q.id \in DOMAIN cron => cron'[q.id].on
  <2>1. /\ DOMAIN cron' = DOMAIN cron
        /\ \A i \in DOMAIN cron : /\ cron'[i].key = cron[i].key
                                 /\ cron'[i].on = IF i \in {q.id} THEN TRUE ELSE cron[i].on
    <3> DEFINE ids == {q.id}
    <3>1. TablesTyped /\ cron' = Switched(ids, TRUE) /\ TRUE \in BOOLEAN
      BY <1>1, <1>3
    <3> HIDE DEF ids
    <3>2. /\ DOMAIN cron' = DOMAIN cron
          /\ \A i \in DOMAIN cron : /\ cron'[i].key = cron[i].key
                                   /\ cron'[i].on = IF i \in ids THEN TRUE ELSE cron[i].on
      BY <3>1, SwitchedCrons, ZenonT(30)
    <3>3. QED
      BY <3>2 DEF ids
  <2>2. QED
    BY <2>1
<1>6. OK(req[r])'
  <2>1. CASE q.for = "heal"
    <3>1. /\ y.back \in Owners /\ y.acc \in Accounts
          /\ {y.key, y.back} \subseteq owners'[y.acc] /\ y.key \in Owners
      BY <1>1, <1>2, <1>3, <2>1 DEF OK
    <3>2. \A i \in y.old \cap DOMAIN cron' : cron'[i].key \in Accounts
      BY <1>1, <1>2, <1>5 DEF OK
    <3>3. y.key \in Keys /\ (y.id \in DOMAIN cron' => cron'[y.id].key = y.key /\ cron'[y.id].on)
      BY <1>1, <1>2, <1>5 DEF OK, Ensures, InHand
    <3>4. req'[r] = y /\ y.at = "stop" /\ y.for = "heal" /\ (~y.undone => y.id \in DOMAIN cron')
      BY <1>2, <1>4, <1>5, <2>1
    <3> HIDE DEF y
    <3>5. QED
      BY <3>1, <3>2, <3>3, <3>4 DEF OK, Ensures, InHand, Running
  <2>2. CASE q.for # "heal"
    BY <1>1, <1>4, <2>2, IdleTyped DEF OK, Ensures, InHand
  <2>3. QED
    BY <2>1, <2>2
<1>7. QED
  BY <1>3, <1>4, <1>6, SwitchStep

\* The account jobs are stopped; those of users stay as they are.
LEMMA StopOldStep ==
  ASSUME IInv, NEW r \in Requests, StopOld(r)
  PROVE  IInv'
<1> DEFINE q == req[r]
           x == [Idle EXCEPT !.at = "sync", !.key = q.back, !.catalog = q.catalog]
<1>1. /\ TablesTyped /\ q \in Request /\ Known(q) /\ OK(q) /\ q.at = "stop" /\ q.for = "heal"
      /\ q.back \in Owners /\ q.back \in Keys /\ q.catalog \in Catalogs
  BY Parts, Fields DEF StopOld, OK
<1>2. x \in Request /\ x.at = "sync" /\ x.for = "list" /\ x.key = q.back /\ x.id = 0
      /\ x.old = {} /\ x.catalog = q.catalog
  BY <1>1, IdleTyped DEF Request, Stages
<1>3. cron' = Switched(q.old, FALSE) /\ Become(r, x) /\ UNCHANGED <<owner, owners, job, lastCron>>
  BY <1>1 DEF StopOld, After
<1>4. req'[r] = x /\ Known(x)
  BY <1>1, <1>2, <1>3, Given DEF Known, Become, IInv
<1>5. OK(req[r])'
  BY <1>1, <1>2, <1>4 DEF OK, Ensures, InHand
<1>6. \A d \in Requests \ {r} : req[d].at = "stop" /\ Running(req[d].id) => req[d].id \notin q.old
  <2> SUFFICES ASSUME NEW d \in Requests \ {r}, req[d].at = "stop", Running(req[d].id),
                      req[d].id \in q.old
               PROVE  FALSE
    OBVIOUS
  <2>1. OK(req[d])
    BY DEF IInv
  <2>2. req[d].for = "heal" /\ req[d].key \in Owners /\ cron[req[d].id].key = req[d].key
    BY <2>1 DEF OK, InHand, Running
  <2>3. cron[req[d].id].key \in Accounts
    BY <1>1 DEF OK, Running
  <2>4. QED
    BY <2>2, <2>3, JobsAssumption
<1>7. QED
  BY <1>2, <1>3, <1>4, <1>5, <1>6, SwitchStep

\* A new cron has a new id.
LEMMA CreateStep ==
  ASSUME IInv, NEW r \in Requests, Create(r)
  PROVE  IInv'
<1> DEFINE q == req[r]
           i == lastCron + 1
           x == [q EXCEPT !.at = "quiet", !.id = i, !.scope = {}, !.undone = FALSE]
<1>1. /\ TablesTyped /\ q \in Request /\ Known(q) /\ OK(q) /\ q.at = "create"
      /\ q.key \in Keys /\ MayRun(q.key, q.scope) /\ q.scope \subseteq Accounts
      /\ lastCron \in Nat /\ MaxCrons \in Nat /\ lastCron < MaxCrons /\ i \in 1 .. MaxCrons
  BY Parts, Fields, Given, JobsAssumption DEF Create, OK, InHand, Ensures
<1>2. /\ lastCron' = i /\ UNCHANGED <<owner, owners, job>>
      /\ DOMAIN cron' = DOMAIN cron \cup {i} /\ i \notin DOMAIN cron
      /\ \A j \in DOMAIN cron : cron'[j] = cron[j]
      /\ cron'[i] = Cron(q.key, q.scope, TRUE)
      /\ Become(r, x)
  <2>1. lastCron' = i /\ UNCHANGED <<owner, owners, job>> /\ Become(r, x)
    BY DEF Create
  <2>2. cron' = [j \in DOMAIN cron \cup {i} |-> IF j = i THEN Cron(q.key, q.scope, TRUE) ELSE cron[j]]
    BY <2>1 DEF Create
  <2>3. i \notin DOMAIN cron
    BY <1>1 DEF TablesTyped
  <2>4. QED
    BY <2>1, <2>2, <2>3
<1>3. /\ x \in Request /\ x.at = "quiet" /\ x.for = q.for /\ x.key = q.key /\ x.back = q.back
      /\ x.acc = q.acc /\ x.id = i /\ x.old = q.old /\ x.catalog = q.catalog
  <2>1. i \in 0 .. MaxCrons
    BY <1>1
  <2> HIDE DEF i
  <2>2. QED
    BY <1>1, <2>1 DEF Request, Stages
<1>4. /\ req' \in [Requests -> Request] /\ req'[r] = x
      /\ \A d \in Requests \ {r} : req'[d] = req[d] /\ req[d] \in Request /\ Known(req[d])
  BY <1>2, <1>3 DEF Become, IInv
<1>5. cron'[i] \in Crons /\ cron'[i].key = q.key /\ cron'[i].scope = q.scope
  BY <1>1, <1>2 DEF Cron, Crons
<1>6. TablesTyped' /\ OwnersKnown'
  <2>1. lastCron' \in 0 .. MaxCrons /\ \A k \in Keys : job[k] \in 0 .. lastCron'
    BY <1>1, <1>2, Given
  <2>2. DOMAIN cron' \subseteq 1 .. lastCron'
    BY <1>1, <1>2 DEF TablesTyped
  <2>3. QED
    BY <1>1, <1>2, <1>5, <2>1, <2>2 DEF TablesTyped, OwnersKnown, IInv
<1>7. Grows
  BY <1>1, <1>2 DEF Grows, TablesTyped
<1>8. Apart'
  <2>1. \A d \in Requests : req[d].id \in Nat /\ req[d].id <= lastCron
    BY <1>1, <1>4, Fields DEF Known
  <2>2. \A k \in Keys : job[k] # i
    BY <1>1, Given
  <2>3. ASSUME NEW d \in Requests \ {r}, req[d].at = "quiet"
        PROVE  /\ req[d].id # 0 /\ \A k \in Keys : job[k] # req[d].id
               /\ \A s \in Requests \ {d} : req[s].id # req[d].id
    BY <2>3 DEF IInv, Apart
  <2>4. /\ req'[r].id = i /\ i # 0 /\ \A k \in Keys : job'[k] # i
        /\ \A s \in Requests \ {r} : req'[s].id # i
    BY <1>1, <1>2, <1>3, <1>4, <2>1, <2>2
  <2>5. ASSUME NEW d \in Requests \ {r}, req'[d].at = "quiet"
        PROVE  /\ req'[d].id # 0 /\ \A k \in Keys : job'[k] # req'[d].id
               /\ \A s \in Requests \ {d} : req'[s].id # req'[d].id
    <3>1. req'[d] = req[d] /\ req[d].id # i /\ req[d].at = "quiet"
      <4>1. req'[d] = req[d]
        BY <1>4
      <4>2. QED
        BY <2>4, <2>5, <4>1
    <3>2. \A s \in Requests \ {d} : s = r \/ req'[s] = req[s]
      BY <1>4
    <3>3. /\ req[d].id # 0 /\ \A k \in Keys : job[k] # req[d].id
          /\ \A s \in Requests \ {d} : req[s].id # req[d].id
      BY <2>3, <3>1
    <3>4. \A s \in Requests \ {d} : req'[s].id # req'[d].id
      BY <2>4, <3>1, <3>2, <3>3
    <3>5. QED
      BY <1>2, <3>1, <3>3, <3>4
  <2>6. QED
    BY <2>4, <2>5 DEF Apart
<1>9. Known(req[r])' /\ OK(req[r])'
  <2>1. \A j \in q.old \cap DOMAIN cron' : cron'[j].key \in Accounts
    BY <1>1, <1>2 DEF OK, Known
  <2>2. Known(req[r])'
    BY <1>1, <1>2, <1>3, <1>4 DEF Known
  <2>3. QED
    BY <1>1, <1>2, <1>3, <1>4, <1>5, <2>1, <2>2, ZenonT(30) DEF OK, Ensures, InHand
<1>10. ASSUME NEW d \in Requests \ {r}
       PROVE  /\ Matches(req'[d], req[d])
              /\ req'[d].at = "stop" /\ ~req'[d].undone => Running(req[d].id)'
  <2>1. OK(req[d])
    BY DEF IInv
  <2>2. QED
    BY <1>2, <1>4, <2>1 DEF Matches, OK, Running
<1>11. \A j \in DOMAIN cron' : \/ j \in DOMAIN cron /\ cron'[j].scope = cron[j].scope
                               \/ MayRun(cron[j].key, cron[j].scope)'
  <2>1. ASSUME NEW j \in DOMAIN cron', j = i PROVE MayRun(cron[j].key, cron[j].scope)'
    BY <1>1, <1>2, <1>5, <2>1 DEF MayRun
  <2>2. QED
    BY <1>2, <2>1
<1>12. QED
  BY <1>2, <1>4, <1>6, <1>7, <1>8, <1>9, <1>10, <1>11, TableStep

\* Crons are deleted, or switched off, by the request or by somebody else: Undo marks the
\* requests that have one of them in hand.
LEMMA UndoStep ==
  ASSUME IInv, NEW ids, UNCHANGED <<owner, owners, job, lastCron>>, DOMAIN cron' \subseteq DOMAIN cron,
         \A i \in DOMAIN cron' : /\ cron'[i] \in Crons /\ cron'[i].key = cron[i].key
                                 /\ cron'[i].scope = cron[i].scope,
         \A i \in DOMAIN cron \ ids : i \in DOMAIN cron' /\ cron'[i] = cron[i],
         req' \in [Requests -> Request],
         \A d \in Requests : \/ req'[d] = Undo(ids, req)[d]
                             \/ /\ req'[d].at # "quiet" /\ req'[d].id \in {0, req[d].id}
                                /\ Known(req[d])' /\ OK(req[d])'
  PROVE  IInv'
<1>1. ASSUME NEW d \in Requests, req'[d] = Undo(ids, req)[d]
      PROVE  /\ Matches(req'[d], req[d])
             /\ req'[d].at = "stop" /\ ~req'[d].undone => Running(req[d].id)'
  <2> DEFINE hit == req[d].for = "heal" /\ req[d].id \in ids
  <2>1. req[d] \in Request /\ OK(req[d])
    BY DEF IInv
  <2>2. req'[d] = [req[d] EXCEPT !.undone = @ \/ hit]
    BY <1>1 DEF Undo
  <2>3. req[d].undone \/ hit => req'[d].undone
    BY <2>1, <2>2 DEF Request
  <2> HIDE DEF hit
  <2>4. Matches(req'[d], req[d])
    BY <2>1, <2>2, <2>3 DEF Request, Matches
  <2>5. ASSUME req[d].at = "stop", ~req[d].undone, ~hit PROVE Running(req[d].id)'
    <3>1. Running(req[d].id) /\ req[d].id \notin ids
      BY <2>1, <2>5 DEF OK, hit
    <3>2. QED
      BY <2>4, <3>1 DEF Running, Matches
  <2>6. QED
    BY <2>3, <2>4, <2>5 DEF Matches
<1>2. Apart'
  BY <1>1, ApartKept DEF Matches
<1>3. TablesTyped' /\ Grows /\ OwnersKnown'
  BY PanelKeeps
<1>4. \A d \in Requests : \/ Known(req[d])' /\ OK(req[d])'
                          \/ /\ Matches(req'[d], req[d])
                             /\ req'[d].at = "stop" /\ ~req'[d].undone => Running(req[d].id)'
  BY <1>1
<1>5. QED
  BY <1>2, <1>3, <1>4, TableStep

\* Undo changes no type.
LEMMA UndoTyped ==
  ASSUME req \in [Requests -> Request], NEW ids
  PROVE  Undo(ids, req) \in [Requests -> Request]
<1>1. \A q \in Request : \A b \in BOOLEAN : [q EXCEPT !.undone = b] \in Request
  BY DEF Request
<1>2. \A r \in Requests : req[r] \in Request /\ req[r].undone \in BOOLEAN
  BY Fields
<1>3. \A r \in Requests :
        [req[r] EXCEPT !.undone = @ \/ (req[r].for = "heal" /\ req[r].id \in ids)] \in Request
  BY <1>1, <1>2
<1>4. QED
  BY <1>3 DEF Undo

\* A user's job is switched off.
LEMMA SwitchOffStep ==
  ASSUME IInv, NEW r \in Requests, SwitchOff(r)
  PROVE  IInv'
<1>1. TablesTyped /\ req \in [Requests -> Request] /\ Idle \in Request /\ Idle.at = "idle" /\ Idle.id = 0
  BY IdleTyped DEF IInv
<1>2. /\ req' \in [Requests -> Request] /\ req'[r] = Idle
      /\ \A d \in Requests \ {r} : req'[d] = Undo({req[r].id}, req)[d]
  BY <1>1, UndoTyped DEF SwitchOff
<1>3. /\ DOMAIN cron' = DOMAIN cron
      /\ \A i \in DOMAIN cron : /\ cron'[i] \in Crons /\ cron'[i].key = cron[i].key
                                /\ cron'[i].scope = cron[i].scope
  BY <1>1, SwitchedCrons DEF SwitchOff
<1>4. \A i \in DOMAIN cron \ {req[r].id} : cron'[i] = cron[i]
  BY DEF SwitchOff, Switched
<1>5. Known(req[r])' /\ OK(req[r])'
  BY <1>1, <1>2, IdleTyped DEF Known, OK, Ensures, InHand, SwitchOff
<1>6. UNCHANGED <<owner, owners, job, lastCron>>
  BY DEF SwitchOff
<1>7. \A d \in Requests : \/ req'[d] = Undo({req[r].id}, req)[d]
                          \/ /\ req'[d].at # "quiet" /\ req'[d].id \in {0, req[d].id}
                             /\ Known(req[d])' /\ OK(req[d])'
  BY <1>1, <1>2, <1>5
<1>8. QED
  BY <1>2, <1>3, <1>4, <1>6, <1>7, UndoStep

\* Crons that are not deleted stay.
LEMMA WithoutCrons ==
  ASSUME TablesTyped, NEW ids, cron' = Without(ids)
  PROVE  /\ DOMAIN cron' = DOMAIN cron \ ids
         /\ \A i \in DOMAIN cron' : cron'[i] = cron[i] /\ cron'[i] \in Crons
BY DEF TablesTyped, Without

\* The crons of the account go.
LEMMA DropStep ==
  ASSUME IInv, NEW r \in Requests, Drop(r)
  PROVE  IInv'
<1> DEFINE q == req[r]
           x == [q EXCEPT !.at = "delete"]
           ids == {q.id} \ {0}
<1>1. /\ TablesTyped /\ req \in [Requests -> Request] /\ q \in Request /\ Known(q) /\ OK(q)
      /\ q.at = "drop" /\ 0 \notin DOMAIN cron
  BY Parts DEF Drop, IInv, TablesTyped
<1>2. /\ x \in Request /\ x.at = "delete" /\ x.for = q.for /\ x.acc = q.acc /\ x.id = q.id
      /\ x.old = q.old /\ x.catalog = q.catalog
  BY <1>1 DEF Request, Stages
<1>3. /\ req' \in [Requests -> Request] /\ req'[r] = x
      /\ \A d \in Requests \ {r} : req'[d] = Undo(ids, req)[d]
  BY <1>1, <1>2, UndoTyped DEF Drop
<1>4. /\ DOMAIN cron' = DOMAIN cron \ {q.id}
      /\ \A i \in DOMAIN cron' : cron'[i] = cron[i] /\ cron'[i] \in Crons
  BY <1>1, WithoutCrons DEF Drop
<1>5. UNCHANGED <<owner, owners, job, lastCron>>
  BY DEF Drop
<1>6. Known(req[r])' /\ OK(req[r])'
  BY <1>1, <1>2, <1>3, <1>4, <1>5 DEF Known, OK, Ensures, InHand
<1>7. \A i \in DOMAIN cron \ ids : i \in DOMAIN cron' /\ cron'[i] = cron[i]
  BY <1>1, <1>4
<1>8. x.at # "quiet" /\ x.id \in {0, q.id} /\ DOMAIN cron' \subseteq DOMAIN cron
  BY <1>2, <1>4
<1>9. \A d \in Requests : \/ req'[d] = Undo(ids, req)[d]
                          \/ /\ req'[d].at # "quiet" /\ req'[d].id \in {0, req[d].id}
                             /\ Known(req[d])' /\ OK(req[d])'
  BY <1>3, <1>6, <1>8
<1> HIDE DEF x, ids
<1>10. QED
  BY <1>3, <1>4, <1>5, <1>7, <1>8, <1>9, UndoStep

\* Somebody deletes a cron on the panel.
LEMMA PanelDeleteStep ==
  ASSUME IInv, NEW i \in DOMAIN cron, PanelDelete(i)
  PROVE  IInv'
<1>1. TablesTyped /\ req \in [Requests -> Request]
  BY DEF IInv
<1>2. req' = Undo({i}, req) /\ req' \in [Requests -> Request]
  BY <1>1, UndoTyped DEF PanelDelete
<1>3. /\ DOMAIN cron' = DOMAIN cron \ {i}
      /\ \A j \in DOMAIN cron' : cron'[j] = cron[j] /\ cron'[j] \in Crons
  BY <1>1, WithoutCrons DEF PanelDelete
<1>4. UNCHANGED <<owner, owners, job, lastCron>>
  BY DEF PanelDelete
<1>5. \A j \in DOMAIN cron \ {i} : j \in DOMAIN cron' /\ cron'[j] = cron[j]
  BY <1>3
<1>6. QED
  BY <1>2, <1>3, <1>4, <1>5, UndoStep

----------------------------------------------------------------------------
(* Statements of the store *)

\* A step that leaves the panel alone.
LEMMA StoreKeeps ==
  ASSUME IInv, UNCHANGED <<cron, lastCron>>, owners' \in [Accounts -> SUBSET Owners],
         \A a \in Accounts : owners[a] \subseteq owners'[a],
         \A a \in Accounts, k \in Owners : owner'[a] = k /\ owners'[a] = {k}
                                           => owner[a] = k /\ owners[a] = {k}
  PROVE  Grows
<1>1. TablesTyped /\ lastCron \in Nat
  BY Given DEF IInv
<1>2. QED
  BY <1>1 DEF Grows, TablesTyped

\* A request changes rows, or deletes its account, and goes on as x.
LEMMA StoreStep ==
  ASSUME IInv, NEW r \in Requests, NEW x \in Request, Become(r, x), UNCHANGED <<owners, cron, lastCron>>,
         owner' \in [Accounts -> Owners \cup {Gone}],
         \A a \in Accounts : owner'[a] \in {Gone, owner[a]},
         job' \in [Keys -> 0 .. lastCron],
         \A k \in Keys : \/ job'[k] \in {0, job[k]}
                         \/ /\ job'[k] = req[r].id /\ req[r].at # "quiet"
                            /\ req[r].id \in DOMAIN cron => cron[req[r].id].key = k,
         Known(x), OK(x), x.at # "quiet", x.id \in {0, req[r].id}
  PROVE  IInv'
<1>1. /\ req' \in [Requests -> Request] /\ req'[r] = x
      /\ \A d \in Requests \ {r} : req'[d] = req[d]
  BY DEF IInv, Become
<1>2. TablesTyped' /\ OwnersKnown'
  BY JobsAssumption DEF IInv, TablesTyped, OwnersKnown
<1>3. Apart'
  BY <1>1, ApartKept
<1>4. Grows
  <2>1. \A a \in Accounts, k \in Owners : owner'[a] = k /\ owners'[a] = {k}
                                          => owner[a] = k /\ owners[a] = {k}
    BY JobsAssumption
  <2>2. QED
    BY <2>1, StoreKeeps DEF IInv, TablesTyped
<1>5. Known(req[r])' /\ OK(req[r])'
  <2>1. MayRun(x.key, x.scope) => MayRun(x.key, x.scope)'
    BY JobsAssumption DEF MayRun
  <2>2. Known(req[r])'
    BY <1>1 DEF Known
  <2>3. QED
    BY <1>1, <2>1, <2>2 DEF OK, Running
<1>6. ASSUME NEW d \in Requests \ {r}
      PROVE  /\ Matches(req'[d], req[d])
             /\ req'[d].at = "stop" /\ ~req'[d].undone => Running(req[d].id)'
  BY <1>1 DEF Matches, IInv, OK, Running
<1>7. QED
  BY <1>1, <1>2, <1>3, <1>4, <1>5, <1>6, TableStep

\* The row of a cron that is not in the catalog is deleted.
LEMMA ForgetStep ==
  ASSUME IInv, NEW r \in Requests, Forget(r)
  PROVE  IInv'
<1> DEFINE q == req[r]
           x == [q EXCEPT !.at = "create"]
<1>1. TablesTyped /\ q \in Request /\ Known(q) /\ OK(q) /\ q.at = "forget" /\ q.key \in Keys
  BY Parts DEF Forget, OK, Ensures
<1>2. /\ x \in Request /\ x.at = "create" /\ x.for = q.for /\ x.key = q.key /\ x.back = q.back
      /\ x.acc = q.acc /\ x.id = q.id /\ x.old = q.old /\ x.catalog = q.catalog /\ x.scope = q.scope
  BY <1>1 DEF Request, Stages
<1>3. Known(x) /\ OK(x)
  BY <1>1, <1>2 DEF Known, OK, Ensures, InHand
<1>4. /\ job' \in [Keys -> 0 .. lastCron] /\ \A k \in Keys : job'[k] \in {0, job[k]}
      /\ owner' \in [Accounts -> Owners \cup {Gone}]
  BY <1>1, Given DEF Forget, TablesTyped
<1>5. QED
  BY <1>2, <1>3, <1>4, StoreStep DEF Forget

\* The row is written.
LEMMA RecordStep ==
  ASSUME IInv, NEW r \in Requests, Record(r)
  PROVE  IInv'
<1> DEFINE q == req[r]
           y == [q EXCEPT !.at = "reread"]
           x == IF q.for \in {"enable", "heal"} THEN y ELSE Idle
<1>1. /\ TablesTyped /\ q \in Request /\ Known(q) /\ OK(q) /\ q.at = "record" /\ q.key \in Keys
      /\ q.id \in DOMAIN cron => cron[q.id].key = q.key
      /\ q.id \in 0 .. lastCron
  BY Parts, Fields, Given DEF Record, OK, Ensures, InHand, Known
<1>2. /\ y \in Request /\ y.at = "reread" /\ y.for = q.for /\ y.key = q.key /\ y.back = q.back
      /\ y.acc = q.acc /\ y.id = q.id /\ y.old = q.old /\ y.catalog = q.catalog /\ y.scope = q.scope
  BY <1>1 DEF Request, Stages
<1>3. Known(y) /\ OK(y)
  BY <1>1, <1>2 DEF Known, OK, Ensures, InHand
<1>4. /\ x \in Request /\ Known(x) /\ OK(x) /\ x.at # "quiet" /\ x.id \in {0, q.id} /\ Become(r, x)
  BY <1>1, <1>2, <1>3, IdleTyped DEF Record, Finish
<1>5. /\ job' \in [Keys -> 0 .. lastCron]
      /\ \A k \in Keys : job'[k] = job[k] \/ (k = q.key /\ job'[k] = q.id)
      /\ owner' \in [Accounts -> Owners \cup {Gone}]
  BY <1>1 DEF Record, TablesTyped
<1> HIDE DEF x
<1>6. QED
  BY <1>1, <1>4, <1>5, StoreStep DEF Record

\* The account goes with its row.
LEMMA DeleteStep ==
  ASSUME IInv, NEW r \in Requests, Delete(r)
  PROVE  IInv'
<1>1. TablesTyped /\ req[r].acc \in Accounts /\ req[r].acc \in Keys
  BY Parts DEF Delete, OK
<1>2. /\ job' \in [Keys -> 0 .. lastCron] /\ \A k \in Keys : job'[k] \in {0, job[k]}
      /\ owner' \in [Accounts -> Owners \cup {Gone}] /\ \A a \in Accounts : owner'[a] \in {Gone, owner[a]}
  BY <1>1, Given DEF Delete, TablesTyped
<1>3. QED
  BY <1>1, <1>2, IdleTyped, StoreStep DEF Delete, Finish

\* Another user scans an account, and is remembered as one of its owners.
LEMMA MoveStep ==
  ASSUME IInv, NEW a \in Accounts, NEW u \in Owners, Move(a, u)
  PROVE  IInv'
<1>1. TablesTyped /\ OwnersKnown /\ req \in [Requests -> Request]
  BY DEF IInv
<1>2. /\ owner' \in [Accounts -> Owners \cup {Gone}] /\ owners' \in [Accounts -> SUBSET Owners]
      /\ \A b \in Accounts : owners[b] \subseteq owners'[b]
      /\ owner'[a] = u /\ u \in owners'[a]
      /\ \A b \in Accounts \ {a} : owner'[b] = owner[b] /\ owners'[b] = owners[b]
  BY <1>1 DEF Move, TablesTyped
<1>3. UNCHANGED <<job, cron, lastCron, req>>
  BY DEF Move
<1>4. TablesTyped' /\ OwnersKnown'
  BY <1>1, <1>2, <1>3 DEF TablesTyped, OwnersKnown
<1>5. Grows
  <2>1. owner[a] \in Owners \ {u} /\ owner[a] \in owners[a]
    BY <1>1 DEF Move, TablesTyped, OwnersKnown
  <2>2. ASSUME NEW b \in Accounts, NEW k \in Owners, owner'[b] = k, owners'[b] = {k}
        PROVE  owner[b] = k /\ owners[b] = {k}
    <3>1. b # a
      BY <1>2, <2>1, <2>2
    <3>2. QED
      BY <1>2, <2>2, <3>1
  <2>3. QED
    BY <1>2, <1>3, <2>2, StoreKeeps
<1>6. Apart'
  BY <1>3, ApartKept
<1>7. ASSUME NEW d \in Requests
      PROVE  /\ Matches(req'[d], req[d])
             /\ req'[d].at = "stop" /\ ~req'[d].undone => Running(req[d].id)'
  BY <1>3 DEF Matches, IInv, OK, Running
<1>8. QED
  BY <1>1, <1>3, <1>4, <1>5, <1>6, <1>7, TableStep

----------------------------------------------------------------------------
(* The invariant *)

\* Each step keeps the invariant.
LEMMA Invariance == IInv /\ [Next]_vars => IInv'
<1> SUFFICES ASSUME IInv, [Next]_vars PROVE IInv'
  OBVIOUS
<1>1. ASSUME NEW r \in Requests, NEW a \in Accounts,
             \/ \E for \in {"enable", "run", "list"} : Begin(r, a, for)
             \/ Disable(r, a) \/ BeginDelete(r, a)
      PROVE  IInv'
  BY <1>1, BeginStep, DisableStep, BeginDeleteStep
<1>2. ASSUME NEW r \in Requests, \/ ReadCatalog(r) \/ Heal(r) \/ Anchor(r) \/ Sync(r) \/ Ensure(r)
      PROVE  IInv'
  BY <1>2, ReadCatalogStep, HealStep, AnchorStep, SyncStep, EnsureStep
<1>3. ASSUME NEW r \in Requests, \/ Update(r) \/ Forget(r) \/ Create(r) \/ Quiet(r) \/ Record(r)
      PROVE  IInv'
  BY <1>3, UpdateStep, ForgetStep, CreateStep, QuietStep, RecordStep
<1>4. ASSUME NEW r \in Requests, \/ Reread(r) \/ SwitchOn(r) \/ StopOld(r) \/ Fails(r)
                                 \/ SwitchOff(r) \/ Drop(r) \/ Delete(r)
      PROVE  IInv'
  BY <1>4, RereadStep, SwitchOnStep, StopOldStep, AfterStep, SwitchOffStep, DropStep, DeleteStep
     DEF Fails
<1>5. CASE UNCHANGED vars
  BY <1>5 DEF vars, IInv, TablesTyped, RecordsOwnCron, Fitting, OwnersKnown, Apart, Known, OK,
              Running, MayRun
<1>6. QED
  BY <1>1, <1>2, <1>3, <1>4, <1>5, MoveStep, PanelDeleteStep DEF Next

\* It holds in every state of every behaviour.
LEMMA Always == Spec => []IInv
<1>1. Init => IInv
  <2> SUFFICES ASSUME Init PROVE IInv
    OBVIOUS
  <2>1. PICK legacy \in {{}} \cup {{a} : a \in Accounts} :
          /\ lastCron = Cardinality(legacy)
          /\ job = [k \in Keys |-> IF k \in legacy THEN 1 ELSE 0]
          /\ cron = [i \in 1 .. lastCron |-> Cron(CHOOSE a \in legacy : TRUE, legacy, TRUE)]
    BY DEF Init
  <2>2. lastCron \in {0, 1} /\ lastCron \in Nat
        /\ \A i \in 1 .. lastCron : i = 1 /\ \E a \in Accounts : legacy = {a}
    <3>1. CASE legacy = {}
      BY <2>1, <3>1, FS_EmptySet
    <3>2. ASSUME NEW a \in Accounts, legacy = {a} PROVE lastCron = 1
      BY <2>1, <3>2, FS_Singleton
    <3>3. QED
      BY <2>1, <3>1, <3>2
  <2>3. /\ lastCron \in 0 .. MaxCrons /\ \A k \in Keys : job[k] \in 0 .. lastCron
        /\ job \in [Keys -> 0 .. lastCron]
    <3>1. \A k \in Keys : job[k] = IF k \in legacy THEN 1 ELSE 0
      BY <2>1
    <3>2. legacy # {} => lastCron = 1
      BY <2>1, FS_Singleton
    <3>3. \A k \in Keys : job[k] \in 0 .. lastCron
      BY <2>2, <3>1, <3>2
    <3>4. QED
      BY <2>1, <2>2, <3>3, JobsAssumption
  <2>4. \A i \in DOMAIN cron : /\ i = 1
                               /\ \E a \in Accounts : legacy = {a} /\ cron[i] = Cron(a, {a}, TRUE)
    <3> SUFFICES ASSUME NEW i \in DOMAIN cron
                 PROVE  i = 1 /\ \E a \in Accounts : legacy = {a} /\ cron[i] = Cron(a, {a}, TRUE)
      OBVIOUS
    <3>1. i \in 1 .. lastCron /\ cron[i] = Cron(CHOOSE a \in legacy : TRUE, legacy, TRUE)
      BY <2>1
    <3>2. PICK a \in Accounts : legacy = {a}
      BY <2>2, <3>1
    <3>3. (CHOOSE b \in {a} : TRUE) = a
      OBVIOUS
    <3>4. QED
      BY <2>2, <3>1, <3>2, <3>3
  <2>5. \A a \in Accounts : /\ Cron(a, {a}, TRUE) \in Crons
                            /\ Cron(a, {a}, TRUE).key = a /\ Cron(a, {a}, TRUE).scope = {a}
                            /\ a \notin Owners
    BY JobsAssumption DEF Cron, Crons, Keys
  <2>6. TablesTyped
    <3>1. owner \in [Accounts -> Owners \cup {Gone}] /\ owners \in [Accounts -> SUBSET Owners]
      BY DEF Init
    <3>2. DOMAIN cron \subseteq 1 .. lastCron
      BY <2>1
    <3>3. \A i \in DOMAIN cron : cron[i] \in Crons
      BY <2>4, <2>5
    <3>4. lastCron \in 0 .. MaxCrons /\ job \in [Keys -> 0 .. lastCron]
      BY <2>3
    <3>5. QED
      BY <3>1, <3>2, <3>3, <3>4 DEF TablesTyped
  <2>7. req \in [Requests -> Request] /\ \A r \in Requests : req[r] = Idle /\ Known(req[r]) /\ OK(req[r])
    BY <2>6, IdleTyped DEF Init
  <2>8. RecordsOwnCron
    <3>1. \A k \in Keys : job[k] = 1 => k \in legacy
      BY <2>1
    <3>2. QED
      BY <2>4, <2>5, <3>1, ZenonT(30) DEF RecordsOwnCron
  <2>9. Fitting
    <3>1. ASSUME NEW i \in DOMAIN cron
          PROVE  cron[i].key \notin Owners /\ cron[i].scope = {cron[i].key}
      <4>1. PICK a \in Accounts : cron[i] = Cron(a, {a}, TRUE)
        BY <2>4
      <4>2. QED
        BY <2>5, <4>1, ZenonT(30)
    <3>2. QED
      BY <3>1 DEF Fitting, MayRun
  <2>10. OwnersKnown
    BY DEF OwnersKnown, Init
  <2>11. QED
    BY <2>6, <2>7, <2>8, <2>9, <2>10, IdleTyped DEF IInv, Apart
<1>2. QED
  BY <1>1, Invariance, PTL DEF Spec

\* Tables and requests stay well typed.
THEOREM Typing == Spec => []TypeOK
<1>1. IInv => TypeOK
  <2> SUFFICES ASSUME IInv PROVE TypeOK
    OBVIOUS
  <2>1. TablesTyped
    BY DEF IInv
  <2>2. ASSUME NEW r \in Requests
        PROVE  /\ req[r].at \in Stages /\ req[r].for \in Purposes
               /\ req[r].acc \in Accounts \cup {NoAccount}
               /\ req[r].key \in Keys \cup {NoAccount} /\ req[r].back \in Owners \cup {NoAccount}
               /\ DOMAIN req[r].catalog \subseteq 1 .. lastCron
               /\ \A i \in DOMAIN req[r].catalog : req[r].catalog[i] \in Rows
               /\ req[r].scope \subseteq Accounts /\ req[r].old \subseteq 1 .. lastCron
               /\ req[r].id \in 0 .. lastCron /\ req[r].undone \in BOOLEAN
    <3>1. req[r] \in Request /\ Known(req[r]) /\ lastCron \in Nat
      BY <2>1, Parts, Given
    <3>2. \A i \in DOMAIN req[r].catalog : req[r].catalog[i] \in Rows
      BY <3>1, Fields, CatalogRows
    <3>3. QED
      BY <3>1, <3>2, Fields DEF Known
  <2>3. QED
    BY <2>1, <2>2 DEF TypeOK, TablesTyped, Rows
<1>2. QED
  BY <1>1, Always, PTL

\* A row names a cron that was made for it, however requests, deletions and work on the panel
\* overlap (ensureUserJob and ensureAccountJob looking an id up in an old catalog).
THEOREM OwnCron == Spec => []RecordsOwnCron
<1>1. IInv => RecordsOwnCron
  BY DEF IInv
<1>2. QED
  BY <1>1, Always, PTL

\* A user's cron runs only accounts this user has owned, an account's cron only that account,
\* although the accounts are read long before the panel is told (ensureUserJob).
THEOREM Isolation == Spec => []Isolated
<1>1. IInv => Isolated
  BY DEF IInv, Fitting, MayRun, Isolated
<1>2. QED
  BY <1>1, Always, PTL

\* When healLegacyOwnerJobs stops the account jobs of a user, a job of this user runs every
\* account the user has had all along, or the account read again has moved to another user.
THEOREM GapByMove == Spec => []GapOnlyByMove
<1>1. IInv => GapOnlyByMove
  <2> SUFFICES ASSUME IInv, NEW r \in Requests, req[r].at = "stop", ~req[r].undone
               PROVE  /\ Running(req[r].id) /\ cron[req[r].id].key = req[r].key
                      /\ \/ /\ req[r].key = req[r].back
                            /\ Kept(req[r].back) \subseteq cron[req[r].id].scope
                         \/ /\ req[r].key # req[r].back
                            /\ {req[r].key, req[r].back} \subseteq owners[req[r].acc]
    BY DEF GapOnlyByMove, Running
  <2>1. /\ Running(req[r].id) /\ cron[req[r].id].key = req[r].key
        /\ req[r].back \in Owners /\ {req[r].key, req[r].back} \subseteq owners[req[r].acc]
    BY DEF IInv, OK, InHand, Running
  <2>2. MayRun(req[r].key, cron[req[r].id].scope)
    BY <2>1 DEF IInv, Fitting, Running
  <2>3. req[r].key = req[r].back => Kept(req[r].back) \subseteq cron[req[r].id].scope
    BY <2>1, <2>2 DEF MayRun, Kept
  <2>4. QED
    BY <2>1, <2>3
<1>2. QED
  BY <1>1, Always, PTL
=============================================================================
