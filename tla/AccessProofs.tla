---------------------------- MODULE AccessProofs ----------------------------
(***************************************************************************)
(* Proofs about Access: how many guesses the limiter lets through, and     *)
(* that a request works only on what its credentials give it.              *)
(*                                                                         *)
(* The limiter: the wrong passwords of a key are those its counter has     *)
(* counted and those still to be counted, and what is under way was let    *)
(* through while the counter was below the limit (Guessed).  The counter   *)
(* that recordLoginFailure has just made must not be evicted for the       *)
(* second one it makes, which takes a table of two.                        *)
(*                                                                         *)
(* Reach: as long as nothing a request depends on has changed, the user    *)
(* the middleware put into it stands for its credentials (Known), and what *)
(* the handler has chosen for it is still its own (Chose).                 *)
(***************************************************************************)
EXTENDS Access, FiniteSetTheorems, NaturalsInduction, WellFoundedInduction, TLAPS

Request == [at : Stages, route : Api \cup Console \cup {"none", "visibility"}, token : Nat,
            cookie : Users \cup {Nobody}, user : Users \cup {Nobody}, admin : BOOLEAN,
            accounts : SUBSET Accounts, owner : Users \cup {Nobody}, script : Scripts \cup {<<>>},
            from : Addresses \cup {Nobody}, moved : BOOLEAN]

CounterOf(now) == [failures : Nat, over : BOOLEAN, start : 0 .. now]

\* A table of counters by the time now.
Table(table, now) ==
    /\ DOMAIN table \subseteq Keys /\ IsFiniteSet(DOMAIN table)
    /\ Cardinality(DOMAIN table) <= AttemptsMax
    /\ \A key \in DOMAIN table : table[key] \in CounterOf(now)

\* Requests that log in as a user from an address.
LoggingIn(q) == q.at \in {"checking", "wrong", "right", "entering"}
LoginOK(q) == LoggingIn(q) => q.user \in Users /\ q.from \in Addresses

ProcessOK == config \in Configs /\ minted \in Nat /\ token \in Tokens /\ stored \in Tokens
TablesOK ==
    /\ signed \subseteq Users /\ admins \subseteq Users /\ account \in [Accounts -> Row]
    /\ setting \in [form : {"json", "text"}, dirs : Dirs] /\ jobs \subseteq Jobs
LimiterOK == clock \in Nat /\ Table(attempts, clock) /\ guesses \in [Keys -> Nat]
RequestsOK == req \in [Requests -> Request] /\ \A r \in Requests : LoginOK(req[r])
LeftOK == left \in [{"attempts", "calls", "changes"} -> Nat]

Typed == ProcessOK /\ TablesOK /\ LimiterOK /\ RequestsOK /\ LeftOK

\* Attempts let through for a key, and those of them whose failure is still to be counted.
Of(q, key) == key \in {UserKey(q.user), IPKey(q.from)}
InFlight(key) == {r \in Requests : req[r].at \in {"checking", "wrong"} /\ Of(req[r], key)}
Uncounted(key) == {r \in Requests : req[r].at = "wrong" /\ Of(req[r], key)}
Failures(key) == IF key \in DOMAIN attempts THEN attempts[key].failures ELSE 0

GuessedOf(key) ==
    /\ guesses[key] <= Failures(key) + Cardinality(Uncounted(key))
    /\ Failures(key) + Cardinality(InFlight(key)) < Limit(key) + Cardinality(Requests)

Guessed == \A key \in Keys : GuessedOf(key)

\* Requests past the middleware that nothing has changed under.
Sound(q) == q.at \in {"authorized", "resolved"} /\ ~q.moved

\* The user of a request stands for its credentials.
Known(q) ==
    /\ q.route \in Api =>
          \/ token # NoToken /\ q.token = token /\ q.user = Nobody
          \/ /\ token = NoToken \/ q.token # token
             /\ config.auth /\ q.cookie \in signed /\ q.user = q.cookie
             /\ q.admin <=> q.cookie \in admins
          \/ token = NoToken /\ q.user = Nobody /\ (~config.auth \/ q.cookie = Nobody)
    /\ q.route \notin Api =>
          IF config.auth THEN /\ q.cookie \in signed /\ q.user = q.cookie
                              /\ q.admin <=> q.cookie \in admins
          ELSE q.user = Nobody

May(q, a) == IF q.route \in Api THEN CanReadAccountViaAPI(q, a) ELSE CanAccessAccount(q, a)

BestOf(q, a) ==
    \A b \in Accounts : May(q, b) =>
       /\ account[b].alive => account[a].alive
       /\ account[b].alive = account[a].alive => account[b].updated <= account[a].updated

MayScript(q) ==
    \/ IsAdminRequest(q) \/ setting.form = "text" \/ setting.dirs = {}
    \/ \E dir \in setting.dirs : IsPrefix(dir, q.script)

\* The owner that the handler has read is that of the account, and a script that was not asked
\* for by its directory has a job.
Anchored(q) ==
    /\ q.at = "resolved" /\ q.route \in ByRef => \E a \in q.accounts : q.owner = account[a].owner
    /\ q.route \in {"disable", "log"} /\ q.script # <<>> => HasJob(q, q.script)

\* What the handler has chosen is the request's.
Chose(q) ==
    /\ q.at = "authorized" => q.accounts = {} /\ q.script = <<>>
    /\ q.at = "resolved" => q.route \in Api \cup Console
    /\ \A a \in q.accounts : May(q, a)
    /\ q.route = "default" => \A a \in q.accounts : BestOf(q, a)
    /\ q.route = "script" /\ q.script # <<>> => MayScript(q)
    /\ Anchored(q)

Reach == \A r \in Requests : Sound(req[r]) => Known(req[r]) /\ Chose(req[r])

----------------------------------------------------------------------------
(* The table of counters *)

\* The limits are numbers.
LEMMA Numbers ==
  /\ FailPerUser \in Nat /\ FailPerUser > 0 /\ FailPerIP \in Nat /\ FailPerIP > 0
  /\ AttemptsMax \in Nat /\ AttemptsMax > 1
  /\ IsFiniteSet(Requests) /\ Cardinality(Requests) \in Nat
  /\ \A key \in Keys : Limit(key) \in Nat /\ Limit(key) > 0
<1>1. IsFiniteSet(Requests) /\ Cardinality(Requests) \in Nat
  BY AccessAssumption, FS_CardinalityType
<1>2. QED
  BY <1>1, AccessAssumption DEF Limit

\* The key of a user is never that of an address.
LEMMA KeysDiffer ==
  ASSUME NEW u, NEW ip
  PROVE  UserKey(u) # IPKey(ip)
<1>1. UserKey(u)[1] = "user" /\ IPKey(ip)[1] = "ip"
  BY DEF UserKey, IPKey
<1>2. QED
  BY <1>1

\* A set of numbers has a least one.
LEMMA Least ==
  ASSUME NEW S, S \subseteq Nat, S # {}
  PROVE  \E m \in S : \A k \in S : m <= k
<1>1. \E m \in S : \A k \in S : ~(<<k, m>> \in OpToRel(<, Nat))
  BY WFMin, NatLessThanWellFounded
<1>2. PICK m \in S : \A k \in S : ~(<<k, m>> \in OpToRel(<, Nat))
  BY <1>1
<1>3. \A k \in S : ~(k < m)
  BY <1>2 DEF OpToRel
<1>4. QED
  BY <1>3

\* There is an oldest counter.
LEMMA OldestIs ==
  ASSUME NEW table, NEW now \in Nat, Table(table, now), DOMAIN table # {}
  PROVE  /\ Oldest(table) \in DOMAIN table
         /\ \A k \in DOMAIN table : table[Oldest(table)].start <= table[k].start
<1> DEFINE starts == {table[k].start : k \in DOMAIN table}
<1>1. \A k \in DOMAIN table : table[k].start \in Nat
  BY DEF Table, CounterOf
<1>2. starts \subseteq Nat /\ starts # {}
  BY <1>1
<1>3. PICK m \in starts : \A n \in starts : m <= n
  BY <1>2, Least
<1>4. \E key \in DOMAIN table : \A k \in DOMAIN table : table[key].start <= table[k].start
  BY <1>3
<1>5. QED
  BY <1>4 DEF Oldest

\* Counters that go leave a table.
LEMMA DropTable ==
  ASSUME NEW table, NEW now \in Nat, Table(table, now), NEW keys
  PROVE  /\ DOMAIN Drop(table, keys) = DOMAIN table \ keys
         /\ \A key \in DOMAIN table \ keys : Drop(table, keys)[key] = table[key]
         /\ Table(Drop(table, keys), now)
         /\ Cardinality(DOMAIN table \ keys) <= Cardinality(DOMAIN table)
<1>1. /\ DOMAIN Drop(table, keys) = DOMAIN table \ keys
      /\ \A key \in DOMAIN table \ keys : Drop(table, keys)[key] = table[key]
  BY DEF Drop
<1>2. /\ IsFiniteSet(DOMAIN table \ keys) /\ Cardinality(DOMAIN table \ keys) <= Cardinality(DOMAIN table)
      /\ Cardinality(DOMAIN table) \in Nat /\ Cardinality(DOMAIN table \ keys) \in Nat
  BY FS_Subset, FS_CardinalityType DEF Table
<1>3. QED
  BY <1>1, <1>2, Numbers DEF Table

\* An eviction makes room for one.
LEMMA EvictTable ==
  ASSUME NEW table, NEW now \in Nat, Table(table, now)
  PROVE  /\ DOMAIN Evict(table) \subseteq DOMAIN table
         /\ \A key \in DOMAIN Evict(table) : Evict(table)[key] = table[key]
         /\ Table(Evict(table), now) /\ Cardinality(DOMAIN Evict(table)) < AttemptsMax
<1>1. Cardinality(DOMAIN table) \in Nat /\ IsFiniteSet(DOMAIN table)
  BY FS_CardinalityType DEF Table
<1>2. CASE Cardinality(DOMAIN table) < AttemptsMax
  BY <1>2 DEF Evict
<1>3. CASE ~(Cardinality(DOMAIN table) < AttemptsMax) /\ Cardinality(Running(table)) < AttemptsMax
  <2> DEFINE over == DOMAIN table \ Running(table)
  <2>1. Evict(table) = Drop(table, over) /\ DOMAIN table \ over = Running(table)
    BY <1>3 DEF Evict, Running
  <2>2. QED
    BY <1>3, <2>1, DropTable
<1>4. CASE ~(Cardinality(DOMAIN table) < AttemptsMax) /\ ~(Cardinality(Running(table)) < AttemptsMax)
  <2> DEFINE o == Oldest(table)
  <2>1. Evict(table) = Drop(table, {o})
    BY <1>4 DEF Evict
  <2>2. DOMAIN table # {}
    BY <1>1, <1>4, Numbers, FS_EmptySet
  <2>3. o \in DOMAIN table
    BY <2>2, OldestIs
  <2>4. Cardinality(DOMAIN table \ {o}) = Cardinality(DOMAIN table) - 1
    BY <1>1, <2>3, FS_RemoveElement
  <2>5. Cardinality(DOMAIN table \ {o}) < AttemptsMax
    BY <1>1, <2>4, Numbers DEF Table
  <2>6. QED
    BY <2>1, <2>5, DropTable
<1>5. QED
  BY <1>2, <1>3, <1>4

\* The counter started last is not evicted.
LEMMA LatestKept ==
  ASSUME NEW table, NEW now \in Nat, Table(table, now), NEW key \in DOMAIN table,
         ~table[key].over, \A k \in DOMAIN table \ {key} : table[k].start < table[key].start
  PROVE  key \in DOMAIN Evict(table) /\ Evict(table)[key] = table[key]
<1>1. Cardinality(DOMAIN table) \in Nat /\ IsFiniteSet(DOMAIN table)
  BY FS_CardinalityType DEF Table
<1>2. CASE Cardinality(DOMAIN table) < AttemptsMax
  BY <1>2 DEF Evict
<1>3. CASE ~(Cardinality(DOMAIN table) < AttemptsMax) /\ Cardinality(Running(table)) < AttemptsMax
  BY <1>3 DEF Evict, Running, Drop
<1>4. CASE ~(Cardinality(DOMAIN table) < AttemptsMax) /\ ~(Cardinality(Running(table)) < AttemptsMax)
  <2> DEFINE o == Oldest(table)
  <2>1. Evict(table) = Drop(table, {o})
    BY <1>4 DEF Evict
  <2>2. DOMAIN table # {key}
    BY <1>4, Numbers, FS_Singleton
  <2>3. PICK k \in DOMAIN table : k # key
    BY <2>2
  <2>4. /\ table[o].start <= table[k].start /\ table[k].start < table[key].start
        /\ o \in DOMAIN table
    BY <2>3, OldestIs
  <2>5. table[o].start \in Nat /\ table[k].start \in Nat /\ table[key].start \in Nat
    BY <2>3, <2>4 DEF Table, CounterOf
  <2>6. o # key
    BY <2>4, <2>5
  <2>7. QED
    BY <2>1, <2>6 DEF Drop
<1>5. QED
  BY <1>2, <1>3, <1>4

\* What a bump of key by the time now makes of a table: one more failure or a new counter, and
\* others only as they were.
Bumped(table, key, now, t) ==
    /\ Table(t, now) /\ key \in DOMAIN t /\ DOMAIN t \subseteq DOMAIN table \cup {key}
    /\ \A k \in DOMAIN t \ {key} : t[k] = table[k]
    /\ IF key \in DOMAIN table /\ ~table[key].over
       THEN t[key].failures = table[key].failures + 1 ELSE t[key].failures = 1
    /\ key \notin DOMAIN table => ~t[key].over /\ t[key].start = now
    /\ key \in DOMAIN table => DOMAIN t = DOMAIN table
    /\ key \notin DOMAIN table => DOMAIN t = DOMAIN Evict(table) \cup {key}

\* A bump makes that.
LEMMA BumpTable ==
  ASSUME NEW table, NEW now \in Nat, Table(table, now), NEW key \in Keys
  PROVE  Bumped(table, key, now + 1, Bump(table, key, now + 1))
<1> DEFINE next == now + 1
           t == Bump(table, key, next)
           new == [failures |-> 1, over |-> FALSE, start |-> next]
           more == [table[key] EXCEPT !.failures = @ + 1]
<1>1. new \in CounterOf(next) /\ \A k \in DOMAIN table : table[k] \in CounterOf(next)
  BY DEF Table, CounterOf
<1>0. next = now + 1 /\ t = Bump(table, key, next)
  OBVIOUS
<1> HIDE DEF next, t
<1>2. CASE key \notin DOMAIN table
  <2> DEFINE e == Evict(table)
  <2>1. /\ DOMAIN e \subseteq DOMAIN table /\ \A k \in DOMAIN e : e[k] = table[k]
        /\ IsFiniteSet(DOMAIN e) /\ Cardinality(DOMAIN e) < AttemptsMax
    BY EvictTable DEF Table
  <2>2. t = Put(e, key, new)
    BY <1>0, <1>2 DEF Bump
  <2> HIDE DEF e
  <2>3. /\ DOMAIN t = DOMAIN e \cup {key} /\ t[key] = new
        /\ \A k \in DOMAIN e \ {key} : t[k] = e[k]
    BY <2>2 DEF Put
  <2>4. IsFiniteSet(DOMAIN t) /\ Cardinality(DOMAIN t) <= Cardinality(DOMAIN e) + 1
    <3>1. Cardinality(DOMAIN e) \in Nat
      BY <2>1, FS_CardinalityType
    <3>2. QED
      BY <2>1, <2>3, <3>1, FS_AddElement
  <2>5. Cardinality(DOMAIN e) \in Nat /\ Cardinality(DOMAIN t) \in Nat
    BY <2>1, <2>4, FS_CardinalityType
  <2>6. Cardinality(DOMAIN t) <= AttemptsMax
    BY <2>1, <2>4, <2>5, Numbers
  <2>7. Table(t, next)
    BY <1>0, <1>1, <2>1, <2>3, <2>4, <2>6 DEF Table
  <2>8. QED
    BY <1>2, <2>1, <2>3, <2>7 DEF e, next, t, new, Bumped
<1>3. CASE key \in DOMAIN table
  <2>1. more \in CounterOf(next) /\ more.failures = table[key].failures + 1
    <3>1. table[key].failures + 1 \in Nat
      BY <1>1, <1>3 DEF CounterOf
    <3>2. \A n \in Nat : [table[key] EXCEPT !.failures = n] \in CounterOf(next)
      BY <1>1, <1>3 DEF CounterOf
    <3>3. QED
      BY <1>1, <1>3, <3>1, <3>2 DEF CounterOf
  <2> HIDE DEF more, new
  <2>2. t = Put(table, key, IF table[key].over THEN new ELSE more)
    BY <1>0, <1>3 DEF Bump, more, new
  <2>3. /\ DOMAIN t = DOMAIN table /\ t[key] = IF table[key].over THEN new ELSE more
        /\ \A k \in DOMAIN table \ {key} : t[k] = table[k]
    BY <1>3, <2>2 DEF Put
  <2>4. \A k \in DOMAIN t : t[k] \in CounterOf(next)
    BY <1>1, <2>1, <2>3
  <2>5. Table(t, next)
    BY <2>3, <2>4 DEF Table
  <2>6. new.failures = 1
    BY DEF new
  <2>7. QED
    BY <1>3, <2>1, <2>3, <2>5, <2>6 DEF next, t, Bumped
<1>4. QED
  BY <1>2, <1>3

----------------------------------------------------------------------------
(* Requests *)

\* A request that has not started.
LEMMA IdleTyped == Idle \in Request /\ LoginOK(Idle)
BY DEF Idle, Request, Stages, LoginOK, LoggingIn, NoToken

\* One request becomes another.
LEMMA Becomes ==
  ASSUME RequestsOK, NEW r \in Requests, NEW q, Become(r, q)
  PROVE  req'[r] = q /\ \A p \in Requests \ {r} : req'[p] = req[p]
BY DEF RequestsOK, Become

\* One request becomes another that is well typed.
LEMMA BecomesTyped ==
  ASSUME RequestsOK, NEW r \in Requests, NEW q \in Request, LoginOK(q), Become(r, q)
  PROVE  RequestsOK'
<1>1. req' \in [Requests -> Request]
  BY DEF RequestsOK, Become
<1>2. \A p \in Requests : LoginOK(req[p])'
  BY Becomes DEF RequestsOK, LoginOK, LoggingIn
<1>3. QED
  BY <1>1, <1>2 DEF RequestsOK

\* A request that ends.
LEMMA FinishTyped ==
  ASSUME RequestsOK, NEW r \in Requests, Finish(r)
  PROVE  RequestsOK'
BY IdleTyped, BecomesTyped DEF Finish

\* A request that goes on.
LEMMA StagesTyped ==
  ASSUME NEW q \in Request, NEW l \in Stages
  PROVE  [q EXCEPT !.at = l] \in Request
BY DEF Request

\* A change under the requests rs.
LEMMA MovesRequests ==
  ASSUME RequestsOK, NEW rs, NEW p \in Requests
  PROVE  /\ Moves(rs)[p] = [req[p] EXCEPT !.moved = @ \/ p \in rs]
         /\ Moves(rs)[p] \in Request
         /\ LoginOK(Moves(rs)[p])
         /\ p \notin rs => Moves(rs)[p] = req[p]
         /\ p \in rs => Moves(rs)[p].moved
<1> DEFINE q == req[p]
<1>1. q \in Request /\ LoginOK(q)
  BY DEF RequestsOK
<1>2. Moves(rs)[p] = [q EXCEPT !.moved = q.moved \/ p \in rs]
  BY DEF Moves
<1>3. q.moved \in BOOLEAN
  BY <1>1 DEF Request
<1>4. CASE p \in rs
  <2>1. Moves(rs)[p] = [q EXCEPT !.moved = TRUE]
    BY <1>2, <1>4, Zenon
  <2> HIDE DEF q
  <2>2. [q EXCEPT !.moved = TRUE] \in Request /\ LoginOK([q EXCEPT !.moved = TRUE])
    BY <1>1 DEF Request, LoginOK, LoggingIn
  <2>3. [q EXCEPT !.moved = TRUE].moved
    BY <1>1 DEF Request
  <2>4. QED
    BY <1>2, <1>4, <2>1, <2>2, <2>3 DEF q
<1>5. CASE p \notin rs
  <2>1. (q.moved \/ p \in rs) = q.moved
    BY <1>3, <1>5
  <2>2. Moves(rs)[p] = [q EXCEPT !.moved = q.moved]
    BY <1>2, <2>1
  <2> HIDE DEF q
  <2>3. [q EXCEPT !.moved = q.moved] = q
    BY <1>1 DEF Request
  <2>4. QED
    BY <1>1, <1>2, <1>5, <2>2, <2>3 DEF q
<1>6. QED
  BY <1>4, <1>5

\* So the requests stay well typed.
LEMMA MovesTyped ==
  ASSUME RequestsOK, NEW rs, req' = Moves(rs)
  PROVE  RequestsOK'
<1>1. DOMAIN Moves(rs) = Requests /\ Moves(rs) = [p \in Requests |-> Moves(rs)[p]]
  BY DEF Moves
<1>2. \A p \in Requests : Moves(rs)[p] \in Request /\ LoginOK(Moves(rs)[p])
  BY MovesRequests
<1>3. req' \in [Requests -> Request]
  BY <1>1, <1>2
<1>4. \A p \in Requests : LoginOK(req[p])'
  BY <1>2 DEF LoginOK, LoggingIn
<1>5. QED
  BY <1>3, <1>4 DEF RequestsOK

\* Also when one of them ends.
LEMMA MovesAndEnds ==
  ASSUME RequestsOK, NEW rs, NEW r \in Requests, req' = [Moves(rs) EXCEPT ![r] = Idle]
  PROVE  /\ RequestsOK' /\ req'[r] = Idle
         /\ \A p \in Requests \ {r} : req'[p] = Moves(rs)[p]
<1>1. DOMAIN Moves(rs) = Requests
  BY DEF Moves
<1>2. \A p \in Requests : Moves(rs)[p] \in Request /\ LoginOK(Moves(rs)[p])
  BY MovesRequests
<1>3. req'[r] = Idle /\ DOMAIN req' = Requests /\ \A p \in Requests \ {r} : req'[p] = Moves(rs)[p]
  BY <1>1
<1>4. req' = [p \in Requests |-> req'[p]]
  BY <1>1
<1>5. req' \in [Requests -> Request]
  BY <1>2, <1>3, <1>4, IdleTyped
<1>6. \A p \in Requests : LoginOK(req[p])'
  BY <1>2, <1>3, IdleTyped DEF LoginOK, LoggingIn
<1>7. QED
  BY <1>3, <1>5, <1>6 DEF RequestsOK

\* A bound is used up.
LEMMA SpendTyped ==
  ASSUME LeftOK, NEW what \in {"attempts", "calls", "changes"}, Spend(what)
  PROVE  LeftOK'
<1>1. left[what] - 1 \in Nat /\ left' = [left EXCEPT ![what] = left[what] - 1]
  BY DEF LeftOK, Spend
<1>2. QED
  BY <1>1 DEF LeftOK

----------------------------------------------------------------------------
(* The limiter's steps *)

\* The keys of an attempt.
LEMMA AttemptKeys ==
  ASSUME RequestsOK, NEW r \in Requests, LoggingIn(req[r])
  PROVE  /\ UserKey(req[r].user) \in Keys /\ IPKey(req[r].from) \in Keys
         /\ UserKey(req[r].user) # IPKey(req[r].from)
<1>1. req[r].user \in Users /\ req[r].from \in Addresses
  BY DEF RequestsOK, LoginOK
<1>2. QED
  BY <1>1, KeysDiffer DEF Keys

\* A table replaces that of the counters.
LEMMA ReplaceTyped ==
  ASSUME LimiterOK, NEW table, NEW bumped, Replace(table, bumped),
         clock' \in Nat, Table(table, clock')
  PROVE  LimiterOK'
<1>1. attempts' = table
  BY DEF Replace
<1>2. guesses' \in [Keys -> Nat]
  BY DEF Replace, LimiterOK
<1>3. QED
  BY <1>1, <1>2 DEF LimiterOK, Table

\* The failures a recorded attempt leaves; AttemptsMax > 1 keeps the first counter for the second.
LEMMA Recorded ==
  ASSUME LimiterOK, RequestsOK, NEW r \in Requests, RecordLoginFailure(r)
  PROVE  LET user == UserKey(req[r].user)
             address == IPKey(req[r].from) IN
         /\ LimiterOK' /\ clock' = clock + 2 /\ Replace(attempts', {user, address})
         /\ DOMAIN attempts' \subseteq DOMAIN attempts \cup {user, address}
         /\ \A key \in DOMAIN attempts' \ {user, address} : attempts'[key] = attempts[key]
         /\ \A key \in DOMAIN attempts' \cap {user, address} :
               \/ attempts'[key].failures = 1
               \/ key \in DOMAIN attempts /\ attempts'[key].failures = attempts[key].failures + 1
         /\ \A key \in {user, address} : key \in DOMAIN attempts \cup DOMAIN attempts'
<1> DEFINE user == UserKey(req[r].user)
           address == IPKey(req[r].from)
           one == Bump(attempts, user, clock + 1)
           two == Bump(one, address, clock + 1 + 1)
<1>1. user \in Keys /\ address \in Keys /\ user # address
  BY AttemptKeys DEF RecordLoginFailure, LoggingIn
<1>2. clock \in Nat /\ clock + 1 \in Nat /\ clock + 1 + 1 = clock + 2 /\ clock' = clock + 2
      /\ Table(attempts, clock)
  BY DEF LimiterOK, RecordLoginFailure
<1>3. Replace(two, {user, address})
  BY <1>2 DEF RecordLoginFailure
<1> HIDE DEF user, address
<1>4. Bumped(attempts, user, clock + 1, one)
  BY <1>1, <1>2, BumpTable
<1> HIDE DEF one
<1>5. Bumped(one, address, clock + 1 + 1, two)
  <2>1. Table(one, clock + 1)
    BY <1>4 DEF Bumped
  <2>2. QED
    BY <1>1, <1>2, <2>1, BumpTable
<1> HIDE DEF two
<1>6. attempts' = two
  BY <1>3 DEF Replace
<1>7. LimiterOK'
  BY <1>2, <1>3, <1>5, ReplaceTyped DEF Bumped
<1>8. ASSUME user \notin DOMAIN attempts PROVE user \in DOMAIN two
  <2>1. \A k \in DOMAIN one \ {user} : one[k].start \in Nat /\ one[k].start <= clock
    BY <1>2, <1>4 DEF Table, CounterOf, Bumped
  <2>2. \A k \in DOMAIN one \ {user} : one[k].start < one[user].start
    BY <1>2, <1>4, <1>8, <2>1 DEF Bumped
  <2>3. user \in DOMAIN Evict(one)
    BY <1>2, <1>4, <1>8, <2>2, LatestKept DEF Bumped
  <2>4. QED
    BY <1>4, <1>5, <2>3 DEF Bumped
<1>9. \A key \in DOMAIN two \cap {user, address} :
        \/ two[key].failures = 1
        \/ key \in DOMAIN attempts /\ two[key].failures = attempts[key].failures + 1
  <2>1. user \in DOMAIN two => two[user] = one[user]
    BY <1>1, <1>5 DEF Bumped
  <2>2. address \in DOMAIN one => address \in DOMAIN attempts /\ one[address] = attempts[address]
    BY <1>1, <1>4 DEF Bumped
  <2>3. QED
    BY <1>4, <1>5, <2>1, <2>2 DEF Bumped
<1>10. \A key \in DOMAIN two \ {user, address} : two[key] = attempts[key]
  BY <1>4, <1>5 DEF Bumped
<1>11. QED
  BY <1>2, <1>3, <1>4, <1>5, <1>6, <1>7, <1>8, <1>9, <1>10 DEF user, address, Bumped

\* An attempt is let through when neither counter is full, and then both are below their limits.
LEMMA Allowed ==
  ASSUME LimiterOK, RequestsOK, NEW r \in Requests, NEW u \in Users, NEW ip \in Addresses,
         AllowLogin(r, u, ip)
  PROVE  /\ LimiterOK' /\ clock' = clock
         /\ \/ attempts' = attempts /\ guesses' = guesses
            \/ Replace(attempts', {})
         /\ DOMAIN attempts' \subseteq DOMAIN attempts
         /\ \A key \in DOMAIN attempts' : attempts'[key] = attempts[key]
         /\ \/ req' = req
            \/ /\ Become(r, [Idle EXCEPT !.at = "checking", !.user = u, !.from = ip])
               /\ \A key \in {UserKey(u), IPKey(ip)} :
                     key \in DOMAIN attempts' => attempts'[key].failures < Limit(key)
<1> DEFINE user == UserKey(u)
           address == IPKey(ip)
           looked == Drop(attempts, Stale(attempts, address))
           passed == Drop(looked, Stale(looked, user))
<1>1. clock \in Nat /\ Table(attempts, clock) /\ clock' = clock
  BY DEF LimiterOK, AllowLogin, limiter
<1>2. user \in Keys /\ address \in Keys /\ user # address
  BY KeysDiffer DEF Keys
<1>3. CASE UNCHANGED <<limiter, req>>
  BY <1>1, <1>3 DEF limiter, LimiterOK, Table
<1>4. CASE /\ Replace(passed, {}) /\ ~Full(attempts, address)
           /\ IF Full(looked, user) THEN UNCHANGED req
              ELSE Become(r, [Idle EXCEPT !.at = "checking", !.user = u, !.from = ip])
  <2> HIDE DEF user, address
  <2>1. /\ DOMAIN looked = DOMAIN attempts \ Stale(attempts, address) /\ Table(looked, clock)
        /\ \A key \in DOMAIN looked : looked[key] = attempts[key]
    BY <1>1, DropTable
  <2> HIDE DEF looked
  <2>2. /\ DOMAIN passed = DOMAIN looked \ Stale(looked, user) /\ Table(passed, clock)
        /\ \A key \in DOMAIN passed : passed[key] = looked[key]
    BY <1>1, <2>1, DropTable, SMTT(30)
  <2> HIDE DEF passed
  <2>3. attempts' = passed
    BY <1>4 DEF Replace
  <2>4. LimiterOK'
    BY <1>1, <1>4, <2>2, ReplaceTyped
  <2>5. \A key \in DOMAIN attempts : attempts[key].failures \in Nat
    BY <1>1 DEF Table, CounterOf
  <2>6. address \in DOMAIN passed => passed[address].failures < Limit(address)
    BY <1>2, <1>4, <2>1, <2>2, <2>5, Numbers DEF Full, Stale, Running
  <2>7. ~Full(looked, user) /\ user \in DOMAIN passed => passed[user].failures < Limit(user)
    BY <1>2, <1>4, <2>1, <2>2, <2>5, Numbers DEF Full, Stale, Running
  <2>8. QED
    BY <1>1, <1>4, <2>1, <2>2, <2>3, <2>4, <2>6, <2>7 DEF user, address
<1>5. QED
  BY <1>3, <1>4 DEF AllowLogin

\* A right password clears both counters.
LEMMA Cleared ==
  ASSUME LimiterOK, NEW r \in Requests, ClearLoginFailures(r)
  PROVE  /\ LimiterOK' /\ clock' = clock /\ Replace(attempts', {})
         /\ DOMAIN attempts' \subseteq DOMAIN attempts
         /\ \A key \in DOMAIN attempts' : attempts'[key] = attempts[key]
<1> DEFINE gone == {UserKey(req[r].user), IPKey(req[r].from)}
           t == Drop(attempts, gone)
<1>1. Replace(t, {}) /\ clock' = clock
  BY DEF ClearLoginFailures
<1>2. clock \in Nat /\ Table(attempts, clock)
  BY DEF LimiterOK
<1> HIDE DEF gone
<1>3. /\ DOMAIN t = DOMAIN attempts \ gone /\ Table(t, clock)
      /\ \A key \in DOMAIN attempts \ gone : t[key] = attempts[key]
  BY <1>2, DropTable
<1> HIDE DEF t
<1>4. attempts' = t
  BY <1>1 DEF Replace
<1>5. QED
  BY <1>1, <1>2, <1>3, <1>4, ReplaceTyped

----------------------------------------------------------------------------
(* Types *)

\* What a step leaves alone stays well typed.
LEMMA Frames ==
  ASSUME Typed
  PROVE  /\ UNCHANGED process => ProcessOK'
         /\ UNCHANGED tables => TablesOK'
         /\ UNCHANGED limiter => LimiterOK'
         /\ UNCHANGED left => LeftOK'
         /\ UNCHANGED req => RequestsOK'
<1>1. UNCHANGED process => ProcessOK'
  BY DEF Typed, ProcessOK, process, Tokens
<1>2. UNCHANGED tables => TablesOK'
  BY DEF Typed, TablesOK, tables
<1>3. UNCHANGED limiter => LimiterOK'
  BY DEF Typed, LimiterOK, limiter, Table
<1>4. UNCHANGED left => LeftOK'
  BY DEF Typed, LeftOK
<1>5. UNCHANGED req => RequestsOK'
  BY DEF Typed, RequestsOK, LoginOK, LoggingIn
<1>6. QED
  BY <1>1, <1>2, <1>3, <1>4, <1>5

\* The steps of a login.
LEMMA LoginTyped ==
  ASSUME Typed, NEW r \in Requests,
         \/ \E u \in Users, ip \in Addresses : AllowLogin(r, u, ip)
         \/ WrongPassword(r) \/ RightPassword(r)
         \/ RecordLoginFailure(r) \/ ClearLoginFailures(r) \/ CreateSession(r)
  PROVE  Typed'
<1>1. req[r] \in Request /\ LoginOK(req[r]) /\ RequestsOK /\ LimiterOK /\ LeftOK
  BY DEF Typed, RequestsOK
<1>2. CASE \E u \in Users, ip \in Addresses : AllowLogin(r, u, ip)
  <2>1. PICK u \in Users, ip \in Addresses : AllowLogin(r, u, ip)
    BY <1>2
  <2> DEFINE q == [Idle EXCEPT !.at = "checking", !.user = u, !.from = ip]
  <2>2. q \in Request /\ LoginOK(q)
    BY DEF Idle, Request, Stages, LoginOK, LoggingIn, NoToken
  <2> HIDE DEF q
  <2>3. LimiterOK' /\ (req' = req \/ Become(r, q))
    BY <1>1, <2>1, Allowed DEF q
  <2>4. RequestsOK'
    BY <1>1, <2>2, <2>3, BecomesTyped, Frames
  <2>5. LeftOK'
    BY <1>1, <2>1, SpendTyped DEF AllowLogin
  <2>6. UNCHANGED <<process, tables>>
    BY <2>1 DEF AllowLogin
  <2>7. QED
    BY <2>3, <2>4, <2>5, <2>6, Frames DEF Typed
<1>3. CASE WrongPassword(r)
  <2>1. RequestsOK'
    <3> DEFINE q == [req[r] EXCEPT !.at = "wrong"]
    <3>1. q \in Request
      BY <1>1, StagesTyped DEF Stages
    <3>2. LoginOK(q)
      BY <1>1, <1>3 DEF LoginOK, LoggingIn, WrongPassword, Request
    <3>3. QED
      BY <1>1, <1>3, <3>1, <3>2, BecomesTyped DEF WrongPassword
  <2>2. guesses' \in [Keys -> Nat]
    BY <1>1, <1>3 DEF WrongPassword, LimiterOK
  <2>3. LimiterOK'
    BY <1>1, <1>3, <2>2 DEF WrongPassword, LimiterOK, Table
  <2>4. UNCHANGED <<process, tables, left>>
    BY <1>3 DEF WrongPassword
  <2>5. QED
    BY <2>1, <2>3, <2>4, Frames DEF Typed
<1>4. CASE RightPassword(r)
  <2>1. RequestsOK'
    <3> DEFINE q == [req[r] EXCEPT !.at = "right"]
    <3>1. q \in Request
      BY <1>1, StagesTyped DEF Stages
    <3>2. LoginOK(q)
      BY <1>1, <1>4 DEF LoginOK, LoggingIn, RightPassword, Request
    <3>3. QED
      BY <1>1, <1>4, <3>1, <3>2, BecomesTyped DEF RightPassword
  <2>2. UNCHANGED <<process, tables, limiter, left>>
    BY <1>4 DEF RightPassword
  <2>3. QED
    BY <2>1, <2>2, Frames DEF Typed
<1>5. CASE RecordLoginFailure(r)
  <2>1. LimiterOK'
    BY <1>1, <1>5, Recorded
  <2>2. UNCHANGED <<process, tables, left>> /\ Finish(r)
    BY <1>5 DEF RecordLoginFailure
  <2>3. QED
    BY <1>1, <2>1, <2>2, FinishTyped, Frames DEF Typed
<1>6. CASE ClearLoginFailures(r)
  <2>1. RequestsOK'
    <3> DEFINE q == [req[r] EXCEPT !.at = "entering"]
    <3>1. q \in Request
      BY <1>1, StagesTyped DEF Stages
    <3>2. LoginOK(q)
      BY <1>1, <1>6 DEF LoginOK, LoggingIn, ClearLoginFailures, Request
    <3>3. QED
      BY <1>1, <1>6, <3>1, <3>2, BecomesTyped DEF ClearLoginFailures
  <2>2. LimiterOK'
    BY <1>1, <1>6, Cleared
  <2>3. UNCHANGED <<process, tables, left>>
    BY <1>6 DEF ClearLoginFailures
  <2>4. QED
    BY <2>1, <2>2, <2>3, Frames DEF Typed
<1>7. CASE CreateSession(r)
  <2>1. UNCHANGED <<process, limiter, left>> /\ Finish(r)
    BY <1>7 DEF CreateSession
  <2>2. req[r].user \in Users
    BY <1>1, <1>7 DEF CreateSession, LoginOK, LoggingIn
  <2>3. TablesOK'
    BY <1>7, <2>2 DEF CreateSession, Typed, TablesOK
  <2>4. QED
    BY <1>1, <2>1, <2>3, FinishTyped, Frames DEF Typed
<1>8. QED
  BY <1>2, <1>3, <1>4, <1>5, <1>6, <1>7

\* The end of a window.
LEMMA WindowTyped ==
  ASSUME Typed, WindowEnds
  PROVE  /\ Typed' /\ DOMAIN attempts' = DOMAIN attempts
         /\ \A key \in DOMAIN attempts : attempts'[key].failures = attempts[key].failures
<1>1. PICK key \in Running(attempts) : attempts' = [attempts EXCEPT ![key].over = TRUE]
  BY DEF WindowEnds
<1>2. \A k \in DOMAIN attempts : attempts[k] \in CounterOf(clock)
  BY DEF Typed, LimiterOK, Table
<1>3. key \in DOMAIN attempts /\ DOMAIN attempts' = DOMAIN attempts
  BY <1>1 DEF Running
<1>4. \A k \in DOMAIN attempts : attempts'[k] \in CounterOf(clock)
                                 /\ attempts'[k].failures = attempts[k].failures
  BY <1>1, <1>2, <1>3 DEF CounterOf
<1>5. UNCHANGED <<process, tables, clock, guesses, req, left>>
  BY DEF WindowEnds
<1>6. Table(attempts', clock)
  BY <1>3, <1>4 DEF Typed, LimiterOK, Table
<1>7. LimiterOK'
  BY <1>5, <1>6 DEF Typed, LimiterOK, Table
<1>8. QED
  BY <1>3, <1>4, <1>5, <1>7, Frames DEF Typed

\* The token of a start.
LEMMA RestartTyped ==
  ASSUME Typed, NEW c \in Configs, NEW saved \in BOOLEAN, Restart(c, saved)
  PROVE  Typed'
<1>1. ProcessOK'
  <2>1. /\ minted \in Nat /\ stored \in 0 .. minted + 1
        /\ config' = c /\ token' = ResolveAPIToken(c)
        /\ minted' = IF Generates(c) THEN minted + 1 ELSE minted
        /\ stored' = IF Generates(c) /\ saved THEN token' ELSE stored
    BY DEF Restart, Typed, ProcessOK, Tokens
  <2>2. minted' \in Nat
    BY <2>1
  <2>3. token' \in 0 .. minted' + 1
    BY <2>1 DEF ResolveAPIToken, Generates, NoToken, Chosen
  <2>4. stored' \in 0 .. minted' + 1
    BY <2>1, <2>3
  <2>5. QED
    BY <2>1, <2>2, <2>3, <2>4 DEF ProcessOK, Tokens
<1>2. RequestsOK'
  BY IdleTyped DEF Restart, RequestsOK, LoginOK, LoggingIn
<1>3. LimiterOK'
  <2>1. DOMAIN attempts' = {}
    BY DEF Restart
  <2>2. IsFiniteSet({}) /\ Cardinality({}) = 0
    BY FS_EmptySet
  <2>3. Table(attempts', clock)
    BY <2>1, <2>2, Numbers DEF Table
  <2>4. QED
    BY <2>3 DEF Restart, Typed, LimiterOK, Table
<1>4. LeftOK'
  BY SpendTyped DEF Restart, Typed
<1>5. UNCHANGED tables
  BY DEF Restart
<1>6. QED
  BY <1>1, <1>2, <1>3, <1>4, <1>5, Frames DEF Typed

\* Of accounts there is a default one, and none of them is better (betterDefaultAccount).
LEMMA DefaultIs ==
  ASSUME TablesOK, NEW S, S \subseteq Accounts, S # {}
  PROVE  /\ PickDefault(S) \in S
         /\ \A b \in S : /\ account[b].alive => account[PickDefault(S)].alive
                         /\ account[b].alive = account[PickDefault(S)].alive
                              => account[b].updated <= account[PickDefault(S)].updated
<1> DEFINE alive == {a \in S : account[a].alive}
           A == IF alive # {} THEN alive ELSE S
           newest == {a \in A : account[a].updated = 2}
           N == IF newest # {} THEN newest ELSE A
           Best(a) == \A b \in S \ {a} :
               ~BetterDefaultAccount(b, a) /\ (BetterDefaultAccount(a, b) \/ a < b)
<1>1. \A a \in S : account[a].alive \in BOOLEAN /\ account[a].updated \in {1, 2} /\ a \in Nat
  BY AccessAssumption DEF TablesOK, Row
<1>2. N \subseteq S /\ N # {} /\ N \subseteq Nat
  BY <1>1
<1>3. PICK m \in N : \A k \in N : m <= k
  BY <1>2, Least
<1>4. ASSUME NEW b \in S \ {m}
      PROVE  ~BetterDefaultAccount(b, m) /\ (BetterDefaultAccount(m, b) \/ m < b)
  <2>1. m \in S /\ m \in A /\ m \in Nat /\ b \in Nat
    BY <1>1, <1>2, <1>3
  <2>2. CASE account[m].alive # account[b].alive
    <3>1. account[b].alive => account[m].alive
      BY <2>1
    <3>2. account[m].alive /\ ~account[b].alive
      BY <1>1, <2>1, <2>2, <3>1
    <3>3. QED
      BY <2>2, <3>2 DEF BetterDefaultAccount
  <2>3. CASE account[m].alive = account[b].alive
    <3>1. b \in A
      BY <2>1, <2>3
    <3>2. account[b].updated = 2 => account[m].updated = 2
      BY <1>3, <3>1
    <3>3. account[b].updated = account[m].updated => b \in N
      BY <1>1, <1>3, <2>1, <3>1
    <3> HIDE DEF N, A
    <3>4. account[b].updated = account[m].updated => m < b
      BY <1>3, <2>1, <3>3
    <3>5. account[b].updated \in {1, 2} /\ account[m].updated \in {1, 2}
      BY <1>1, <2>1
    <3>6. QED
      BY <2>3, <3>2, <3>4, <3>5 DEF BetterDefaultAccount
  <2>4. QED
    BY <2>2, <2>3
<1>5. m \in S /\ Best(m)
  BY <1>2, <1>3, <1>4
<1>6. PickDefault(S) = CHOOSE a \in S : Best(a)
  BY DEF PickDefault
<1> HIDE DEF Best
<1>7. PickDefault(S) \in S /\ Best(PickDefault(S))
  BY <1>5, <1>6
<1>8. ASSUME NEW b \in S
      PROVE  /\ account[b].alive => account[PickDefault(S)].alive
             /\ account[b].alive = account[PickDefault(S)].alive
                  => account[b].updated <= account[PickDefault(S)].updated
  <2> DEFINE a == PickDefault(S)
  <2>1. a \in S /\ (b # a => ~BetterDefaultAccount(b, a))
    BY <1>7 DEF Best
  <2> HIDE DEF a
  <2>2. /\ account[a].alive \in BOOLEAN /\ account[b].alive \in BOOLEAN
        /\ account[a].updated \in {1, 2} /\ account[b].updated \in {1, 2}
    BY <1>1, <2>1
  <2>3. CASE b = a
    BY <2>2, <2>3 DEF a
  <2>4. CASE b # a
    <3>1. account[b].alive => account[a].alive
      BY <2>1, <2>2, <2>4 DEF BetterDefaultAccount
    <3>2. account[b].alive = account[a].alive => account[b].updated <= account[a].updated
      BY <2>1, <2>2, <2>4 DEF BetterDefaultAccount
    <3>3. QED
      BY <3>1, <3>2 DEF a
  <2>5. QED
    BY <2>3, <2>4
<1>9. QED
  BY <1>7, <1>8

\* The default account of a request is one it may read.
LEMMA DefaultReadable ==
  ASSUME TablesOK, NEW q, ListReadableAccounts(q) # {}
  PROVE  /\ DefaultAccountFor(q) \in ListReadableAccounts(q)
         /\ \A b \in ListReadableAccounts(q) :
               /\ account[b].alive => account[DefaultAccountFor(q)].alive
               /\ account[b].alive = account[DefaultAccountFor(q)].alive
                    => account[b].updated <= account[DefaultAccountFor(q)].updated
<1>1. ListReadableAccounts(q) \subseteq Accounts
  BY DEF ListReadableAccounts, ListVisibleAccounts
<1>2. QED
  BY <1>1, DefaultIs DEF DefaultAccountFor

\* The accounts of a list are the request's.
LEMMA Listed ==
  ASSUME NEW q, q.route \in Api
  PROVE  ListReadableAccounts(q) = {a \in Accounts : May(q, a)}
<1>1. CASE q.user = Nobody
  BY <1>1 DEF ListReadableAccounts, May, CanReadAccountViaAPI
<1>2. CASE q.user # Nobody
  BY <1>2 DEF ListReadableAccounts, ListVisibleAccounts, May, CanReadAccountViaAPI
<1>3. QED
  BY <1>1, <1>2

\* The request a middleware lets in.
LEMMA LetIn ==
  ASSUME Typed, NEW r \in Requests,
         \/ \E route \in Api, given \in Tokens, cookie \in signed \cup {Nobody} :
               RequireAPIToken(r, route, given, cookie)
         \/ \E route \in Console \cup {"visibility"}, cookie \in signed \cup {Nobody} :
               RequireBrowserSession(r, route, cookie)
  PROVE  /\ Typed' /\ UNCHANGED <<process, tables, limiter>> /\ req[r].at = "idle"
         /\ req'[r].at = "authorized" /\ ~req'[r].moved /\ Known(req'[r])
         /\ req'[r].accounts = {} /\ req'[r].script = <<>>
<1>1. signed \subseteq Users /\ Nobody \notin Users /\ token \in Nat /\ RequestsOK /\ LeftOK
      /\ minted \in Nat
  BY AccessAssumption DEF Typed, TablesOK, ProcessOK, Tokens
<1>2. CASE \E route \in Api, given \in Tokens, cookie \in signed \cup {Nobody} :
              RequireAPIToken(r, route, given, cookie)
  <2>1. PICK route \in Api, given \in Tokens, cookie \in signed \cup {Nobody} :
               RequireAPIToken(r, route, given, cookie)
    BY <1>2
  <2> DEFINE script == token # NoToken /\ given = token
             browser == ~script /\ config.auth /\ cookie \in signed
             user == IF browser THEN cookie ELSE Nobody
             admin == browser /\ cookie \in admins
             q == [Idle EXCEPT !.at = "authorized", !.route = route, !.token = given,
                               !.cookie = cookie, !.user = user, !.admin = admin]
  <2>2. /\ Become(r, q) /\ (script \/ browser \/ token = NoToken) /\ req[r].at = "idle"
        /\ UNCHANGED <<process, tables, limiter>> /\ Spend("calls")
    BY <2>1, Zenon DEF RequireAPIToken
  <2>3. user \in Users \cup {Nobody} /\ admin \in BOOLEAN /\ given \in Nat
        /\ cookie \in Users \cup {Nobody}
    BY <1>1 DEF Tokens
  <2>4. /\ browser => user = cookie
        /\ ~browser => user = Nobody
        /\ browser => (admin <=> cookie \in admins)
    OBVIOUS
  <2>5. script \/ (browser /\ (token = NoToken \/ given # token) /\ config.auth /\ cookie \in signed)
        \/ (~browser /\ token = NoToken /\ (~config.auth \/ cookie = Nobody))
    BY <2>2
  <2>6. script => ~browser
    OBVIOUS
  <2>7. script => token # NoToken /\ given = token
    OBVIOUS
  <2> HIDE DEF script, browser, user, admin
  <2>8. /\ q \in Request /\ LoginOK(q) /\ q.at = "authorized" /\ q.route = route /\ q.token = given
        /\ q.cookie = cookie /\ q.user = user /\ q.accounts = {} /\ q.script = <<>>
    BY <2>3 DEF Idle, Request, Stages, LoginOK, LoggingIn
  <2>9. (q.admin <=> admin) /\ ~q.moved
    BY DEF Idle
  <2> HIDE DEF q
  <2>10. Known(q)
    BY <2>4, <2>5, <2>6, <2>7, <2>8, <2>9 DEF Known
  <2>11. req'[r] = q /\ RequestsOK'
    BY <1>1, <2>2, <2>8, Becomes, BecomesTyped
  <2>12. LeftOK'
    BY <1>1, <2>2, SpendTyped
  <2>13. QED
    BY <2>2, <2>8, <2>9, <2>10, <2>11, <2>12, Frames DEF Typed
<1>3. CASE \E route \in Console \cup {"visibility"}, cookie \in signed \cup {Nobody} :
              RequireBrowserSession(r, route, cookie)
  <2>1. PICK route \in Console \cup {"visibility"}, cookie \in signed \cup {Nobody} :
               RequireBrowserSession(r, route, cookie)
    BY <1>3
  <2> DEFINE user == IF config.auth THEN cookie ELSE Nobody
             admin == config.auth /\ cookie \in admins
             q == [Idle EXCEPT !.at = "authorized", !.route = route, !.cookie = cookie,
                               !.user = user, !.admin = admin]
  <2>2. /\ Become(r, q) /\ (config.auth => cookie \in signed) /\ req[r].at = "idle"
        /\ UNCHANGED <<process, tables, limiter>> /\ Spend("calls")
    BY <2>1, Zenon DEF RequireBrowserSession
  <2>3. user \in Users \cup {Nobody} /\ admin \in BOOLEAN /\ cookie \in Users \cup {Nobody}
    BY <1>1
  <2>4. /\ config.auth => user = cookie /\ (admin <=> cookie \in admins)
        /\ ~config.auth => user = Nobody
    OBVIOUS
  <2> HIDE DEF user, admin
  <2>5. /\ q \in Request /\ LoginOK(q) /\ q.at = "authorized" /\ q.route = route
        /\ q.cookie = cookie /\ q.user = user /\ q.accounts = {} /\ q.script = <<>>
    BY <2>3 DEF Idle, Request, Stages, LoginOK, LoggingIn, NoToken
  <2>6. (q.admin <=> admin) /\ ~q.moved
    BY DEF Idle
  <2>7. route \notin Api
    BY DEF Api, Console
  <2> HIDE DEF q
  <2>8. Known(q)
    BY <2>2, <2>4, <2>5, <2>6, <2>7 DEF Known
  <2>9. req'[r] = q /\ RequestsOK'
    BY <1>1, <2>2, <2>5, Becomes, BecomesTyped
  <2>10. LeftOK'
    BY <1>1, <2>2, SpendTyped
  <2>11. QED
    BY <2>2, <2>5, <2>6, <2>8, <2>9, <2>10, Frames DEF Typed
<1>4. QED
  BY <1>2, <1>3

----------------------------------------------------------------------------
(* Reach *)

\* What is said of a request depends on the process and the tables only.
LEMMA Carried ==
  ASSUME UNCHANGED <<process, tables>>, NEW p \in Requests
  PROVE  /\ Known(req[p])' <=> Known(req'[p])
         /\ Chose(req[p])' <=> Chose(req'[p])
<1>1. Known(req[p])' <=> Known(req'[p])
  BY DEF Known, process, tables
<1>2. \A a : May(req[p], a)' <=> May(req'[p], a)
  BY DEF May, CanReadAccountViaAPI, CanAccessAccount, IsAdminRequest, tables
<1>3. \A a : BestOf(req[p], a)' <=> BestOf(req'[p], a)
  BY <1>2 DEF BestOf, tables
<1>4. MayScript(req[p])' <=> MayScript(req'[p])
  BY DEF MayScript, IsAdminRequest, tables
<1>5. Anchored(req[p])' <=> Anchored(req'[p])
  BY DEF Anchored, HasJob, tables
<1>6. Chose(req[p])' <=> Chose(req'[p])
  BY <1>2, <1>3, <1>4, <1>5 DEF Chose
<1>7. QED
  BY <1>1, <1>6

\* And on what the middleware put into it.
LEMMA Alike ==
  ASSUME NEW q, NEW p, q.route = p.route, q.token = p.token, q.cookie = p.cookie,
         q.user = p.user, q.admin = p.admin
  PROVE  /\ Known(q) <=> Known(p)
         /\ \A a : May(q, a) <=> May(p, a)
         /\ \A a : BestOf(q, a) <=> BestOf(p, a)
<1>1. \A a : May(q, a) <=> May(p, a)
  BY DEF May, CanReadAccountViaAPI, CanAccessAccount, IsAdminRequest
<1>2. \A a : BestOf(q, a) <=> BestOf(p, a)
  BY <1>1 DEF BestOf
<1>3. Known(q) <=> Known(p)
  BY DEF Known
<1>4. QED
  BY <1>1, <1>2, <1>3

\* A step of one request that changes nothing else.
LEMMA OneReaches ==
  ASSUME Reach, UNCHANGED <<process, tables>>, NEW r \in Requests,
         \A p \in Requests \ {r} : req'[p] = req[p],
         Sound(req'[r]) => Known(req'[r]) /\ Chose(req'[r])
  PROVE  Reach'
<1> SUFFICES ASSUME NEW p \in Requests, Sound(req[p])' PROVE Known(req[p])' /\ Chose(req[p])'
  BY DEF Reach
<1>1. Sound(req'[p])
  BY DEF Sound
<1>2. Known(req'[p]) /\ Chose(req'[p])
  BY <1>1 DEF Reach
<1>3. QED
  BY <1>2, Carried

\* Accounts change that a request has not chosen.
LEMMA AccountsMoved ==
  ASSUME UNCHANGED <<process, signed, admins, setting, jobs>>, NEW p \in Requests, req'[p] = req[p],
         Known(req[p]), Chose(req[p]), req[p].route # "default",
         \A a \in req[p].accounts : account'[a] = account[a]
  PROVE  Known(req[p])' /\ Chose(req[p])'
<1>1. Known(req[p])'
  BY DEF Known, process
<1>2. \A a \in req[p].accounts : May(req[p], a)' <=> May(req[p], a)
  BY DEF May, CanReadAccountViaAPI, CanAccessAccount, IsAdminRequest
<1>3. MayScript(req[p])' <=> MayScript(req[p])
  BY DEF MayScript, IsAdminRequest
<1>4. Anchored(req[p])' <=> Anchored(req[p])
  BY DEF Anchored, HasJob
<1>5. QED
  BY <1>1, <1>2, <1>3, <1>4 DEF Chose

\* Jobs are made.
LEMMA JobsMore ==
  ASSUME UNCHANGED <<process, signed, admins, account, setting>>, jobs \subseteq jobs',
         NEW p \in Requests, req'[p] = req[p], Known(req[p]), Chose(req[p])
  PROVE  Known(req[p])' /\ Chose(req[p])'
<1>1. Known(req[p])'
  BY DEF Known, process
<1>2. \A a : May(req[p], a)' <=> May(req[p], a)
  BY DEF May, CanReadAccountViaAPI, CanAccessAccount, IsAdminRequest
<1>3. \A a : BestOf(req[p], a)' <=> BestOf(req[p], a)
  BY <1>2 DEF BestOf
<1>4. MayScript(req[p])' <=> MayScript(req[p])
  BY DEF MayScript, IsAdminRequest
<1>5. Anchored(req[p]) => Anchored(req[p])'
  BY DEF Anchored, HasJob
<1>6. QED
  BY <1>1, <1>2, <1>3, <1>4, <1>5 DEF Chose

\* The setting changes, and the request is for no script.
LEMMA SettingMoved ==
  ASSUME UNCHANGED <<process, signed, admins, account, jobs>>, NEW p \in Requests, req'[p] = req[p],
         Known(req[p]), Chose(req[p]), req[p].route # "script"
  PROVE  Known(req[p])' /\ Chose(req[p])'
<1>1. Known(req[p])'
  BY DEF Known, process
<1>2. \A a : May(req[p], a)' <=> May(req[p], a)
  BY DEF May, CanReadAccountViaAPI, CanAccessAccount, IsAdminRequest
<1>3. \A a : BestOf(req[p], a)' <=> BestOf(req[p], a)
  BY <1>2 DEF BestOf
<1>4. Anchored(req[p])' <=> Anchored(req[p])
  BY DEF Anchored, HasJob
<1>5. QED
  BY <1>1, <1>2, <1>3, <1>4 DEF Chose

\* Sessions and roles of others change.
LEMMA UsersMoved ==
  ASSUME UNCHANGED <<process, account, setting, jobs>>, NEW p \in Requests, req'[p] = req[p],
         Known(req[p]), Chose(req[p]), req[p].cookie \in admins' <=> req[p].cookie \in admins,
         req[p].cookie \in signed => req[p].cookie \in signed'
  PROVE  Known(req[p])' /\ Chose(req[p])'
<1>1. Known(req[p])'
  BY DEF Known, process
<1>2. \A a : May(req[p], a)' <=> May(req[p], a)
  BY DEF May, CanReadAccountViaAPI, CanAccessAccount, IsAdminRequest
<1>3. \A a : BestOf(req[p], a)' <=> BestOf(req[p], a)
  BY <1>2 DEF BestOf
<1>4. MayScript(req[p])' <=> MayScript(req[p])
  BY DEF MayScript, IsAdminRequest
<1>5. Anchored(req[p])' <=> Anchored(req[p])
  BY DEF Anchored, HasJob
<1>6. QED
  BY <1>1, <1>2, <1>3, <1>4, <1>5 DEF Chose

\* Logging in, and the end of a window.
LEMMA LoginReach ==
  ASSUME Typed, Reach, NEW r \in Requests,
         \/ \E u \in Users, ip \in Addresses : AllowLogin(r, u, ip)
         \/ WrongPassword(r) \/ RightPassword(r)
         \/ RecordLoginFailure(r) \/ ClearLoginFailures(r)
  PROVE  Reach'
<1>1. req \in [Requests -> Request] /\ RequestsOK /\ LimiterOK /\ DOMAIN req[r] = DOMAIN Idle
  BY DEF Typed, RequestsOK, Request, Idle
<1>2. UNCHANGED <<process, tables>>
  BY DEF AllowLogin, WrongPassword, RightPassword, RecordLoginFailure, ClearLoginFailures
<1>3. \/ req' = req
      \/ \E q : Become(r, q) /\ q.at \notin {"authorized", "resolved"}
  <2>1. \A l : [req[r] EXCEPT !.at = l].at = l
    BY <1>1 DEF Request
  <2>2. CASE \E u \in Users, ip \in Addresses : AllowLogin(r, u, ip)
    <3>1. PICK u \in Users, ip \in Addresses : AllowLogin(r, u, ip)
      BY <2>2
    <3> DEFINE q == [Idle EXCEPT !.at = "checking", !.user = u, !.from = ip]
    <3>2. q.at = "checking"
      BY DEF Idle
    <3>3. req' = req \/ Become(r, q)
      BY <1>1, <3>1, Allowed
    <3>4. QED
      BY <3>2, <3>3
  <2>3. CASE WrongPassword(r)
    <3> DEFINE q == [req[r] EXCEPT !.at = "wrong"]
    <3>1. Become(r, q)
      BY <2>3 DEF WrongPassword
    <3>2. q.at = "wrong"
      BY <2>1
    <3>3. QED
      BY <3>1, <3>2
  <2>4. CASE RightPassword(r)
    <3> DEFINE q == [req[r] EXCEPT !.at = "right"]
    <3>1. Become(r, q)
      BY <2>4 DEF RightPassword
    <3>2. q.at = "right"
      BY <2>1
    <3>3. QED
      BY <3>1, <3>2
  <2>5. CASE ClearLoginFailures(r)
    <3> DEFINE q == [req[r] EXCEPT !.at = "entering"]
    <3>1. Become(r, q)
      BY <2>5 DEF ClearLoginFailures
    <3>2. q.at = "entering"
      BY <2>1
    <3>3. QED
      BY <3>1, <3>2
  <2>6. CASE RecordLoginFailure(r)
    BY <2>6 DEF RecordLoginFailure, Finish, Idle
  <2>7. QED
    BY <2>2, <2>3, <2>4, <2>5, <2>6
<1>4. CASE req' = req
  BY <1>2, <1>4, OneReaches DEF Reach
<1>5. CASE \E q : Become(r, q) /\ q.at \notin {"authorized", "resolved"}
  BY <1>1, <1>2, <1>5, Becomes, OneReaches DEF Sound
<1>6. QED
  BY <1>3, <1>4, <1>5

\* A session begins.
LEMMA SessionReach ==
  ASSUME Typed, Reach, NEW r \in Requests, CreateSession(r)
  PROVE  Reach'
<1>1. /\ req'[r] = Idle /\ \A p \in Requests \ {r} : req'[p] = req[p]
      /\ UNCHANGED <<process, account, setting, jobs, admins>> /\ signed \subseteq signed'
  BY Becomes DEF CreateSession, Finish, Typed
<1> SUFFICES ASSUME NEW p \in Requests, Sound(req[p])' PROVE Known(req[p])' /\ Chose(req[p])'
  BY DEF Reach
<1>2. p # r
  BY <1>1 DEF Sound, Idle
<1>3. req'[p] = req[p] /\ Known(req[p]) /\ Chose(req[p])
  BY <1>1, <1>2 DEF Sound, Reach
<1>4. QED
  BY <1>1, <1>3, UsersMoved

\* The steps that put a request into the gateway or end a window, and a start.
LEMMA BareReach ==
  ASSUME Typed, Reach,
         \/ WindowEnds
         \/ \E c \in Configs, saved \in BOOLEAN : Restart(c, saved)
  PROVE  Reach'
<1>1. CASE WindowEnds
  <2>1. UNCHANGED <<process, tables>> /\ req' = req
    BY <1>1 DEF WindowEnds
  <2>2. \A p \in Requests : Sound(req[p])' => Known(req[p])' /\ Chose(req[p])'
    BY <2>1, Carried DEF Reach, Sound
  <2>3. QED
    BY <2>2 DEF Reach
<1>2. CASE \E c \in Configs, saved \in BOOLEAN : Restart(c, saved)
  BY <1>2 DEF Restart, Reach, Sound, Idle
<1>3. QED
  BY <1>1, <1>2

\* A middleware lets a request in.
LEMMA LetInReach ==
  ASSUME Typed, Reach, NEW r \in Requests,
         \/ \E route \in Api, given \in Tokens, cookie \in signed \cup {Nobody} :
               RequireAPIToken(r, route, given, cookie)
         \/ \E route \in Console \cup {"visibility"}, cookie \in signed \cup {Nobody} :
               RequireBrowserSession(r, route, cookie)
  PROVE  Reach'
<1>1. /\ UNCHANGED <<process, tables, limiter>> /\ req'[r].at = "authorized" /\ Known(req'[r])
      /\ req'[r].accounts = {} /\ req'[r].script = <<>>
  BY LetIn
<1>2. Chose(req'[r])
  BY <1>1 DEF Chose, Anchored
<1>3. \A p \in Requests \ {r} : req'[p] = req[p]
  BY DEF RequireAPIToken, RequireBrowserSession, Become, Typed, RequestsOK
<1>4. QED
  BY <1>1, <1>2, <1>3, OneReaches

\* A handler that only goes on: the request it leaves is well typed and has chosen its own.
LEMMA GoesOn ==
  ASSUME Typed, Reach, NEW r \in Requests, UNCHANGED <<process, tables, limiter, left>>,
         \/ Finish(r)
         \/ \E q \in Request : Become(r, q) /\ LoginOK(q) /\ (Sound(q) => Known(q) /\ Chose(q))
  PROVE  Typed' /\ Reach'
<1>1. RequestsOK
  BY DEF Typed
<1>2. \E q \in Request : Become(r, q) /\ LoginOK(q) /\ (Sound(q) => Known(q) /\ Chose(q))
  BY IdleTyped DEF Finish, Sound, Idle
<1>3. PICK q \in Request : Become(r, q) /\ LoginOK(q) /\ (Sound(q) => Known(q) /\ Chose(q))
  BY <1>2
<1>4. RequestsOK' /\ req'[r] = q /\ \A p \in Requests \ {r} : req'[p] = req[p]
  BY <1>1, <1>3, BecomesTyped, Becomes
<1>5. Typed'
  BY <1>4, Frames DEF Typed
<1>6. Reach'
  BY <1>3, <1>4, OneReaches
<1>7. QED
  BY <1>5, <1>6

\* An account by its reference.
LEMMA ResolveKeeps ==
  ASSUME Typed, Reach, NEW r \in Requests, NEW a \in Accounts, ResolveAccount(r, a)
  PROVE  Typed' /\ Reach'
<1> DEFINE q == req[r]
           next == [q EXCEPT !.at = "resolved", !.accounts = {a}, !.owner = account[a].owner]
<1>1. q \in Request /\ q.at = "authorized" /\ q.route \in ByRef
      /\ UNCHANGED <<process, tables, limiter, left>>
  BY DEF ResolveAccount, Typed, RequestsOK
<1>2. Finish(r) \/ (May(q, a) /\ Become(r, next))
  BY Zenon DEF ResolveAccount, May
<1>3. CASE Finish(r)
  BY <1>1, <1>3, GoesOn
<1>4. CASE May(q, a) /\ Become(r, next)
  <2>1. Sound(q) => Known(q) /\ q.script = <<>>
    BY <1>1 DEF Reach, Chose, Sound
  <2> DEFINE owner == account[a].owner
  <2>0. owner \in Users \cup {Nobody}
    BY DEF Typed, TablesOK, Row
  <2> HIDE DEF q, owner
  <2>2. /\ next \in Request /\ next.at = "resolved" /\ next.accounts = {a} /\ next.script = q.script
        /\ next.route = q.route /\ next.token = q.token /\ next.cookie = q.cookie
        /\ next.user = q.user /\ next.owner = account[a].owner
    BY <1>1, <2>0 DEF Request, Stages, owner
  <2>3. next.admin = q.admin /\ next.moved = q.moved
    BY <1>1 DEF Request
  <2> HIDE DEF next
  <2>4. (Known(next) <=> Known(q)) /\ \A b : May(next, b) <=> May(q, b)
    BY <2>2, <2>3, Alike
  <2>5. Sound(next) => Sound(q)
    BY <1>1, <2>3 DEF Sound
  <2>6. q.route \in Api \cup Console /\ q.route # "default"
    BY <1>1 DEF ByRef, Api, Console
  <2>7. q.script = <<>> => Anchored(next)
    BY <2>2 DEF Anchored
  <2>8. Sound(next) => Known(next) /\ Chose(next)
    BY <1>4, <2>1, <2>2, <2>4, <2>5, <2>6, <2>7 DEF Chose
  <2>9. LoginOK(next)
    BY <2>2 DEF LoginOK, LoggingIn
  <2>10. QED
    BY <1>1, <1>4, <2>2, <2>8, <2>9, GoesOn
<1>5. QED
  BY <1>2, <1>3, <1>4

\* Accounts without a reference.
LEMMA ListKeeps ==
  ASSUME Typed, Reach, NEW r \in Requests, ListAccounts(r)
  PROVE  Typed' /\ Reach'
<1> DEFINE q == req[r]
           list == IF q.route = "accounts" THEN ListVisibleAccounts(q) ELSE ListReadableAccounts(q)
           chosen == IF q.route = "default" THEN {DefaultAccountFor(q)} ELSE list
           next == [q EXCEPT !.at = "resolved", !.accounts = chosen]
<1>1. /\ q \in Request /\ q.at = "authorized" /\ q.route \in {"default", "instances", "accounts"}
      /\ UNCHANGED <<process, tables, limiter, left>> /\ TablesOK
  BY DEF ListAccounts, Typed, RequestsOK
<1>2. Finish(r) \/ (list # {} /\ Become(r, next))
  BY Zenon DEF ListAccounts
<1>3. CASE Finish(r)
  BY <1>1, <1>3, GoesOn
<1>4. CASE list # {} /\ Become(r, next)
  <2>1. Sound(q) => Known(q) /\ q.script = <<>>
    BY <1>1 DEF Reach, Chose, Sound
  <2>2. list = {a \in Accounts : May(q, a)}
    <3>1. CASE q.route = "accounts"
      <4>1. q.route \notin Api
        BY <3>1 DEF Api
      <4>2. QED
        BY <3>1, <4>1 DEF ListVisibleAccounts, May
    <3>2. CASE q.route # "accounts"
      <4>1. q.route \in Api
        BY <1>1, <3>2 DEF Api
      <4>2. QED
        BY <3>2, <4>1, Listed
    <3>3. QED
      BY <3>1, <3>2
  <2>3. q.route = "default" =>
           /\ chosen = {DefaultAccountFor(q)} /\ DefaultAccountFor(q) \in list
           /\ \A b \in list :
                 /\ account[b].alive => account[DefaultAccountFor(q)].alive
                 /\ account[b].alive = account[DefaultAccountFor(q)].alive
                      => account[b].updated <= account[DefaultAccountFor(q)].updated
    BY <1>1, <1>4, DefaultReadable
  <2>4. q.route # "default" => chosen = list
    OBVIOUS
  <2> HIDE DEF list, chosen, q
  <2>5. chosen \subseteq Accounts /\ \A a \in chosen : May(q, a)
    BY <2>2, <2>3, <2>4
  <2>6. q.route = "default" => \A a \in chosen : BestOf(q, a)
    BY <2>2, <2>3 DEF BestOf
  <2>7. /\ next \in Request /\ next.at = "resolved" /\ next.accounts = chosen
        /\ next.route = q.route /\ next.token = q.token /\ next.cookie = q.cookie
        /\ next.user = q.user /\ next.script = q.script
    BY <1>1, <2>5 DEF Request, Stages
  <2>8. next.admin = q.admin /\ next.moved = q.moved
    BY <1>1 DEF Request
  <2> HIDE DEF next
  <2>9. /\ Known(next) <=> Known(q)
        /\ \A b : May(next, b) <=> May(q, b)
        /\ \A b : BestOf(next, b) <=> BestOf(q, b)
    BY <2>7, <2>8, Alike
  <2>10. Sound(next) => Sound(q)
    BY <1>1, <2>8 DEF Sound
  <2>11. q.route \in Api \cup Console /\ q.route # "script"
    BY <1>1 DEF Api, Console
  <2>12. Sound(next) => Known(next) /\ Chose(next)
    <3>1. Anchored(next)
      BY <1>1, <2>7 DEF Anchored, ByRef
    <3>2. QED
      BY <2>1, <2>5, <2>6, <2>7, <2>9, <2>10, <2>11, <3>1 DEF Chose
  <2>13. LoginOK(next)
    BY <2>7 DEF LoginOK, LoggingIn
  <2>14. QED
    BY <1>1, <1>4, <2>7, <2>12, <2>13, GoesOn
<1>5. QED
  BY <1>2, <1>3, <1>4

\* A script by its name.
LEMMA ScriptKeeps ==
  ASSUME Typed, Reach, NEW r \in Requests, NEW script \in Scripts, NEW readable \in BOOLEAN,
         ResolveVisibleScript(r, script, readable)
  PROVE  Typed' /\ Reach'
<1> DEFINE q == req[r]
           next == [q EXCEPT !.script = script]
<1>1. /\ q \in Request /\ q.at = "resolved" /\ q.route = "script" /\ LoginOK(q)
      /\ UNCHANGED <<process, tables, limiter, left>> /\ TablesOK
  BY DEF ResolveVisibleScript, Typed, RequestsOK
<1>2. Finish(r) \/ (Allows(q, script, readable) /\ Become(r, next))
  BY Zenon DEF ResolveVisibleScript
<1>3. CASE Finish(r)
  BY <1>1, <1>3, GoesOn
<1>4. CASE Allows(q, script, readable) /\ Become(r, next)
  <2>1. Sound(q) => Known(q) /\ Chose(q)
    BY DEF Reach
  <2> HIDE DEF q
  <2>2. /\ next \in Request /\ next.at = q.at /\ next.accounts = q.accounts /\ next.script = script
        /\ next.route = q.route /\ next.token = q.token /\ next.cookie = q.cookie
        /\ next.user = q.user /\ next.owner = q.owner
    BY <1>1 DEF Request
  <2>3. next.admin = q.admin /\ next.moved = q.moved
    BY <1>1 DEF Request
  <2> HIDE DEF next
  <2>4. /\ Known(next) <=> Known(q)
        /\ \A b : May(next, b) <=> May(q, b)
        /\ \A b : BestOf(next, b) <=> BestOf(q, b)
    BY <2>2, <2>3, Alike
  <2>5. Sound(next) => Sound(q)
    BY <2>2, <2>3 DEF Sound
  <2>6. MayScript(next)
    <3>1. setting.form \in {"json", "text"}
      BY <1>1 DEF TablesOK
    <3>2. CASE IsAdminRequest(q)
      BY <2>2, <2>3, <3>2 DEF MayScript, IsAdminRequest
    <3>3. CASE ~IsAdminRequest(q)
      <4>1. LET dirs == ParseScriptDirAllowlist(setting) IN
              dirs = {} \/ \E dir \in dirs : IsPrefix(dir, script)
        BY <1>4, <3>3 DEF Allows
      <4>2. QED
        BY <2>2, <3>1, <4>1 DEF MayScript, ParseScriptDirAllowlist
    <3>4. QED
      BY <3>2, <3>3
  <2>7. Anchored(q) => Anchored(next)
    BY <1>1, <2>2 DEF Anchored
  <2>8. Sound(next) => Known(next) /\ Chose(next)
    BY <1>1, <2>1, <2>2, <2>4, <2>5, <2>6, <2>7 DEF Chose
  <2>9. LoginOK(next)
    BY <1>1, <2>2 DEF LoginOK, LoggingIn
  <2>10. QED
    BY <1>1, <1>4, <2>2, <2>8, <2>9, GoesOn
<1>5. QED
  BY <1>2, <1>3, <1>4

\* A script by its job.
LEMMA JobKeeps ==
  ASSUME Typed, Reach, NEW r \in Requests, NEW script \in Scripts, ResolveScriptJob(r, script)
  PROVE  Typed' /\ Reach'
<1> DEFINE q == req[r]
           keys == {q.owner} \cup IF q.route = "log" THEN q.accounts ELSE {}
           next == [q EXCEPT !.script = script]
<1>1. /\ q \in Request /\ q.at = "resolved" /\ q.route \in {"disable", "log"} /\ LoginOK(q)
      /\ UNCHANGED <<process, tables, limiter, left>>
  BY DEF ResolveScriptJob, Typed, RequestsOK
<1>2. Finish(r) \/ ((\E key \in keys : <<key, script>> \in jobs) /\ Become(r, next))
  BY Zenon DEF ResolveScriptJob
<1>3. CASE Finish(r)
  BY <1>1, <1>3, GoesOn
<1>4. CASE (\E key \in keys : <<key, script>> \in jobs) /\ Become(r, next)
  <2>1. Sound(q) => Known(q) /\ Chose(q)
    BY DEF Reach
  <2>2. \A key \in keys : key = q.owner \/ key \in q.accounts
    OBVIOUS
  <2> HIDE DEF q, keys
  <2>3. /\ next \in Request /\ next.at = q.at /\ next.accounts = q.accounts /\ next.script = script
        /\ next.route = q.route /\ next.token = q.token /\ next.cookie = q.cookie
        /\ next.user = q.user /\ next.owner = q.owner
    BY <1>1 DEF Request
  <2>4. next.admin = q.admin /\ next.moved = q.moved
    BY <1>1 DEF Request
  <2> HIDE DEF next
  <2>5. /\ Known(next) <=> Known(q)
        /\ \A b : May(next, b) <=> May(q, b)
        /\ \A b : BestOf(next, b) <=> BestOf(q, b)
    BY <2>3, <2>4, Alike
  <2>6. Sound(next) => Sound(q)
    BY <2>3, <2>4 DEF Sound
  <2>7. Anchored(q) => Anchored(next)
    <3> SUFFICES ASSUME Anchored(q) PROVE Anchored(next)
      OBVIOUS
    <3>1. PICK a \in q.accounts : q.owner = account[a].owner
      BY <1>1 DEF Anchored, ByRef
    <3>2. PICK key \in keys : <<key, script>> \in jobs
      BY <1>4
    <3>3. \E b \in q.accounts : key \in {b, account[b].owner}
      BY <2>2, <3>1, <3>2
    <3>4. HasJob(next, script)
      BY <2>3, <3>2, <3>3 DEF HasJob
    <3>5. QED
      BY <2>3, <3>1, <3>4 DEF Anchored
  <2>8. Sound(next) => Known(next) /\ Chose(next)
    BY <1>1, <2>1, <2>3, <2>5, <2>6, <2>7 DEF Chose
  <2>9. LoginOK(next)
    BY <1>1, <2>3 DEF LoginOK, LoggingIn
  <2>10. QED
    BY <1>1, <1>4, <2>3, <2>8, <2>9, GoesOn
<1>5. QED
  BY <1>2, <1>3, <1>4

\* Requests that a change has not moved are as they were.
LEMMA Unmoved ==
  ASSUME RequestsOK, NEW rs, NEW p \in Requests,
         \/ req' = Moves(rs)
         \/ \E r \in Requests : req' = [Moves(rs) EXCEPT ![r] = Idle],
         Sound(req'[p])
  PROVE  p \notin rs /\ req'[p] = req[p] /\ Sound(req[p])
<1>1. req'[p] = Moves(rs)[p]
  <2>1. CASE req' = Moves(rs)
    BY <2>1
  <2>2. CASE \E r \in Requests : req' = [Moves(rs) EXCEPT ![r] = Idle]
    <3>1. PICK r \in Requests : req' = [Moves(rs) EXCEPT ![r] = Idle]
      BY <2>2
    <3>2. ~Sound(Idle) /\ req'[r] = Idle
      BY <3>1, MovesAndEnds DEF Sound, Idle
    <3>3. p # r
      BY <3>2
    <3>4. QED
      BY <3>1, <3>3, MovesAndEnds
  <2>3. QED
    BY <2>1, <2>2
<1>2. p \notin rs
  BY <1>1, MovesRequests DEF Sound
<1>3. QED
  BY <1>1, <1>2, MovesRequests

\* The handler at work.
LEMMA OperateKeeps ==
  ASSUME Typed, Reach, NEW r \in Requests, Operate(r)
  PROVE  Typed' /\ Reach'
<1> DEFINE q == req[r]
           meets == {p \in Requests :
                       req[p].route = "default" \/ req[p].accounts \cap q.accounts # {}}
<1>1. /\ UNCHANGED <<process, signed, admins, setting, limiter, left>>
      /\ RequestsOK /\ TablesOK /\ \A p \in Requests : req[p] \in Request
  BY DEF Operate, Typed, RequestsOK
<1>2. ASSUME UNCHANGED account, Finish(r), jobs \subseteq jobs', jobs' \subseteq Jobs
      PROVE  Typed' /\ Reach'
  <2>1. /\ req'[r] = Idle /\ \A p \in Requests \ {r} : req'[p] = req[p]
        /\ RequestsOK'
    BY <1>1, <1>2, Becomes, FinishTyped DEF Finish
  <2>2. TablesOK'
    BY <1>1, <1>2 DEF TablesOK
  <2>3. Typed'
    BY <1>1, <2>1, <2>2, Frames DEF Typed
  <2>4. ASSUME NEW p \in Requests, Sound(req'[p])
        PROVE  Known(req[p])' /\ Chose(req[p])'
    <3>1. p # r
      BY <2>1, <2>4 DEF Sound, Idle
    <3>2. req'[p] = req[p] /\ Known(req[p]) /\ Chose(req[p])
      BY <2>1, <2>4, <3>1 DEF Reach
    <3>3. QED
      BY <1>1, <1>2, <3>2, JobsMore
  <2>5. Reach'
    BY <2>4 DEF Reach, Sound
  <2>6. QED
    BY <2>3, <2>5
<1>3. ASSUME UNCHANGED jobs, NEW alive \in BOOLEAN,
             account' = [a \in Accounts |->
                IF a \notin q.accounts THEN account[a]
                ELSE IF q.route = "share"
                     THEN [account[a] EXCEPT !.shared = ~@, !.updated = 2]
                     ELSE [account[a] EXCEPT !.alive = alive, !.updated = 2]],
             req' = [Moves(meets) EXCEPT ![r] = Idle]
      PROVE  Typed' /\ Reach'
  <2>1. \A a \in Accounts :
          /\ account[a] \in Row
          /\ [account[a] EXCEPT !.shared = ~@, !.updated = 2] \in Row
          /\ [account[a] EXCEPT !.alive = alive, !.updated = 2] \in Row
    <3>1. TAKE a \in Accounts
    <3>2. account[a] \in Row
      BY <1>1 DEF TablesOK
    <3>3. \A b \in BOOLEAN : /\ [account[a] EXCEPT !.shared = b, !.updated = 2] \in Row
                             /\ [account[a] EXCEPT !.alive = b, !.updated = 2] \in Row
      BY <3>2 DEF Row
    <3>4. (~account[a].shared) \in BOOLEAN
      BY <3>2 DEF Row
    <3>5. [account[a] EXCEPT !.shared = ~account[a].shared, !.updated = 2] \in Row
      BY <3>3, <3>4, Zenon
    <3>6. QED
      BY <3>2, <3>3, <3>5, Zenon
  <2>2. account' \in [Accounts -> Row] /\ \A a \in Accounts \ q.accounts : account'[a] = account[a]
    BY <1>3, <2>1
  <2>3. TablesOK'
    BY <1>1, <1>3, <2>2 DEF TablesOK
  <2>4. RequestsOK'
    BY <1>1, <1>3, MovesAndEnds
  <2>5. Typed'
    BY <1>1, <2>3, <2>4, Frames DEF Typed
  <2>6. ASSUME NEW p \in Requests, Sound(req'[p])
        PROVE  Known(req[p])' /\ Chose(req[p])'
    <3>1. p \notin meets /\ req'[p] = req[p] /\ Sound(req[p])
      BY <1>1, <1>3, <2>6, Unmoved
    <3>2. req[p].route # "default" /\ \A a \in req[p].accounts : account'[a] = account[a]
      BY <1>1, <2>2, <3>1 DEF Request
    <3>3. Known(req[p]) /\ Chose(req[p])
      BY <3>1 DEF Reach
    <3>4. QED
      BY <1>1, <1>3, <3>1, <3>2, <3>3, AccountsMoved
  <2>7. Reach'
    BY <2>6 DEF Reach, Sound
  <2>8. QED
    BY <2>5, <2>7
<1>4. UNCHANGED account /\ Finish(r) => jobs \subseteq jobs' /\ jobs' \subseteq Jobs
  <2>1. Operate(r) => \/ jobs' = jobs
                      \/ /\ q.script # <<>>
                         /\ \E key \in q.accounts \cup {q.owner} : jobs' = jobs \cup {<<key, q.script>>}
                      \/ \E scripts \in SUBSET Healed(q.owner) : jobs' = jobs \cup {q.owner} \X scripts
    BY DEF Operate, Works, ForScript
  <2>2. q.accounts \cup {q.owner} \subseteq Accounts \cup Users \cup {Nobody}
    BY <1>1 DEF Request
  <2>3. q.script # <<>> => q.script \in Scripts
    BY <1>1 DEF Request
  <2>4. Healed(q.owner) \subseteq Scripts /\ jobs \subseteq Jobs
    BY <1>1 DEF Healed, TablesOK
  <2> HIDE DEF q
  <2>5. QED
    BY <2>1, <2>2, <2>3, <2>4 DEF Jobs
<1>5. \/ UNCHANGED account /\ Finish(r)
      \/ /\ \E alive \in BOOLEAN :
               account' = [a \in Accounts |->
                  IF a \notin q.accounts THEN account[a]
                  ELSE IF q.route = "share"
                       THEN [account[a] EXCEPT !.shared = ~@, !.updated = 2]
                       ELSE [account[a] EXCEPT !.alive = alive, !.updated = 2]]
         /\ req' = [Moves(meets) EXCEPT ![r] = Idle] /\ UNCHANGED jobs
  BY Zenon DEF Operate
<1>6. QED
  BY <1>2, <1>3, <1>4, <1>5

\* A scan takes an account.
LEMMA ClaimKeeps ==
  ASSUME Typed, Reach, NEW u \in Users, NEW a \in Accounts, Claim(u, a)
  PROVE  Typed' /\ Reach'
<1> DEFINE theirs == {p \in Requests : req[p].route = "default" \/ a \in req[p].accounts}
<1>1. /\ UNCHANGED <<process, signed, admins, setting, jobs, limiter>> /\ Spend("changes")
      /\ req' = Moves(theirs) /\ account' = [account EXCEPT ![a].owner = u, ![a].updated = 2]
      /\ RequestsOK /\ TablesOK /\ LeftOK /\ \A p \in Requests : req[p] \in Request
  BY DEF Claim, Typed, RequestsOK
<1>2. account[a] \in Row /\ account \in [Accounts -> Row]
  BY <1>1 DEF TablesOK
<1>3. [account[a] EXCEPT !.owner = u, !.updated = 2] \in Row
  BY <1>2 DEF Row
<1>4. account' = [account EXCEPT ![a] = [account[a] EXCEPT !.owner = u, !.updated = 2]]
  BY <1>1, <1>2
<1>5. account' \in [Accounts -> Row] /\ \A b \in Accounts \ {a} : account'[b] = account[b]
  BY <1>2, <1>3, <1>4
<1>6. TablesOK' /\ RequestsOK' /\ LeftOK'
  BY <1>1, <1>5, MovesTyped, SpendTyped DEF TablesOK
<1>7. Typed'
  BY <1>1, <1>6, Frames DEF Typed
<1>8. ASSUME NEW p \in Requests, Sound(req'[p])
      PROVE  Known(req[p])' /\ Chose(req[p])'
  <2>1. p \notin theirs /\ req'[p] = req[p] /\ Sound(req[p])
    BY <1>1, <1>8, Unmoved
  <2>2. req[p].route # "default" /\ \A b \in req[p].accounts : account'[b] = account[b]
    BY <1>1, <1>5, <2>1 DEF Request
  <2>3. Known(req[p]) /\ Chose(req[p])
    BY <2>1 DEF Reach
  <2>4. QED
    BY <1>1, <2>1, <2>2, <2>3, AccountsMoved
<1>9. Reach'
  BY <1>8 DEF Reach, Sound
<1>10. QED
  BY <1>7, <1>9

\* A change of the setting, by its page or by hand.
LEMMA SettingKeeps ==
  ASSUME Typed, Reach, NEW dirs \in Dirs,
         (\E r \in Requests : HandleScriptVisibility(r, dirs)) \/ EditSetting(dirs)
  PROVE  Typed' /\ Reach'
<1>1. /\ UNCHANGED <<process, signed, admins, account, jobs, limiter>>
      /\ setting' \in [form : {"json", "text"}, dirs : Dirs]
      /\ RequestsOK /\ TablesOK /\ LeftOK
  BY DEF HandleScriptVisibility, EditSetting, Typed
<1>2. \/ req' = Moves(Scripted)
      \/ \E r \in Requests : req' = [Moves(Scripted) EXCEPT ![r] = Idle]
  BY DEF HandleScriptVisibility, EditSetting
<1>3. RequestsOK'
  BY <1>1, <1>2, MovesTyped, MovesAndEnds
<1>4. LeftOK'
  BY <1>1, SpendTyped DEF HandleScriptVisibility, EditSetting, LeftOK
<1>5. TablesOK'
  BY <1>1 DEF TablesOK
<1>6. Typed'
  BY <1>1, <1>3, <1>4, <1>5, Frames DEF Typed
<1>7. ASSUME NEW p \in Requests, Sound(req'[p])
      PROVE  Known(req[p])' /\ Chose(req[p])'
  <2>1. p \notin Scripted /\ req'[p] = req[p] /\ Sound(req[p])
    BY <1>1, <1>2, <1>7, Unmoved
  <2>2. Known(req[p]) /\ Chose(req[p]) /\ req[p].route # "script"
    BY <2>1 DEF Reach, Scripted
  <2>3. QED
    BY <1>1, <2>1, <2>2, SettingMoved
<1>8. Reach'
  BY <1>7 DEF Reach, Sound
<1>9. QED
  BY <1>6, <1>8

\* A role changes, or a session ends.
LEMMA UserKeeps ==
  ASSUME Typed, Reach, NEW u \in Users, SetRole(u) \/ SignOut(u)
  PROVE  Typed' /\ Reach'
<1>1. /\ UNCHANGED <<process, account, setting, jobs, limiter>> /\ Spend("changes")
      /\ req' = Moves(Theirs(u)) /\ RequestsOK /\ TablesOK /\ LeftOK
      /\ \A v : v # u => (v \in admins' <=> v \in admins)
      /\ \A v : v # u => (v \in signed' <=> v \in signed)
      /\ signed' \subseteq Users /\ admins' \subseteq Users
  BY DEF SetRole, SignOut, Typed, TablesOK
<1>2. TablesOK' /\ RequestsOK' /\ LeftOK'
  BY <1>1, MovesTyped, SpendTyped DEF TablesOK
<1>3. Typed'
  BY <1>1, <1>2, Frames DEF Typed
<1>4. ASSUME NEW p \in Requests, Sound(req'[p])
      PROVE  Known(req[p])' /\ Chose(req[p])'
  <2>1. p \notin Theirs(u) /\ req'[p] = req[p] /\ Sound(req[p])
    BY <1>1, <1>4, Unmoved
  <2>2. Known(req[p]) /\ Chose(req[p]) /\ req[p].cookie # u
    BY <2>1 DEF Reach, Theirs
  <2>3. UNCHANGED <<process, account, setting, jobs>>
    BY <1>1
  <2>4. req[p].cookie \in admins' <=> req[p].cookie \in admins
    BY <1>1, <2>2
  <2>5. req[p].cookie \in signed' <=> req[p].cookie \in signed
    BY <1>1, <2>2
  <2>6. QED
    BY <2>1, <2>2, <2>3, <2>4, <2>5, UsersMoved
<1>5. Reach'
  BY <1>4 DEF Reach, Sound
<1>6. QED
  BY <1>3, <1>5

\* The start.
LEMMA StartTyped == Init => Typed /\ Reach
<1> SUFFICES ASSUME Init PROVE Typed /\ Reach
  OBVIOUS
<1>1. PICK scene \in Scenes :
         /\ config = scene.config
         /\ left = [attempts |-> scene.attempts, calls |-> scene.calls, changes |-> scene.changes]
         /\ signed = scene.signed /\ admins = scene.admins /\ account = scene.account
         /\ setting = scene.setting /\ jobs = scene.jobs
  BY DEF Init
<1>2. scene \in [config : Configs, attempts : Nat, calls : Nat, changes : Nat,
                 signed : SUBSET Users, admins : SUBSET Users, account : [Accounts -> Row],
                 setting : [form : {"json", "text"}, dirs : Dirs], jobs : SUBSET Jobs]
  BY <1>1, AccessAssumption
<1>3. TablesOK /\ LeftOK /\ config \in Configs
  BY <1>1, <1>2 DEF TablesOK, LeftOK
<1>4. /\ minted \in {0, 1} /\ token \in 0 .. minted + 1 /\ stored \in {0, token}
  BY DEF Init, NoToken, Chosen
<1>5. ProcessOK
  BY <1>3, <1>4 DEF ProcessOK, Tokens
<1>6. LimiterOK
  <2>1. DOMAIN attempts = {} /\ clock = 0 /\ guesses = [key \in Keys |-> 0]
    BY DEF Init
  <2>2. IsFiniteSet({}) /\ Cardinality({}) = 0
    BY FS_EmptySet
  <2>3. QED
    BY <2>1, <2>2, Numbers DEF LimiterOK, Table
<1>7. RequestsOK /\ Reach
  BY IdleTyped DEF Init, RequestsOK, Reach, Sound, Idle
<1>8. QED
  BY <1>3, <1>5, <1>6, <1>7 DEF Typed

\* Every step.
LEMMA StepKeeps ==
  ASSUME Typed, Reach, [Next]_vars
  PROVE  Typed' /\ Reach'
<1>1. ASSUME NEW r \in Requests, \E u \in Users, ip \in Addresses : AllowLogin(r, u, ip)
      PROVE  Typed' /\ Reach'
  BY <1>1, LoginTyped, LoginReach
<1>2. ASSUME NEW r \in Requests,
             \/ WrongPassword(r) \/ RightPassword(r)
             \/ RecordLoginFailure(r) \/ ClearLoginFailures(r)
      PROVE  Typed' /\ Reach'
  BY <1>2, LoginTyped, LoginReach
<1>3. ASSUME NEW r \in Requests, CreateSession(r)
      PROVE  Typed' /\ Reach'
  BY <1>3, LoginTyped, SessionReach
<1>4. ASSUME NEW r \in Requests,
             \/ \E route \in Api, given \in Tokens, cookie \in signed \cup {Nobody} :
                   RequireAPIToken(r, route, given, cookie)
             \/ \E route \in Console \cup {"visibility"}, cookie \in signed \cup {Nobody} :
                   RequireBrowserSession(r, route, cookie)
      PROVE  Typed' /\ Reach'
  BY <1>4, LetIn, LetInReach
<1>5. ASSUME NEW r \in Requests, NEW a \in Accounts, ResolveAccount(r, a)
      PROVE  Typed' /\ Reach'
  BY <1>5, ResolveKeeps
<1>6. ASSUME NEW r \in Requests, ListAccounts(r) \/ Operate(r)
      PROVE  Typed' /\ Reach'
  BY <1>6, ListKeeps, OperateKeeps
<1>7. ASSUME NEW r \in Requests, NEW script \in Scripts, NEW readable \in BOOLEAN,
             ResolveVisibleScript(r, script, readable) \/ ResolveScriptJob(r, script)
      PROVE  Typed' /\ Reach'
  BY <1>7, ScriptKeeps, JobKeeps
<1>8. ASSUME NEW dirs \in Dirs,
             (\E r \in Requests : HandleScriptVisibility(r, dirs)) \/ EditSetting(dirs)
      PROVE  Typed' /\ Reach'
  BY <1>8, SettingKeeps
<1>9. CASE WindowEnds
  BY <1>9, WindowTyped, BareReach
<1>10. ASSUME NEW u \in Users, NEW a \in Accounts, Claim(u, a)
       PROVE  Typed' /\ Reach'
  BY <1>10, ClaimKeeps
<1>11. ASSUME NEW u \in Users, SetRole(u) \/ SignOut(u)
       PROVE  Typed' /\ Reach'
  BY <1>11, UserKeeps
<1>12. ASSUME NEW c \in Configs, NEW saved \in BOOLEAN, Restart(c, saved)
       PROVE  Typed' /\ Reach'
  BY <1>12, RestartTyped, BareReach
<1>13. CASE UNCHANGED vars
  <2>1. UNCHANGED <<process, tables, limiter, left>> /\ req' = req
    BY <1>13 DEF vars, process, tables, limiter
  <2>2. Typed'
    BY <2>1, Frames DEF Typed
  <2>3. \A p \in Requests : Sound(req[p])' => Known(req[p])' /\ Chose(req[p])'
    BY <2>1, Carried DEF Reach, Sound
  <2>4. QED
    BY <2>2, <2>3 DEF Reach
<1>14. QED
  BY <1>1, <1>2, <1>3, <1>4, <1>5, <1>6, <1>7, <1>8, <1>9, <1>10, <1>11, <1>12, <1>13 DEF Next

\* What is proved of every state.
LEMMA Always == Spec => [](Typed /\ Reach)
<1>1. Init => Typed /\ Reach
  BY StartTyped
<1>2. Typed /\ Reach /\ [Next]_vars => (Typed /\ Reach)'
  BY StepKeeps
<1>3. QED
  BY <1>1, <1>2, PTL DEF Spec

(* Every variable has its type, and the table of counters keeps its size:  *)
(* evictLoginAttemptsLocked makes room whenever bumpFailureLocked adds one. *)
THEOREM Typing == Spec => []TypeOK
<1>1. Typed => TypeOK
  <2> SUFFICES ASSUME Typed PROVE TypeOK
    OBVIOUS
  <2>1. \A r \in Requests : req[r].at \in Stages /\ req[r].accounts \subseteq Accounts
    BY DEF Typed, RequestsOK, Request
  <2>2. QED
    BY <2>1 DEF Typed, TypeOK, ProcessOK, TablesOK, LimiterOK, Table
<1>2. QED
  BY <1>1, Always, PTL

----------------------------------------------------------------------------
(* Guesses *)

\* The sets of attempts under way, and their sizes.
LEMMA PendingSets ==
  ASSUME NEW key
  PROVE  /\ Uncounted(key) \subseteq InFlight(key) /\ InFlight(key) \subseteq Requests
         /\ IsFiniteSet(InFlight(key)) /\ IsFiniteSet(Uncounted(key))
         /\ Cardinality(InFlight(key)) \in Nat /\ Cardinality(Uncounted(key)) \in Nat
         /\ Cardinality(Uncounted(key)) <= Cardinality(InFlight(key))
         /\ Cardinality(InFlight(key)) <= Cardinality(Requests)
<1>1. Uncounted(key) \subseteq InFlight(key) /\ InFlight(key) \subseteq Requests
  BY DEF Uncounted, InFlight
<1>2. IsFiniteSet(InFlight(key)) /\ Cardinality(InFlight(key)) <= Cardinality(Requests)
  BY <1>1, Numbers, FS_Subset
<1>3. IsFiniteSet(Uncounted(key)) /\ Cardinality(Uncounted(key)) <= Cardinality(InFlight(key))
  BY <1>1, <1>2, FS_Subset
<1>4. QED
  BY <1>1, <1>2, <1>3, FS_CardinalityType

\* The same after a step.
LEMMA PendingSetsNext ==
  ASSUME NEW key
  PROVE  /\ InFlight(key)' \subseteq Requests
         /\ Cardinality(InFlight(key)') \in Nat /\ Cardinality(Uncounted(key)') \in Nat
         /\ Cardinality(InFlight(key)') <= Cardinality(Requests)
<1>1. Uncounted(key)' \subseteq InFlight(key)' /\ InFlight(key)' \subseteq Requests
  BY DEF Uncounted, InFlight
<1>2. IsFiniteSet(InFlight(key)') /\ Cardinality(InFlight(key)') <= Cardinality(Requests)
  BY <1>1, Numbers, FS_Subset
<1>3. IsFiniteSet(Uncounted(key)')
  BY <1>1, <1>2, FS_Subset
<1>4. QED
  BY <1>1, <1>2, <1>3, FS_CardinalityType

\* What is counted is a number.
LEMMA Counts ==
  ASSUME LimiterOK, NEW key \in Keys
  PROVE  /\ Failures(key) \in Nat /\ guesses[key] \in Nat
         /\ key \in DOMAIN attempts => attempts[key].failures \in Nat
BY DEF LimiterOK, Table, CounterOf, Failures

\* The same after a step.
LEMMA CountsNext ==
  ASSUME LimiterOK', NEW key \in Keys
  PROVE  /\ Failures(key)' \in Nat /\ guesses'[key] \in Nat
         /\ key \in DOMAIN attempts' => attempts'[key].failures \in Nat
BY DEF LimiterOK, Table, CounterOf, Failures

\* Requests that a step neither puts among the attempts under way nor takes from them.
Quiet(p) ==
    \/ req[p].at \notin {"checking", "wrong"} /\ req'[p].at \notin {"checking", "wrong"}
    \/ req'[p].at = req[p].at /\ req'[p].user = req[p].user /\ req'[p].from = req[p].from

\* When they all are, the sets stay.
LEMMA QuietSets ==
  ASSUME \A p \in Requests : Quiet(p), NEW key
  PROVE  InFlight(key)' = InFlight(key) /\ Uncounted(key)' = Uncounted(key)
<1>1. \A p \in Requests :
         /\ (req[p].at \in {"checking", "wrong"} /\ Of(req[p], key))'
               <=> req[p].at \in {"checking", "wrong"} /\ Of(req[p], key)
         /\ (req[p].at = "wrong" /\ Of(req[p], key))' <=> req[p].at = "wrong" /\ Of(req[p], key)
  BY DEF Quiet, Of
<1>2. QED
  BY <1>1 DEF InFlight, Uncounted

\* A key whose counter and attempts are as they were, or whose counter was forgotten.
LEMMA KeyKept ==
  ASSUME LimiterOK, LimiterOK', NEW key \in Keys, GuessedOf(key),
         InFlight(key)' \subseteq InFlight(key),
         \/ guesses'[key] = 0 /\ Failures(key)' <= Failures(key)
         \/ /\ guesses'[key] = guesses[key] /\ Failures(key)' = Failures(key)
            /\ Uncounted(key)' = Uncounted(key)
  PROVE  GuessedOf(key)'
<1>1. Cardinality(InFlight(key)') <= Cardinality(InFlight(key))
  BY PendingSets, FS_Subset
<1>2. Cardinality(Uncounted(key)') = Cardinality(Uncounted(key)) \/ guesses'[key] = 0
  OBVIOUS
<1>3. /\ Cardinality(InFlight(key)') \in Nat /\ Cardinality(Uncounted(key)') \in Nat
      /\ Cardinality(InFlight(key)) \in Nat /\ Cardinality(Uncounted(key)) \in Nat
  BY PendingSets, PendingSetsNext
<1>4. /\ Failures(key) \in Nat /\ Failures(key)' \in Nat /\ guesses[key] \in Nat
      /\ guesses'[key] \in Nat /\ Limit(key) \in Nat /\ Cardinality(Requests) \in Nat
  BY Counts, CountsNext, Numbers
<1>5. /\ guesses[key] <= Failures(key) + Cardinality(Uncounted(key))
      /\ Failures(key) + Cardinality(InFlight(key)) < Limit(key) + Cardinality(Requests)
  BY DEF GuessedOf
<1>6. guesses'[key] <= Failures(key)' + Cardinality(Uncounted(key)')
  BY <1>2, <1>3, <1>4, <1>5
<1>7. Failures(key)' + Cardinality(InFlight(key)') < Limit(key) + Cardinality(Requests)
  BY <1>1, <1>3, <1>4, <1>5
<1>8. QED
  BY <1>6, <1>7 DEF GuessedOf

\* Steps that leave the limiter and the attempts alone.
LEMMA GuessedKept ==
  ASSUME Typed, Typed', Guessed, UNCHANGED <<attempts, guesses>>, \A p \in Requests : Quiet(p)
  PROVE  Guessed'
<1> SUFFICES ASSUME NEW key \in Keys PROVE GuessedOf(key)'
  BY DEF Guessed
<1>1. Failures(key)' = Failures(key) /\ guesses'[key] = guesses[key]
  BY DEF Failures
<1>2. InFlight(key)' = InFlight(key) /\ Uncounted(key)' = Uncounted(key)
  BY QuietSets
<1>3. GuessedOf(key) /\ LimiterOK /\ LimiterOK'
  BY DEF Guessed, Typed
<1>4. InFlight(key)' \subseteq InFlight(key)
  BY <1>2
<1>5. QED
  BY <1>1, <1>2, <1>3, <1>4, KeyKept

\* Counters go, and their guesses with them.
LEMMA Shrunk ==
  ASSUME LimiterOK, LimiterOK', NEW key \in Keys,
         DOMAIN attempts' \subseteq DOMAIN attempts,
         \A k \in DOMAIN attempts' : attempts'[k] = attempts[k],
         (attempts' = attempts /\ guesses' = guesses) \/ Replace(attempts', {})
  PROVE  \/ guesses'[key] = 0 /\ Failures(key)' <= Failures(key)
         \/ guesses'[key] = guesses[key] /\ Failures(key)' = Failures(key)
<1>1. CASE attempts' = attempts /\ guesses' = guesses
  BY <1>1 DEF Failures
<1>2. CASE Replace(attempts', {})
  <2>1. guesses'[key] = IF Forgets(attempts', {}, key) THEN 0 ELSE guesses[key]
    BY <1>2 DEF Replace
  <2>2. Failures(key)' <= Failures(key)
    BY Counts, CountsNext DEF Failures
  <2>3. ~Forgets(attempts', {}, key) => Failures(key)' = Failures(key)
    BY DEF Forgets, Failures
  <2>4. QED
    BY <2>1, <2>2, <2>3
<1>3. QED
  BY <1>1, <1>2

\* An attempt is let through.
LEMMA AllowGuessed ==
  ASSUME Typed, Typed', Guessed, NEW r \in Requests, NEW u \in Users, NEW ip \in Addresses,
         AllowLogin(r, u, ip)
  PROVE  Guessed'
<1> DEFINE q == [Idle EXCEPT !.at = "checking", !.user = u, !.from = ip]
<1>1. LimiterOK /\ LimiterOK' /\ RequestsOK /\ req[r].at = "idle"
  BY DEF Typed, AllowLogin
<1>2. /\ DOMAIN attempts' \subseteq DOMAIN attempts
      /\ \A k \in DOMAIN attempts' : attempts'[k] = attempts[k]
      /\ (attempts' = attempts /\ guesses' = guesses) \/ Replace(attempts', {})
      /\ \/ req' = req
         \/ /\ Become(r, q)
            /\ \A key \in {UserKey(u), IPKey(ip)} :
                  key \in DOMAIN attempts' => attempts'[key].failures < Limit(key)
  BY <1>1, Allowed
<1> SUFFICES ASSUME NEW key \in Keys PROVE GuessedOf(key)'
  BY DEF Guessed
<1>3. GuessedOf(key)
  BY DEF Guessed
<1>4. \/ guesses'[key] = 0 /\ Failures(key)' <= Failures(key)
      \/ guesses'[key] = guesses[key] /\ Failures(key)' = Failures(key)
  BY <1>1, <1>2, Shrunk
<1>5. CASE req' = req
  <2>1. \A p \in Requests : Quiet(p)
    BY <1>5 DEF Quiet
  <2>2. InFlight(key)' = InFlight(key) /\ Uncounted(key)' = Uncounted(key)
    BY <2>1, QuietSets
  <2>3. InFlight(key)' \subseteq InFlight(key)
    BY <2>2
  <2>4. QED
    BY <1>1, <1>3, <1>4, <2>2, <2>3, KeyKept
<1>6. CASE /\ Become(r, q)
           /\ \A k \in {UserKey(u), IPKey(ip)} :
                 k \in DOMAIN attempts' => attempts'[k].failures < Limit(k)
  <2>1. req'[r] = q /\ \A p \in Requests \ {r} : req'[p] = req[p]
    BY <1>1, <1>6, Becomes
  <2>2. q.at = "checking" /\ q.user = u /\ q.from = ip
    BY DEF Idle
  <2> HIDE DEF q
  <2>3. Uncounted(key)' = Uncounted(key)
    BY <1>1, <2>1, <2>2 DEF Uncounted, Of
  <2>4. CASE key \in {UserKey(u), IPKey(ip)}
    <3>1. Failures(key)' < Limit(key)
      BY <1>6, <2>4, Numbers DEF Failures
    <3>2. /\ Failures(key)' \in Nat /\ Failures(key) \in Nat /\ Limit(key) \in Nat
          /\ guesses[key] \in Nat
      BY <1>1, Counts, CountsNext, Numbers
    <3>3. /\ Cardinality(InFlight(key)') \in Nat /\ Cardinality(Requests) \in Nat
          /\ Cardinality(InFlight(key)') <= Cardinality(Requests)
          /\ Cardinality(Uncounted(key)') \in Nat
      BY PendingSetsNext, Numbers
    <3>4. Failures(key)' + Cardinality(InFlight(key)') < Limit(key) + Cardinality(Requests)
      BY <3>1, <3>2, <3>3
    <3>5. guesses'[key] <= Failures(key)' + Cardinality(Uncounted(key)')
      BY <1>3, <1>4, <2>3, <3>2, <3>3 DEF GuessedOf
    <3>6. QED
      BY <3>4, <3>5 DEF GuessedOf
  <2>5. CASE key \notin {UserKey(u), IPKey(ip)}
    <3>1. InFlight(key)' \subseteq InFlight(key)
      BY <2>1, <2>2, <2>5 DEF InFlight, Of
    <3>2. QED
      BY <1>1, <1>3, <1>4, <2>3, <3>1, KeyKept
  <2>6. QED
    BY <2>4, <2>5
<1>7. QED
  BY <1>2, <1>5, <1>6

\* A wrong password is one more that is still to be counted.
LEMMA WrongGuessed ==
  ASSUME Typed, Typed', Guessed, NEW r \in Requests, WrongPassword(r)
  PROVE  Guessed'
<1> DEFINE q == [req[r] EXCEPT !.at = "wrong"]
<1>1. LimiterOK /\ LimiterOK' /\ RequestsOK /\ req[r] \in Request
  BY DEF Typed, RequestsOK
<1>2. /\ req[r].at = "checking" /\ Become(r, q) /\ attempts' = attempts
      /\ guesses' = [key \in Keys |-> IF key \in {UserKey(req[r].user), IPKey(req[r].from)}
                                      THEN guesses[key] + 1 ELSE guesses[key]]
  BY DEF WrongPassword
<1>3. req'[r] = q /\ \A p \in Requests \ {r} : req'[p] = req[p]
  BY <1>1, <1>2, Becomes
<1>4. q.at = "wrong" /\ q.user = req[r].user /\ q.from = req[r].from
  BY <1>1 DEF Request
<1> HIDE DEF q
<1> SUFFICES ASSUME NEW key \in Keys PROVE GuessedOf(key)'
  BY DEF Guessed
<1>5. GuessedOf(key) /\ Failures(key)' = Failures(key)
  BY <1>2 DEF Guessed, Failures
<1>6. InFlight(key)' = InFlight(key)
  BY <1>2, <1>3, <1>4 DEF InFlight, Of
<1>7. CASE Of(req[r], key)
  <2>1. Uncounted(key)' = Uncounted(key) \cup {r} /\ r \notin Uncounted(key)
    BY <1>2, <1>3, <1>4, <1>7 DEF Uncounted, Of
  <2>2. Cardinality(Uncounted(key)') = Cardinality(Uncounted(key)) + 1
    BY <2>1, PendingSets, FS_AddElement
  <2>3. guesses'[key] = guesses[key] + 1
    BY <1>2, <1>7 DEF Of
  <2>4. /\ Failures(key) \in Nat /\ guesses[key] \in Nat
        /\ Cardinality(Uncounted(key)) \in Nat
    BY <1>1, Counts, PendingSets
  <2>5. QED
    BY <1>5, <1>6, <2>2, <2>3, <2>4 DEF GuessedOf
<1>8. CASE ~Of(req[r], key)
  <2>1. Uncounted(key)' = Uncounted(key)
    BY <1>2, <1>3, <1>4, <1>8 DEF Uncounted, Of
  <2>2. guesses'[key] = guesses[key]
    BY <1>2, <1>8 DEF Of
  <2>3. InFlight(key)' \subseteq InFlight(key)
    BY <1>6
  <2>4. QED
    BY <1>1, <1>5, <2>1, <2>2, <2>3, KeyKept
<1>9. QED
  BY <1>7, <1>8

\* A failure is counted for both keys, unless what they counted is forgotten.
LEMMA RecordGuessed ==
  ASSUME Typed, Typed', Guessed, NEW r \in Requests, RecordLoginFailure(r)
  PROVE  Guessed'
<1> DEFINE user == UserKey(req[r].user)
           address == IPKey(req[r].from)
<1>1. LimiterOK /\ LimiterOK' /\ RequestsOK /\ req[r].at = "wrong"
  BY DEF Typed, RecordLoginFailure
<1>2. /\ Replace(attempts', {user, address})
      /\ DOMAIN attempts' \subseteq DOMAIN attempts \cup {user, address}
      /\ \A key \in DOMAIN attempts' \ {user, address} : attempts'[key] = attempts[key]
      /\ \A key \in DOMAIN attempts' \cap {user, address} :
            \/ attempts'[key].failures = 1
            \/ key \in DOMAIN attempts /\ attempts'[key].failures = attempts[key].failures + 1
      /\ \A key \in {user, address} : key \in DOMAIN attempts \cup DOMAIN attempts'
  BY <1>1, Recorded
<1>3. req'[r] = Idle /\ \A p \in Requests \ {r} : req'[p] = req[p]
  BY <1>1, Becomes DEF RecordLoginFailure, Finish
<1> SUFFICES ASSUME NEW key \in Keys PROVE GuessedOf(key)'
  BY DEF Guessed
<1>4. GuessedOf(key)
  BY DEF Guessed
<1>5. InFlight(key)' = InFlight(key) \ {r} /\ Uncounted(key)' = Uncounted(key) \ {r}
  BY <1>1, <1>3 DEF InFlight, Uncounted, Of, Idle
<1>6. Of(req[r], key) <=> key \in {user, address}
  BY DEF Of
<1>7. guesses'[key] = IF Forgets(attempts', {user, address}, key) THEN 0 ELSE guesses[key]
  BY <1>2 DEF Replace
<1>8. /\ Failures(key) \in Nat /\ Failures(key)' \in Nat /\ guesses[key] \in Nat
      /\ Limit(key) \in Nat /\ Cardinality(Requests) \in Nat
      /\ key \in DOMAIN attempts => attempts[key].failures \in Nat
      /\ key \in DOMAIN attempts' => attempts'[key].failures \in Nat
  BY <1>1, Counts, CountsNext, Numbers
<1> HIDE DEF user, address
<1>9. CASE Of(req[r], key)
  <2>1. r \in InFlight(key) /\ r \in Uncounted(key)
    BY <1>1, <1>9 DEF InFlight, Uncounted
  <2>2. /\ Cardinality(InFlight(key)') = Cardinality(InFlight(key)) - 1
        /\ Cardinality(Uncounted(key)') = Cardinality(Uncounted(key)) - 1
    BY <1>5, <2>1, PendingSets, FS_RemoveElement, ZenonT(30)
  <2>3. Failures(key)' <= Failures(key) + 1
    BY <1>2, <1>6, <1>8, <1>9 DEF Failures
  <2>4. ~Forgets(attempts', {user, address}, key) => Failures(key)' = Failures(key) + 1
    BY <1>2, <1>6, <1>8, <1>9 DEF Forgets, Failures
  <2>5. /\ Cardinality(InFlight(key)) \in Nat /\ Cardinality(Uncounted(key)) \in Nat
        /\ Cardinality(InFlight(key)') \in Nat /\ Cardinality(Uncounted(key)') \in Nat
    BY PendingSets, PendingSetsNext
  <2>6. Failures(key)' + Cardinality(InFlight(key)') < Limit(key) + Cardinality(Requests)
    BY <1>4, <1>8, <2>2, <2>3, <2>5 DEF GuessedOf
  <2>7. guesses'[key] <= Failures(key)' + Cardinality(Uncounted(key)')
    BY <1>4, <1>7, <1>8, <2>2, <2>4, <2>5 DEF GuessedOf
  <2>8. QED
    BY <2>6, <2>7 DEF GuessedOf
<1>10. CASE ~Of(req[r], key)
  <2>1. Uncounted(key)' = Uncounted(key) /\ InFlight(key)' \subseteq InFlight(key)
    BY <1>5, <1>10 DEF Uncounted
  <2>2. Failures(key)' <= Failures(key)
    BY <1>2, <1>6, <1>8, <1>10 DEF Failures
  <2>3. ~Forgets(attempts', {user, address}, key) => Failures(key)' = Failures(key)
    BY <1>2, <1>6, <1>8, <1>10 DEF Forgets, Failures
  <2>4. \/ guesses'[key] = 0 /\ Failures(key)' <= Failures(key)
        \/ /\ guesses'[key] = guesses[key] /\ Failures(key)' = Failures(key)
           /\ Uncounted(key)' = Uncounted(key)
    BY <1>7, <2>1, <2>2, <2>3
  <2>5. QED
    BY <1>1, <1>4, <2>1, <2>4, KeyKept
<1>11. QED
  BY <1>9, <1>10

\* A right password, the end of a window and a start.
LEMMA OtherGuessed ==
  ASSUME Typed, Typed', Guessed,
         \/ \E r \in Requests : ClearLoginFailures(r)
         \/ \E r \in Requests : RightPassword(r)
         \/ WindowEnds
         \/ \E c \in Configs, saved \in BOOLEAN : Restart(c, saved)
  PROVE  Guessed'
<1>1. LimiterOK /\ LimiterOK' /\ RequestsOK
  BY DEF Typed
<1> SUFFICES ASSUME NEW key \in Keys PROVE GuessedOf(key)'
  BY DEF Guessed
<1>2. GuessedOf(key)
  BY DEF Guessed
<1>3. ASSUME NEW r \in Requests, ClearLoginFailures(r) PROVE GuessedOf(key)'
  <2>1. /\ Replace(attempts', {}) /\ DOMAIN attempts' \subseteq DOMAIN attempts
        /\ \A k \in DOMAIN attempts' : attempts'[k] = attempts[k]
    BY <1>1, <1>3, Cleared
  <2>2. \/ guesses'[key] = 0 /\ Failures(key)' <= Failures(key)
        \/ guesses'[key] = guesses[key] /\ Failures(key)' = Failures(key)
    BY <1>1, <2>1, Shrunk
  <2>3. \A p \in Requests : Quiet(p)
    <3> DEFINE q == [req[r] EXCEPT !.at = "entering"]
    <3>1. Become(r, q) /\ req[r].at = "right" /\ req[r] \in Request
      BY <1>1, <1>3 DEF ClearLoginFailures, RequestsOK
    <3>2. q.at = "entering"
      BY <3>1 DEF Request
    <3>3. req'[r] = q /\ \A p \in Requests \ {r} : req'[p] = req[p]
      BY <1>1, <3>1, Becomes
    <3>4. QED
      BY <3>1, <3>2, <3>3 DEF Quiet
  <2>4. InFlight(key)' = InFlight(key) /\ Uncounted(key)' = Uncounted(key)
    BY <2>3, QuietSets
  <2>5. InFlight(key)' \subseteq InFlight(key)
    BY <2>4
  <2>6. QED
    BY <1>1, <1>2, <2>2, <2>4, <2>5, KeyKept
<1>4. ASSUME NEW r \in Requests, RightPassword(r) PROVE GuessedOf(key)'
  <2> DEFINE q == [req[r] EXCEPT !.at = "right"]
  <2>1. /\ Become(r, q) /\ req[r].at = "checking" /\ req[r] \in Request
        /\ attempts' = attempts /\ guesses' = guesses
    BY <1>1, <1>4 DEF RightPassword, RequestsOK, limiter
  <2>2. q.at = "right"
    BY <2>1 DEF Request
  <2>3. req'[r] = q /\ \A p \in Requests \ {r} : req'[p] = req[p]
    BY <1>1, <2>1, Becomes
  <2> HIDE DEF q
  <2>4. InFlight(key)' \subseteq InFlight(key) /\ Uncounted(key)' = Uncounted(key)
    BY <2>1, <2>2, <2>3 DEF InFlight, Uncounted, Of
  <2>5. guesses'[key] = guesses[key] /\ Failures(key)' = Failures(key)
    BY <2>1 DEF Failures
  <2>6. QED
    BY <1>1, <1>2, <2>4, <2>5, KeyKept
<1>5. CASE WindowEnds
  <2>1. /\ DOMAIN attempts' = DOMAIN attempts /\ req' = req /\ guesses' = guesses
        /\ \A k \in DOMAIN attempts : attempts'[k].failures = attempts[k].failures
    BY <1>5, WindowTyped DEF WindowEnds
  <2>2. guesses'[key] = guesses[key] /\ Failures(key)' = Failures(key)
    BY <2>1 DEF Failures
  <2>3. InFlight(key)' = InFlight(key) /\ Uncounted(key)' = Uncounted(key)
    BY <2>1 DEF InFlight, Uncounted, Of
  <2>4. InFlight(key)' \subseteq InFlight(key)
    BY <2>3
  <2>5. QED
    BY <1>1, <1>2, <2>2, <2>3, <2>4, KeyKept
<1>6. ASSUME NEW c \in Configs, NEW saved \in BOOLEAN, Restart(c, saved) PROVE GuessedOf(key)'
  <2>1. /\ DOMAIN attempts' = {} /\ guesses' = [k \in Keys |-> 0]
        /\ req' = [p \in Requests |-> Idle]
    BY <1>6 DEF Restart
  <2>2. guesses'[key] = 0 /\ Failures(key)' = 0 /\ Failures(key) \in Nat
    BY <1>1, <2>1, Counts DEF Failures
  <2>3. InFlight(key)' \subseteq InFlight(key)
    BY <2>1 DEF InFlight, Idle
  <2>4. guesses'[key] = 0 /\ Failures(key)' <= Failures(key)
    BY <2>2
  <2>5. QED
    BY <1>1, <1>2, <2>3, <2>4, KeyKept
<1>7. QED
  BY <1>3, <1>4, <1>5, <1>6

\* One request goes on that is no attempt.
LEMMA QuietBecomes ==
  ASSUME RequestsOK, NEW r \in Requests, NEW q, Become(r, q),
         req[r].at \notin {"checking", "wrong"}, q.at \notin {"checking", "wrong"}
  PROVE  \A p \in Requests : Quiet(p)
BY Becomes DEF Quiet

\* Others change something.
LEMMA QuietMoves ==
  ASSUME RequestsOK, NEW rs,
         \/ req' = Moves(rs)
         \/ \E r \in Requests : /\ req' = [Moves(rs) EXCEPT ![r] = Idle]
                              /\ req[r].at \notin {"checking", "wrong"}
  PROVE  \A p \in Requests : Quiet(p)
<1> SUFFICES ASSUME NEW p \in Requests PROVE Quiet(p)
  OBVIOUS
<1>1. /\ Moves(rs)[p].at = req[p].at /\ Moves(rs)[p].user = req[p].user
      /\ Moves(rs)[p].from = req[p].from
  <2>1. Moves(rs)[p] = [req[p] EXCEPT !.moved = req[p].moved \/ p \in rs] /\ req[p] \in Request
    BY DEF Moves, RequestsOK
  <2>2. \A b : /\ [req[p] EXCEPT !.moved = b].at = req[p].at
              /\ [req[p] EXCEPT !.moved = b].user = req[p].user
              /\ [req[p] EXCEPT !.moved = b].from = req[p].from
    BY <2>1 DEF Request
  <2>3. QED
    BY <2>1, <2>2, ZenonT(30)
<1>2. CASE req' = Moves(rs)
  BY <1>1, <1>2 DEF Quiet
<1>3. CASE \E r \in Requests : /\ req' = [Moves(rs) EXCEPT ![r] = Idle]
                            /\ req[r].at \notin {"checking", "wrong"}
  <2>1. PICK r \in Requests : /\ req' = [Moves(rs) EXCEPT ![r] = Idle]
                            /\ req[r].at \notin {"checking", "wrong"}
    BY <1>3
  <2>2. req'[r] = Idle /\ \A k \in Requests \ {r} : req'[k] = Moves(rs)[k]
    BY <2>1, MovesAndEnds
  <2>3. CASE p = r
    BY <2>1, <2>2, <2>3 DEF Quiet, Idle
  <2>4. CASE p # r
    BY <1>1, <2>2, <2>4 DEF Quiet
  <2>5. QED
    BY <2>3, <2>4
<1>4. QED
  BY <1>2, <1>3

\* Every step keeps what is said of the guesses.
LEMMA GuessedStep ==
  ASSUME Typed, Typed', Guessed, [Next]_vars
  PROVE  Guessed'
<1>1. RequestsOK /\ \A r \in Requests : req[r] \in Request
  BY DEF Typed, RequestsOK
<1>2. ASSUME NEW r \in Requests, \E u \in Users, ip \in Addresses : AllowLogin(r, u, ip)
      PROVE  Guessed'
  BY <1>2, AllowGuessed
<1>3. ASSUME NEW r \in Requests, WrongPassword(r) \/ RecordLoginFailure(r)
      PROVE  Guessed'
  BY <1>3, WrongGuessed, RecordGuessed
<1>4. ASSUME \/ \E r \in Requests : RightPassword(r) \/ ClearLoginFailures(r)
             \/ WindowEnds
             \/ \E c \in Configs, saved \in BOOLEAN : Restart(c, saved)
      PROVE  Guessed'
  BY <1>4, OtherGuessed
<1>5. ASSUME NEW r \in Requests,
             \/ CreateSession(r)
             \/ \E a \in Accounts : ResolveAccount(r, a)
             \/ ListAccounts(r)
             \/ \E script \in Scripts, readable \in BOOLEAN :
                   ResolveVisibleScript(r, script, readable)
             \/ \E script \in Scripts : ResolveScriptJob(r, script)
             \/ \E route \in Api, given \in Tokens, cookie \in signed \cup {Nobody} :
                   RequireAPIToken(r, route, given, cookie)
             \/ \E route \in Console \cup {"visibility"}, cookie \in signed \cup {Nobody} :
                   RequireBrowserSession(r, route, cookie)
      PROVE  Guessed'
  <2>1. req[r].at \notin {"checking", "wrong"} /\ UNCHANGED <<attempts, guesses>>
    BY <1>5 DEF CreateSession, ResolveAccount, ListAccounts, ResolveVisibleScript,
                ResolveScriptJob, RequireAPIToken, RequireBrowserSession, limiter
  <2>2. /\ \A p \in Requests \ {r} : req'[p] = req[p]
        /\ req'[r].at \notin {"checking", "wrong"}
    <3>1. CASE CreateSession(r)
      BY <1>1, <3>1, Becomes DEF CreateSession, Finish, Idle
    <3>2. CASE \E a \in Accounts : ResolveAccount(r, a)
      <4>1. PICK a \in Accounts : ResolveAccount(r, a)
        BY <3>2
      <4> DEFINE q == [req[r] EXCEPT !.at = "resolved", !.accounts = {a},
                                     !.owner = account[a].owner]
      <4>2. Finish(r) \/ Become(r, q)
        BY <4>1, Zenon DEF ResolveAccount
      <4>3. q.at = "resolved" /\ Idle.at = "idle"
        BY <1>1 DEF Request, Idle
      <4>4. QED
        BY <1>1, <4>2, <4>3, Becomes DEF Finish
    <3>3. CASE ListAccounts(r)
      <4>1. \A as : [req[r] EXCEPT !.at = "resolved", !.accounts = as].at = "resolved"
        BY <1>1 DEF Request
      <4>2. Finish(r) \/ \E as : Become(r, [req[r] EXCEPT !.at = "resolved", !.accounts = as])
        BY <3>3, Zenon DEF ListAccounts
      <4>3. CASE Finish(r)
        BY <1>1, <4>3, Becomes DEF Finish, Idle
      <4>4. CASE \E as : Become(r, [req[r] EXCEPT !.at = "resolved", !.accounts = as])
        <5>1. PICK as : Become(r, [req[r] EXCEPT !.at = "resolved", !.accounts = as])
          BY <4>4
        <5> DEFINE q == [req[r] EXCEPT !.at = "resolved", !.accounts = as]
        <5>2. Become(r, q) /\ q.at = "resolved"
          BY <4>1, <5>1
        <5>3. QED
          BY <1>1, <5>2, Becomes
      <4>5. QED
        BY <4>2, <4>3, <4>4
    <3>4. CASE \/ \E script \in Scripts, readable \in BOOLEAN :
                     ResolveVisibleScript(r, script, readable)
               \/ \E script \in Scripts : ResolveScriptJob(r, script)
      <4>1. PICK script \in Scripts, readable \in BOOLEAN :
                   ResolveVisibleScript(r, script, readable) \/ ResolveScriptJob(r, script)
        BY <3>4
      <4> DEFINE q == [req[r] EXCEPT !.script = script]
      <4>2. (Finish(r) \/ Become(r, q)) /\ req[r].at = "resolved"
        BY <4>1, Zenon DEF ResolveVisibleScript, ResolveScriptJob
      <4>3. q.at = req[r].at /\ Idle.at = "idle"
        BY <1>1 DEF Request, Idle
      <4>4. QED
        BY <1>1, <4>2, <4>3, Becomes DEF Finish
    <3>5. CASE \/ \E route \in Api, given \in Tokens, cookie \in signed \cup {Nobody} :
                    RequireAPIToken(r, route, given, cookie)
               \/ \E route \in Console \cup {"visibility"}, cookie \in signed \cup {Nobody} :
                    RequireBrowserSession(r, route, cookie)
      <4>1. req'[r].at = "authorized"
        BY <3>5, LetIn
      <4>2. \A p \in Requests \ {r} : req'[p] = req[p]
        BY <1>1, <3>5 DEF RequireAPIToken, RequireBrowserSession, Become, RequestsOK
      <4>3. QED
        BY <4>1, <4>2
    <3>6. QED
      BY <1>5, <3>1, <3>2, <3>3, <3>4, <3>5
  <2>3. \A p \in Requests : Quiet(p)
    BY <2>1, <2>2 DEF Quiet
  <2>4. QED
    BY <2>1, <2>3, GuessedKept
<1>6. ASSUME NEW r \in Requests,
             Operate(r) \/ \E dirs \in Dirs : HandleScriptVisibility(r, dirs)
      PROVE  Guessed'
  <2>1. req[r].at \in {"authorized", "resolved"} /\ UNCHANGED <<attempts, guesses>>
    BY <1>6 DEF Operate, Works, HandleScriptVisibility, limiter
  <2>2. Finish(r) \/ \E rs : req' = [Moves(rs) EXCEPT ![r] = Idle]
    BY <1>6 DEF Operate, HandleScriptVisibility
  <2>3. \A p \in Requests : Quiet(p)
    <3>1. CASE Finish(r)
      BY <1>1, <2>1, <3>1, QuietBecomes DEF Finish, Idle
    <3>2. CASE \E rs : req' = [Moves(rs) EXCEPT ![r] = Idle]
      BY <1>1, <2>1, <3>2, QuietMoves
    <3>3. QED
      BY <2>2, <3>1, <3>2
  <2>4. QED
    BY <2>1, <2>3, GuessedKept
<1>7. ASSUME \/ \E u \in Users, a \in Accounts : Claim(u, a)
             \/ \E u \in Users : SetRole(u) \/ SignOut(u)
             \/ \E dirs \in Dirs : EditSetting(dirs)
      PROVE  Guessed'
  <2>1. UNCHANGED <<attempts, guesses>> /\ \E rs : req' = Moves(rs)
    BY <1>7 DEF Claim, SetRole, SignOut, EditSetting, limiter
  <2>2. \A p \in Requests : Quiet(p)
    BY <1>1, <2>1, QuietMoves
  <2>3. QED
    BY <2>1, <2>2, GuessedKept
<1>8. CASE UNCHANGED vars
  <2>1. UNCHANGED <<attempts, guesses>> /\ \A p \in Requests : Quiet(p)
    BY <1>8 DEF vars, Quiet
  <2>2. QED
    BY <2>1, GuessedKept
<1>9. QED
  BY <1>2, <1>3, <1>4, <1>5, <1>6, <1>7, <1>8 DEF Next

(* The wrong passwords of a key, as long as its counter is remembered, are *)
(* less than its limit and the attempts that may be under way together,    *)
(* however these overlap and whichever counters are evicted (auth.go:575). *)
THEOREM Guesses == Spec => []GuessesLimited
<1>1. Init => Guessed
  <2> SUFFICES ASSUME Init, NEW key \in Keys PROVE GuessedOf(key)
    BY DEF Guessed
  <2>1. DOMAIN attempts = {} /\ guesses[key] = 0 /\ InFlight(key) = {} /\ Uncounted(key) = {}
    BY DEF Init, InFlight, Uncounted, Idle
  <2>2. Cardinality({}) = 0 /\ Failures(key) = 0
    BY <2>1, FS_EmptySet DEF Failures
  <2>3. QED
    BY <2>1, <2>2, Numbers DEF GuessedOf
<1>2. Typed /\ Typed' /\ Guessed /\ [Next]_vars => Guessed'
  BY GuessedStep
<1>3. Typed /\ Guessed => GuessesLimited
  <2> SUFFICES ASSUME Typed, Guessed, NEW key \in Keys
               PROVE  guesses[key] < Limit(key) + Cardinality(Requests)
    BY DEF GuessesLimited
  <2>1. GuessedOf(key) /\ LimiterOK
    BY DEF Guessed, Typed
  <2>2. /\ Failures(key) \in Nat /\ guesses[key] \in Nat /\ Limit(key) \in Nat
        /\ Cardinality(Requests) \in Nat /\ Cardinality(Uncounted(key)) \in Nat
        /\ Cardinality(InFlight(key)) \in Nat
        /\ Cardinality(Uncounted(key)) <= Cardinality(InFlight(key))
    BY <2>1, Counts, Numbers, PendingSets
  <2>3. QED
    BY <2>1, <2>2 DEF GuessedOf
<1>4. QED
  BY <1>1, <1>2, <1>3, Always, PTL DEF Spec

----------------------------------------------------------------------------
(* What a request works on *)

\* The user that is known stands for the credentials.
LEMMA GrantedIs ==
  ASSUME Typed, NEW q, Known(q), q.route \in Api \cup Console, NEW a
  PROVE  Granted(q, a) <=> May(q, a)
<1>1. Nobody \notin signed
  BY AccessAssumption DEF Typed, TablesOK
<1>2. CASE q.route \in Api /\ q.user = Nobody
  <2>1. Identity(q) = "script"
    BY <1>1, <1>2 DEF Known, Identity
  <2>2. QED
    BY <1>2, <2>1 DEF Granted, May, CanReadAccountViaAPI
<1>3. CASE q.route \in Api /\ q.user # Nobody
  <2>1. Identity(q) = "user" /\ q.user = q.cookie /\ (q.admin <=> q.cookie \in admins)
    BY <1>3 DEF Known, Identity
  <2>2. QED
    BY <1>3, <2>1 DEF Granted, May, CanReadAccountViaAPI, CanAccessAccount, IsAdminRequest
<1>4. CASE q.route \notin Api /\ config.auth
  <2>1. /\ Identity(q) = "user" /\ q.user = q.cookie /\ q.user # Nobody
        /\ q.admin <=> q.cookie \in admins
    BY <1>1, <1>4 DEF Known, Identity
  <2>2. QED
    BY <1>4, <2>1 DEF Granted, May, CanAccessAccount, IsAdminRequest
<1>5. CASE q.route \notin Api /\ ~config.auth
  <2>1. Identity(q) = "local" /\ q.user = Nobody
    BY <1>5 DEF Known, Identity
  <2>2. QED
    BY <1>5, <2>1 DEF Granted, May, CanAccessAccount, IsAdminRequest
<1>6. QED
  BY <1>2, <1>3, <1>4, <1>5

\* The directories of a setting are beginnings of scripts.
LEMMA PrefixIs ==
  ASSUME TablesOK, NEW dir \in setting.dirs, NEW script \in Scripts, IsPrefix(dir, script)
  PROVE  \E n \in 1 .. Len(script) : SubSeq(script, 1, n) = dir
<1>1. PICK s \in Scripts : dir = SubSeq(s, 1, 1)
  BY DEF TablesOK, Dirs
<1>2. s \in Seq(STRING) /\ s # <<>> /\ script \in Seq(STRING) /\ script # <<>>
  BY AccessAssumption
<1>3. dir \in Seq(STRING) /\ Len(dir) = 1 /\ SubSeq(dir, 1, 1) = dir
  BY <1>1, <1>2
<1>4. SubSeq(script, 1, 1) = dir
  BY <1>3 DEF IsPrefix
<1>5. 1 \in 1 .. Len(script)
  BY <1>2
<1>6. QED
  BY <1>4, <1>5

\* A script that was let through is granted.
LEMMA ScriptIs ==
  ASSUME Typed, NEW q, Known(q), q.route = "script", q.script \in Scripts, MayScript(q)
  PROVE  ScriptGranted(q, q.script)
<1>1. q.route \notin Api /\ q.route \in Console
  BY DEF Api, Console
<1>2. Nobody \notin signed /\ TablesOK
  BY AccessAssumption DEF Typed, TablesOK
<1>3. CASE IsAdminRequest(q)
  BY <1>1, <1>2, <1>3 DEF IsAdminRequest, Known, ScriptGranted, Identity
<1>4. CASE setting.form = "text" \/ setting.dirs = {}
  BY <1>4 DEF ScriptGranted
<1>5. CASE \E dir \in setting.dirs : IsPrefix(dir, q.script)
  <2>1. \E dir \in setting.dirs : \E n \in 1 .. Len(q.script) : SubSeq(q.script, 1, n) = dir
    BY <1>2, <1>5, PrefixIs
  <2>2. QED
    BY <2>1 DEF ScriptGranted
<1>6. QED
  BY <1>3, <1>4, <1>5 DEF MayScript

(* A request works only on accounts its credentials give it, unless what   *)
(* gave it that has changed since it came in (access.go, api_token.go),    *)
(* and the default account is the best of those.  The scripts it enables   *)
(* or runs are visible to it (script_scope.go); those it reaches otherwise *)
(* have a job of the account or its owner, or of another account of the    *)
(* owner where the list of jobs heals it (runs.go:137, 257, 364).          *)
THEOREM Reached == Spec => ReachOnlyAsGranted
<1> DEFINE Now(r) ==
             LET q == req[r] IN
             Operate(r) /\ ~q.moved =>
                /\ \A a \in q.accounts : Granted(q, a)
                /\ q.route = "default" => \A a \in q.accounts : BestGranted(q, a)
                /\ q.route = "script" => ScriptGranted(q, q.script)
                /\ q.route \in {"disable", "log"} => HasJob(q, q.script)
                /\ \A new \in jobs' \ jobs :
                      \/ ScriptGranted(q, new[2])
                      \/ \E a \in q.accounts : new[2] \in Healed(account[a].owner)
<1>1. ASSUME Typed, Reach, NEW r \in Requests PROVE Now(r)
  <2> DEFINE q == req[r]
  <2> SUFFICES ASSUME Operate(r), ~q.moved
               PROVE  /\ \A a \in q.accounts : Granted(q, a)
                      /\ q.route = "default" => \A a \in q.accounts : BestGranted(q, a)
                      /\ q.route = "script" => ScriptGranted(q, q.script)
                      /\ q.route \in {"disable", "log"} => HasJob(q, q.script)
                      /\ \A new \in jobs' \ jobs :
                            \/ ScriptGranted(q, new[2])
                            \/ \E a \in q.accounts : new[2] \in Healed(account[a].owner)
    OBVIOUS
  <2>1. q.at = "resolved" /\ (q.route \in ForScript => q.script # <<>>)
    BY DEF Operate, Works
  <2>2. Known(q) /\ Chose(q)
    BY <1>1, <2>1 DEF Reach, Sound
  <2>3. q \in Request
    BY <1>1 DEF Typed, RequestsOK
  <2>4. ASSUME NEW new \in jobs' \ jobs
        PROVE  \/ q.route = "script" /\ new[2] = q.script
               \/ q.route = "jobs" /\ new[2] \in Healed(q.owner)
    <3>1. \/ q.route = "script" /\ \E key : jobs' = jobs \cup {<<key, q.script>>}
          \/ /\ q.route = "jobs"
             /\ \E scripts \in SUBSET Healed(q.owner) : jobs' = jobs \cup {q.owner} \X scripts
      BY <2>4 DEF Operate
    <3> HIDE DEF q
    <3>2. QED
      BY <2>4, <3>1
  <2> HIDE DEF q
  <2>5. q.route \in Api \cup Console
    BY <2>1, <2>2 DEF Chose
  <2>6. \A a : Granted(q, a) <=> May(q, a)
    BY <1>1, <2>2, <2>5, GrantedIs
  <2>7. \A a \in q.accounts : Granted(q, a)
    BY <2>2, <2>6 DEF Chose
  <2>8. q.route = "default" => \A a \in q.accounts : BestGranted(q, a)
    BY <2>2, <2>6 DEF Chose, BestGranted, BestOf
  <2>9. q.route = "script" => ScriptGranted(q, q.script)
    <3> SUFFICES ASSUME q.route = "script" PROVE ScriptGranted(q, q.script)
      OBVIOUS
    <3>1. q.script \in Scripts /\ MayScript(q)
      BY <2>1, <2>2, <2>3 DEF Request, Chose, ForScript
    <3>2. QED
      BY <1>1, <2>2, <3>1, ScriptIs
  <2>10. q.route \in {"disable", "log"} => HasJob(q, q.script)
    BY <2>1, <2>2 DEF Chose, Anchored, ForScript
  <2>11. q.route = "jobs" => \E a \in q.accounts : q.owner = account[a].owner
    BY <2>1, <2>2 DEF Chose, Anchored, ByRef
  <2>12. \A new \in jobs' \ jobs :
            \/ ScriptGranted(q, new[2])
            \/ \E a \in q.accounts : new[2] \in Healed(account[a].owner)
    <3>1. TAKE new \in jobs' \ jobs
    <3>2. \/ q.route = "script" /\ new[2] = q.script
          \/ q.route = "jobs" /\ new[2] \in Healed(q.owner)
      BY <2>4
    <3>3. QED
      BY <2>9, <2>11, <3>2
  <2>13. QED
    BY <2>7, <2>8, <2>9, <2>10, <2>12
<1>2. Typed /\ Reach => \A r \in Requests : Now(r)
  BY <1>1
<1>3. QED
  BY <1>2, Always, PTL DEF ReachOnlyAsGranted

=============================================================================
