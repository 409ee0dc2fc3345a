---------------------------- MODULE PanelProofs ----------------------------
(***************************************************************************)
(* Proofs about Panel: what YYB_SERVER says, and which configuration is in *)
(* use.                                                                    *)
(*                                                                         *)
(* As long as no calls that share something have overlapped, at most one   *)
(* call reads YYB_SERVER to change it, and none saves beside it (Apart).   *)
(* The address in use then stays what it is under a call on the list,      *)
(* although status may change the type (Steady); what a clean-up has       *)
(* changed, and what of it is taken back, is known from the variables it   *)
(* listed (Cleans).                                                        *)
(***************************************************************************)
EXTENDS Panel, SequenceTheorems, NaturalsInduction, WellFoundedInduction, TLAPS

Call == [at : Stages, config : Config, keys : SUBSET Keys, left : SUBSET (1 .. MaxEnvs),
         done : SUBSET (1 .. MaxEnvs), seen : Lists, line : Lines]

\* Calls on the variables, those of them that clean up, and calls of status.
Serving == {"merging", "writing", "removing", "undoing"}
Cleaning == {"removing", "undoing"}
Asking == {"asking", "retrying"}

CallOK(q) ==
    /\ q.done \subseteq DOMAIN q.seen
    /\ q.at = "removing" => q.left \subseteq DOMAIN q.seen
    /\ q.at \in Serving => q.line \in Accounts
    /\ q.at = "writing" => q.config.url \in Panels

ManagerOK ==
    /\ settings \in Config
    /\ manager \in [config : Config, driver : Config]
    /\ manager.config.type = manager.driver.type
EnvsOK == envs \in [Panels -> Lists] /\ \A p \in Daidais : Len(envs[p]) <= 1
CallsOK == call \in [Calls -> Call] /\ \A c \in Calls : CallOK(call[c])
ToldOK == told \in [Panels -> [Lines -> {"on", "off", "unknown"}]]
FlagsOK == torn \in BOOLEAN /\ shared \in BOOLEAN /\ restarts \in 0 .. MaxRestarts

Typed == ManagerOK /\ EnvsOK /\ CallsOK /\ ToldOK /\ FlagsOK

\* No calls that share something are under way together.
Apart ==
    ~shared => \A c, d \in Calls : c # d => ~Sharing(call[c].at, call[d].at)

\* The driver is that of the fields, and the one status is about to put in use as well.
Steady ==
    ~shared =>
       /\ DriverMatches(manager)
       /\ \A c \in Calls : call[c].at = "retrying" =>
             /\ call[c].config.url = manager.config.url
             /\ call[c].config.secret = manager.config.secret

\* What is saved is in use, and what a call has saved so far is what it was asked to.
SavedBy(q) ==
    q.at = "persisting" =>
       /\ q.config.secret = q.config.url
       /\ "type" \notin q.keys => settings.type = q.config.type
       /\ "url" \notin q.keys => settings.url = q.config.url
       /\ "secret" \notin q.keys => settings.secret = q.config.secret

Matched ==
    /\ settings.url = manager.config.url /\ settings.secret = manager.config.secret
    /\ settings.secret = settings.url

SavedSoFar ==
    ~shared => (~torn => Matched) /\ \A c \in Calls : SavedBy(call[c])

\* The variables say of a line what was told.
Says(list, l, what) ==
    (what = "on" => Occurrences(list, l) # {}) /\ (what = "off" => Occurrences(list, l) = {})

CleanedNow(p, l) ==
    \E c \in Calls : call[c].at \in Cleaning /\ p = GetDriver.url /\ l = call[c].line

\* What a call knows of the variables.
Merges(q) == q.at = "merging" => envs[GetDriver.url] = q.seen

Writes(q) ==
    q.at = "writing" => envs[q.config.url] = q.seen /\ (q.left = {} <=> q.seen = <<>>)

Same(q, i, l) == l \in envs[GetDriver.url][i] <=> l \in q.seen[i]

Removes(q) ==
    q.at = "removing" =>
       /\ Occurrences(q.seen, q.line) \subseteq q.left \cup q.done
       /\ \A i \in DOMAIN q.seen :
             IF i \in q.done THEN q.line \notin envs[GetDriver.url][i] ELSE Same(q, i, q.line)

Undoes(q) ==
    q.at = "undoing" /\ told[GetDriver.url][q.line] # "unknown" =>
       \A i \in DOMAIN q.seen \ q.done : Same(q, i, q.line)

Cleans(q) ==
    q.at \in Cleaning =>
       /\ GetDriver.url \in Panels
       /\ DOMAIN envs[GetDriver.url] = DOMAIN q.seen
       /\ \A i \in DOMAIN q.seen : \A l \in Lines \ {q.line} : Same(q, i, l)
       /\ Says(q.seen, q.line, told[GetDriver.url][q.line])

Knows(q) == Merges(q) /\ Writes(q) /\ Cleans(q) /\ Removes(q) /\ Undoes(q)

Listed ==
    ~shared =>
       /\ \A p \in Panels, l \in Lines : ~CleanedNow(p, l) => Says(envs[p], l, told[p][l])
       /\ \A c \in Calls : Knows(call[c])

IInv == Typed /\ Apart /\ Steady /\ SavedSoFar /\ Listed
----------------------------------------------------------------------------
(* Lists of variables *)

\* Intervals of the same numbers end alike.
LEMMA SameEnd ==
  ASSUME NEW a \in Nat, NEW b \in Nat, 1 .. a = 1 .. b
  PROVE  a = b
<1>1. \A n \in 1 .. a : n <= b
  OBVIOUS
<1>2. \A n \in 1 .. b : n <= a
  OBVIOUS
<1>3. a # 0 => a \in 1 .. a
  OBVIOUS
<1>4. b # 0 => b \in 1 .. b
  OBVIOUS
<1>5. QED
  BY <1>1, <1>2, <1>3, <1>4

\* A list is a sequence of at most MaxEnvs sets of lines.
LEMMA ListIs ==
  ASSUME NEW list \in Lists
  PROVE  /\ list \in Seq(SUBSET Lines)
         /\ Len(list) \in 0 .. MaxEnvs /\ DOMAIN list = 1 .. Len(list)
         /\ list \in [1 .. Len(list) -> SUBSET Lines]
         /\ \A i \in DOMAIN list : i \in 1 .. MaxEnvs /\ list[i] \subseteq Lines
<1>1. PICK n \in 0 .. MaxEnvs : list \in [1 .. n -> SUBSET Lines]
  BY DEF Lists
<1>2. n \in Nat /\ MaxEnvs \in Nat
  BY PanelAssumption
<1>3. list \in Seq(SUBSET Lines)
  BY <1>1, <1>2, SeqDef
<1>4. Len(list) \in Nat /\ DOMAIN list = 1 .. Len(list)
  BY <1>3, LenProperties
<1>5. DOMAIN list = 1 .. n
  BY <1>1
<1>6. Len(list) = n
  BY <1>2, <1>4, <1>5, SameEnd
<1>7. QED
  BY <1>1, <1>2, <1>3, <1>4, <1>6

\* A short sequence of such sets is a list.
LEMMA ListFrom ==
  ASSUME NEW list \in Seq(SUBSET Lines), Len(list) <= MaxEnvs
  PROVE  list \in Lists
<1>1. Len(list) \in Nat /\ list \in [1 .. Len(list) -> SUBSET Lines]
  BY LenProperties
<1>2. Len(list) \in 0 .. MaxEnvs
  BY <1>1, PanelAssumption
<1>3. QED
  BY <1>1, <1>2 DEF Lists

\* A list of one.
LEMMA OneOK ==
  ASSUME NEW value \in SUBSET Lines
  PROVE  /\ <<value>> \in Lists /\ DOMAIN <<value>> = {1} /\ <<value>>[1] = value
         /\ Len(<<value>>) = 1 /\ <<>> \in Lists /\ DOMAIN <<>> = {} /\ Len(<<>>) = 0
<1>1. <<value>> \in Seq(SUBSET Lines) /\ Len(<<value>>) = 1
  OBVIOUS
<1>2. <<>> \in Seq(SUBSET Lines) /\ Len(<<>>) = 0
  OBVIOUS
<1>3. <<value>> \in Lists
  <2>1. Len(<<value>>) <= MaxEnvs
    BY <1>1, PanelAssumption
  <2>2. QED
    BY <1>1, <2>1, ListFrom
<1>4. <<>> \in Lists
  <2>1. Len(<<>>) <= MaxEnvs
    BY <1>2, PanelAssumption
  <2>2. QED
    BY <1>2, <2>1, ListFrom
<1>5. QED
  BY <1>1, <1>2, <1>3, <1>4

\* A value changed in a list.
LEMMA ChangedOK ==
  ASSUME NEW list \in Lists, NEW i, NEW value \in SUBSET Lines
  PROVE  /\ [list EXCEPT ![i] = value] \in Lists
         /\ Len([list EXCEPT ![i] = value]) = Len(list)
<1> DEFINE new == [list EXCEPT ![i] = value]
<1>1. /\ Len(list) \in 0 .. MaxEnvs /\ DOMAIN list = 1 .. Len(list)
      /\ list \in [1 .. Len(list) -> SUBSET Lines]
  BY ListIs
<1>2. new \in [1 .. Len(list) -> SUBSET Lines]
  BY <1>1
<1>3. new \in Lists
  BY <1>1, <1>2 DEF Lists
<1>4. DOMAIN new = 1 .. Len(new) /\ Len(new) \in 0 .. MaxEnvs
  BY <1>3, ListIs
<1>5. Len(new) = Len(list)
  BY <1>1, <1>2, <1>4, PanelAssumption
<1>6. QED
  BY <1>3, <1>5

\* What a PUT leaves is a list.
LEMMA PutOK ==
  ASSUME EnvsOK, NEW p \in Panels, NEW i, NEW value \in SUBSET Lines
  PROVE  Put(p, i, value) \in Lists /\ (p \in Daidais => Len(Put(p, i, value)) <= 1)
<1>1. envs[p] \in Lists /\ (p \in Daidais => Len(envs[p]) <= 1)
  BY DEF EnvsOK
<1>2. /\ [envs[p] EXCEPT ![1] = value] \in Lists
      /\ Len([envs[p] EXCEPT ![1] = value]) = Len(envs[p])
      /\ [envs[p] EXCEPT ![i] = value] \in Lists
  BY <1>1, ChangedOK
<1>3. <<value>> \in Lists /\ Len(<<value>>) = 1
  BY OneOK
<1>4. QED
  BY <1>1, <1>2, <1>3 DEF Put

\* A PUT to a variable that is there changes that variable.
LEMMA PutAt ==
  ASSUME EnvsOK, NEW p \in Panels, NEW i \in DOMAIN envs[p], NEW value \in SUBSET Lines
  PROVE  /\ DOMAIN Put(p, i, value) = DOMAIN envs[p]
         /\ Put(p, i, value)[i] = value
         /\ \A j \in DOMAIN envs[p] : j # i => Put(p, i, value)[j] = envs[p][j]
<1>1. /\ envs[p] \in Lists /\ DOMAIN envs[p] = 1 .. Len(envs[p]) /\ Len(envs[p]) \in Nat
      /\ p \in Daidais => Len(envs[p]) <= 1
  BY ListIs, PanelAssumption DEF EnvsOK
<1>2. Put(p, i, value) = [envs[p] EXCEPT ![i] = value]
  <2>1. CASE p \in Daidais
    <3>1. i = 1
      BY <1>1, <2>1
    <3>2. envs[p] # <<>>
      BY <1>1, OneOK
    <3>3. QED
      BY <2>1, <3>1, <3>2 DEF Put
  <2>2. CASE p \notin Daidais
    BY <2>2 DEF Put
  <2>3. QED
    BY <2>1, <2>2
<1>3. QED
  BY <1>2

\* A list with a value added.
LEMMA AppendOK ==
  ASSUME NEW list \in Lists, Len(list) < MaxEnvs, NEW value \in SUBSET Lines
  PROVE  Append(list, value) \in Lists
<1>1. list \in Seq(SUBSET Lines) /\ Len(list) \in Nat
  BY ListIs
<1>2. Append(list, value) \in Seq(SUBSET Lines) /\ Len(Append(list, value)) = Len(list) + 1
  BY <1>1, AppendProperties
<1>3. Len(Append(list, value)) <= MaxEnvs
  BY <1>1, <1>2, PanelAssumption
<1>4. QED
  BY <1>2, <1>3, ListFrom

\* A set of numbers has a least one ...
LEMMA Least ==
  ASSUME NEW S, S \subseteq Nat, S # {}
  PROVE  Min(S) \in S
<1>1. \E m \in S : \A k \in S : ~(<<k, m>> \in OpToRel(<, Nat))
  BY WFMin, NatLessThanWellFounded
<1>2. PICK m \in S : \A k \in S : ~(<<k, m>> \in OpToRel(<, Nat))
  BY <1>1
<1>3. \A k \in S : m <= k
  <2>1. \A k \in S : ~(k < m)
    BY <1>2 DEF OpToRel
  <2>2. QED
    BY <2>1
<1>4. QED
  BY <1>3 DEF Min

\* ... and a bounded one has a greatest.
LEMMA Greatest ==
  ASSUME NEW n \in Nat, NEW S, S \subseteq 1 .. n, S # {}
  PROVE  Max(S) \in S
<1> DEFINE T == {n - k : k \in S}
<1>1. T \subseteq Nat /\ T # {}
  <2>1. \A k \in S : n - k \in Nat
    OBVIOUS
  <2>2. QED
    BY <2>1
<1>2. \E m \in T : \A k \in T : ~(<<k, m>> \in OpToRel(<, Nat))
  BY <1>1, WFMin, NatLessThanWellFounded
<1>3. PICK m \in T : \A k \in T : ~(<<k, m>> \in OpToRel(<, Nat))
  BY <1>2
<1>4. \A k \in T : m <= k
  <2> HIDE DEF T
  <2>1. \A k \in T : ~(k < m)
    BY <1>1, <1>3 DEF OpToRel
  <2>2. m \in Nat /\ \A k \in T : k \in Nat
    BY <1>1, <1>3
  <2>3. QED
    BY <2>1, <2>2
<1>5. PICK x \in S : m = n - x
  OBVIOUS
<1>6. ASSUME NEW y \in S
      PROVE  x >= y
  <2>1. n - y \in T
    OBVIOUS
  <2>2. n - x <= n - y
    BY <1>4, <1>5, <2>1
  <2>3. x \in 1 .. n /\ y \in 1 .. n
    BY <1>5
  <2>4. QED
    BY <2>2, <2>3
<1>7. QED
  BY <1>5, <1>6 DEF Max
----------------------------------------------------------------------------
(* What a step does to the calls *)

Others(c) == CallsOK' /\ \A d \in Calls \ {c} : call'[d] = call[d]
Quieter == ~shared' => ~shared
Alike(a, b) ==
    b = "idle" \/ {a, b} \subseteq Serving \/ {a, b} \subseteq Saving \/ {a, b} \subseteq Asking

\* A call has a new record.
LEMMA Becomes ==
  ASSUME CallsOK, NEW c \in Calls, NEW q \in Call, CallOK(q), call' = [call EXCEPT ![c] = q]
  PROVE  Others(c) /\ call'[c] = q
<1>1. call' \in [Calls -> Call] /\ call'[c] = q /\ \A d \in Calls \ {c} : call'[d] = call[d]
  BY DEF CallsOK
<1>2. ASSUME NEW d \in Calls
      PROVE  CallOK(call'[d])
  BY <1>1 DEF CallsOK
<1>3. QED
  BY <1>1, <1>2 DEF CallsOK, Others

\* It belongs to the same kind as before, or has ended.
LEMMA Goes ==
  ASSUME CallsOK, Apart, shared' = shared, NEW c \in Calls, NEW q \in Call, CallOK(q),
         Alike(call[c].at, q.at), call' = [call EXCEPT ![c] = q]
  PROVE  Others(c) /\ call'[c] = q /\ Quieter /\ Apart'
<1>1. Others(c) /\ call'[c] = q
  BY Becomes
<1>2. ASSUME NEW d \in Calls, NEW e \in Calls, d # e, ~Sharing(call[d].at, call[e].at)
      PROVE  ~Sharing(call'[d].at, call'[e].at)
  <2>1. CASE d = c
    BY <1>1, <1>2, <2>1 DEF Others, Alike, Sharing, Saving, Serving, Asking
  <2>2. CASE e = c
    BY <1>1, <1>2, <2>2 DEF Others, Alike, Sharing, Saving, Serving, Asking
  <2>3. CASE d # c /\ e # c
    BY <1>1, <1>2, <2>3 DEF Others
  <2>4. QED
    BY <2>1, <2>2, <2>3
<1>3. QED
  BY <1>1, <1>2 DEF Apart, Quieter

\* It is a new call.
LEMMA Begins ==
  ASSUME CallsOK, FlagsOK, Apart, NEW c \in Calls, NEW q \in Call, CallOK(q), Start(c, q)
  PROVE  /\ call[c].at = "idle" /\ Others(c) /\ call'[c] = q /\ shared' \in BOOLEAN
         /\ Quieter /\ Apart'
         /\ ~shared' => \A d \in Calls \ {c} : ~Sharing(call[d].at, q.at)
<1>1. call[c].at = "idle" /\ call' = [call EXCEPT ![c] = q]
  BY DEF Start
<1>2. Others(c) /\ call'[c] = q
  BY <1>1, Becomes
<1>3. shared' = (shared \/ \E other \in Calls \ {c} : Sharing(call[other].at, q.at))
  BY DEF Start
<1>4. shared' \in BOOLEAN /\ Quieter
  BY <1>3 DEF FlagsOK, Quieter
<1>5. ~shared' => \A d \in Calls \ {c} : ~Sharing(call[d].at, q.at)
  BY <1>3
<1>6. ASSUME ~shared', NEW d \in Calls, NEW e \in Calls, d # e
      PROVE  ~Sharing(call'[d].at, call'[e].at)
  <2>1. ~shared
    BY <1>4, <1>6 DEF Quieter
  <2>2. CASE d = c
    <3>1. ~Sharing(call[e].at, q.at)
      BY <1>5, <1>6, <2>2
    <3>2. QED
      BY <1>2, <2>2, <1>6, <3>1 DEF Others, Sharing
  <2>3. CASE e = c
    BY <1>2, <1>5, <1>6, <2>3 DEF Others
  <2>4. CASE d # c /\ e # c
    BY <1>2, <1>6, <2>1, <2>4 DEF Others, Apart
  <2>5. QED
    BY <2>2, <2>3, <2>4
<1>7. QED
  BY <1>1, <1>2, <1>4, <1>5, <1>6 DEF Apart

\* Who serves has the variables for itself, who saves has everything.
LEMMA Alone ==
  ASSUME Apart, ~shared, NEW c \in Calls, NEW d \in Calls \ {c}
  PROVE  /\ call[c].at \in Serving => call[d].at \notin Serving \cup Saving
         /\ call[c].at \in Saving => call[d].at = "idle"
<1>1. ~Sharing(call[c].at, call[d].at)
  BY DEF Apart
<1>2. QED
  BY <1>1 DEF Sharing, Serving, Saving

\* The manager and the fields stay.
LEMMA SteadyFrame ==
  ASSUME Steady, Quieter, NEW c \in Calls, Others(c), manager' = manager,
         call'[c].at # "retrying"
  PROVE  Steady'
  BY DEF Steady, Quieter, Others, DriverMatches

\* What is saved and the fields stay.
LEMMA SavedFrame ==
  ASSUME SavedSoFar, Quieter, NEW c \in Calls, Others(c), UNCHANGED <<settings, torn>>,
         manager'.config.url = manager.config.url,
         manager'.config.secret = manager.config.secret, call'[c].at # "persisting"
  PROVE  SavedSoFar'
<1>1. Matched => Matched'
  BY DEF Matched
<1>2. ASSUME NEW d \in Calls, ~shared
      PROVE  SavedBy(call[d])'
  BY <1>2 DEF SavedSoFar, SavedBy, Others
<1>3. QED
  BY <1>1, <1>2 DEF SavedSoFar, Quieter

\* The variables and what was told of them stay, and so does the address.
LEMMA ListedFrame ==
  ASSUME Listed, Quieter, NEW c \in Calls, Others(c), UNCHANGED <<envs, told>>,
         call[c].at \notin Cleaning, call'[c].at \notin Serving,
         ~shared' => \/ manager'.driver.url = manager.driver.url
                     \/ \A d \in Calls \ {c} : call[d].at \notin Serving
  PROVE  Listed'
<1> SUFFICES ASSUME ~shared'
             PROVE  /\ \A p \in Panels, l \in Lines :
                          ~CleanedNow(p, l)' => Says(envs[p], l, told[p][l])'
                    /\ \A d \in Calls : Knows(call[d])'
  BY DEF Listed
<1>1. ~shared
  BY DEF Quieter
<1>2. Cleaning \subseteq Serving
  BY DEF Cleaning, Serving
<1>3. ASSUME NEW p \in Panels, NEW l \in Lines, ~CleanedNow(p, l)'
      PROVE  Says(envs[p], l, told[p][l])'
  <2>1. ~CleanedNow(p, l)
    <3>1. SUFFICES ASSUME NEW d \in Calls, call[d].at \in Cleaning, p = GetDriver.url,
                          l = call[d].line
                   PROVE  FALSE
      BY DEF CleanedNow
    <3>2. d # c /\ call'[d] = call[d]
      BY <3>1 DEF Others
    <3>3. manager'.driver.url = manager.driver.url
      BY <1>2, <3>1, <3>2
    <3>4. QED
      BY <1>3, <3>1, <3>2, <3>3 DEF CleanedNow, GetDriver
  <2>2. Says(envs[p], l, told[p][l])
    BY <1>1, <2>1 DEF Listed
  <2>3. QED
    BY <2>2 DEF Says, Occurrences
<1>4. ASSUME NEW d \in Calls
      PROVE  Knows(call[d])'
  <2>1. CASE call'[d].at \in Serving
    <3>1. d # c /\ call'[d] = call[d]
      BY <2>1 DEF Others
    <3>2. GetDriver'.url = GetDriver.url
      BY <2>1, <3>1 DEF GetDriver
    <3>3. Knows(call[d])
      BY <1>1 DEF Listed
    <3>4. QED
      BY <3>1, <3>2, <3>3 DEF Knows, Merges, Writes, Cleans, Removes, Undoes, Says,
                              Occurrences, Same
  <2>2. CASE call'[d].at \notin Serving
    BY <2>2 DEF Knows, Merges, Writes, Cleans, Removes, Undoes, Serving, Cleaning
  <2>3. QED
    BY <2>1, <2>2
<1>5. QED
  BY <1>3, <1>4
----------------------------------------------------------------------------
(* Steps on the configuration and of status *)

\* A request that has ended.
LEMMA IdleOK == Idle \in Call /\ CallOK(Idle) /\ Idle.at = "idle" /\ Empty \in Config
<1>1. <<>> \in Lists
  BY OneOK
<1>2. Empty \in Config
  BY DEF Empty, Config, Types
<1>3. Idle \in Call /\ Idle.at = "idle" /\ Idle.done = {}
  BY <1>1, <1>2 DEF Idle, Call, Stages, Lines
<1>4. QED
  BY <1>2, <1>3 DEF CallOK, Serving

\* Nothing but a call and the mark of overlapping changes.
LEMMA TypedFrame ==
  ASSUME Typed, NEW c \in Calls, Others(c), shared' \in BOOLEAN,
         UNCHANGED <<settings, manager, envs, told, torn, restarts>>
  PROVE  Typed'
  BY DEF Typed, ManagerOK, EnvsOK, Others, ToldOK, FlagsOK

\* A step of a call that serves neither before nor after, and saves and retries nothing.
LEMMA QuietFrame ==
  ASSUME IInv, NEW c \in Calls, Others(c), Quieter, Apart', shared' \in BOOLEAN,
         UNCHANGED <<settings, manager, envs, told, torn, restarts>>,
         call[c].at \notin Cleaning, call'[c].at \notin Serving \cup {"retrying", "persisting"}
  PROVE  IInv'
<1>1. Typed'
  BY TypedFrame DEF IInv
<1>2. Steady' /\ SavedSoFar' /\ Listed'
  BY SteadyFrame, SavedFrame, ListedFrame DEF IInv
<1>3. QED
  BY <1>1, <1>2 DEF IInv

\* A configuration is to be tested.
LEMMA ConfigureStep ==
  ASSUME IInv, NEW c \in Calls, NEW type \in Types, NEW url \in Panels,
         NEW secret \in {url, NoPanel}, Configure(c, type, url, secret)
  PROVE  IInv'
<1> DEFINE kept == IF secret = NoPanel THEN manager.config.secret ELSE secret
           config == [type |-> type, url |-> url, secret |-> kept]
           q == [Idle EXCEPT !.at = "testing", !.config = config]
<1>1. config \in Config
  BY DEF IInv, Typed, ManagerOK, Config
<1>2. q \in Call /\ q.at = "testing" /\ q.done = {}
  BY <1>1, IdleOK DEF Call, Stages, Idle
<1>3. CallOK(q)
  BY <1>2 DEF CallOK, Serving
<1>4. Start(c, q) /\ UNCHANGED <<settings, manager, envs, told, torn, restarts>>
  BY DEF Configure
<1> HIDE DEF q
<1>5. call[c].at = "idle" /\ Others(c) /\ call'[c] = q /\ shared' \in BOOLEAN /\ Quieter /\ Apart'
  BY <1>2, <1>3, <1>4, Begins DEF IInv, Typed
<1>6. QED
  BY <1>2, <1>4, <1>5, QuietFrame DEF Cleaning, Serving

\* The status is asked of the driver of the moment.
LEMMA StatusStep ==
  ASSUME IInv, NEW c \in Calls, Status(c)
  PROVE  IInv'
<1> DEFINE q == [Idle EXCEPT !.at = "asking", !.config = GetDriver]
<1>1. GetDriver \in Config
  BY DEF IInv, Typed, ManagerOK, GetDriver
<1>2. q \in Call /\ q.at = "asking" /\ q.done = {}
  BY <1>1, IdleOK DEF Call, Stages, Idle
<1>3. CallOK(q)
  BY <1>2 DEF CallOK, Serving
<1>4. Start(c, q) /\ UNCHANGED <<settings, manager, envs, told, torn, restarts>>
  BY DEF Status
<1> HIDE DEF q
<1>5. call[c].at = "idle" /\ Others(c) /\ call'[c] = q /\ shared' \in BOOLEAN /\ Quieter /\ Apart'
  BY <1>2, <1>3, <1>4, Begins DEF IInv, Typed
<1>6. QED
  BY <1>2, <1>4, <1>5, QuietFrame DEF Cleaning, Serving

\* A call that is not cleaning up fails.
LEMMA FailsStep ==
  ASSUME IInv, NEW c \in Calls, Fails(c)
  PROVE  IInv'
<1>1. /\ call' = [call EXCEPT ![c] = Idle] /\ call[c].at \notin Cleaning
      /\ UNCHANGED <<settings, manager, envs, told, torn, shared, restarts>>
  BY DEF Fails, Finish, Cleaning
<1>2. Others(c) /\ call'[c] = Idle /\ Quieter /\ Apart'
  BY <1>1, Goes, IdleOK DEF IInv, Typed, Alike
<1>3. shared' \in BOOLEAN
  BY <1>1 DEF IInv, Typed, FlagsOK
<1>4. QED
  BY <1>1, <1>2, <1>3, IdleOK, QuietFrame DEF Serving

\* What was tested works: the secret is that of the address.
LEMMA TestedStep ==
  ASSUME IInv, NEW c \in Calls, Tested(c)
  PROVE  IInv'
<1> DEFINE q == [call[c] EXCEPT !.at = "persisting", !.keys = Keys]
<1>1. call[c] \in Call /\ CallOK(call[c]) /\ call[c].at = "testing" /\ call[c].config \in Config
  BY DEF IInv, Typed, CallsOK, Tested, Call
<1>2. /\ q \in Call /\ q.at = "persisting" /\ q.keys = Keys /\ q.config = call[c].config
      /\ q.done = call[c].done /\ q.seen = call[c].seen
  BY <1>1 DEF Call, Stages
<1>3. CallOK(q)
  BY <1>1, <1>2 DEF CallOK, Serving
<1>4. /\ call' = [call EXCEPT ![c] = q]
      /\ UNCHANGED <<settings, manager, envs, told, torn, shared, restarts>>
  BY <1>1 DEF Tested, IInv, Typed, CallsOK
<1>5. q.config.secret = q.config.url
  BY <1>1, <1>2 DEF Tested, Works, Config
<1> HIDE DEF q
<1>6. Others(c) /\ call'[c] = q /\ Quieter /\ Apart'
  BY <1>1, <1>2, <1>3, <1>4, Goes DEF IInv, Typed, Alike, Saving
<1>7. shared' \in BOOLEAN
  BY <1>4 DEF IInv, Typed, FlagsOK
<1>8. Typed'
  BY <1>4, <1>6, <1>7, TypedFrame DEF IInv
<1>9. Steady' /\ Listed'
  BY <1>1, <1>2, <1>4, <1>6, SteadyFrame, ListedFrame DEF IInv, Cleaning, Serving
<1>10. SavedSoFar'
  <2>1. SavedBy(call[c])'
    BY <1>2, <1>5, <1>6 DEF SavedBy, Keys
  <2>2. ASSUME NEW d \in Calls, ~shared
        PROVE  SavedBy(call[d])'
    BY <1>4, <1>6, <2>1, <2>2 DEF SavedSoFar, SavedBy, Others, IInv
  <2>3. QED
    BY <1>4, <1>6, <2>2 DEF SavedSoFar, Matched, IInv
<1>11. QED
  BY <1>6, <1>8, <1>9, <1>10 DEF IInv

\* An empty configuration is to be saved.
LEMMA ClearStep ==
  ASSUME IInv, NEW c \in Calls, Clear(c)
  PROVE  IInv'
<1> DEFINE q == [Idle EXCEPT !.at = "persisting", !.keys = Keys]
<1>1. /\ q \in Call /\ q.at = "persisting" /\ q.keys = Keys /\ q.config = Empty
      /\ q.done = {}
  BY IdleOK DEF Call, Stages, Idle
<1>2. CallOK(q)
  BY <1>1 DEF CallOK, Serving
<1>3. Start(c, q) /\ UNCHANGED <<settings, manager, envs, told, torn, restarts>>
  BY DEF Clear
<1> HIDE DEF q
<1>4. call[c].at = "idle" /\ Others(c) /\ call'[c] = q /\ shared' \in BOOLEAN /\ Quieter /\ Apart'
  BY <1>1, <1>2, <1>3, Begins DEF IInv, Typed
<1>5. Typed'
  BY <1>3, <1>4, TypedFrame DEF IInv
<1>6. Steady' /\ Listed'
  BY <1>1, <1>3, <1>4, SteadyFrame, ListedFrame DEF IInv, Cleaning, Serving
<1>7. SavedSoFar'
  <2>1. SavedBy(call[c])'
    BY <1>1, <1>4 DEF SavedBy, Keys, Empty
  <2>2. ASSUME NEW d \in Calls, ~shared
        PROVE  SavedBy(call[d])'
    BY <1>3, <1>4, <2>1, <2>2 DEF SavedSoFar, SavedBy, Others, IInv
  <2>3. QED
    BY <1>3, <1>4, <2>2 DEF SavedSoFar, Matched, IInv, Quieter
<1>8. QED
  BY <1>4, <1>5, <1>6, <1>7 DEF IInv

\* One key of the configuration is saved.
LEMMA PersistStep ==
  ASSUME IInv, NEW c \in Calls, Persist(c)
  PROVE  IInv'
<1>1. PICK key \in call[c].keys :
         /\ settings' = [settings EXCEPT ![key] = call[c].config[key]]
         /\ call' = [call EXCEPT ![c].keys = @ \ {key}]
  BY DEF Persist
<1> DEFINE q == [call[c] EXCEPT !.keys = call[c].keys \ {key}]
<1>2. /\ call[c] \in Call /\ CallOK(call[c]) /\ call[c].at = "persisting"
      /\ call[c].config \in Config /\ call[c].keys \subseteq Keys
  BY DEF IInv, Typed, CallsOK, Persist, Call
<1>3. /\ q \in Call /\ q.at = "persisting" /\ q.keys = call[c].keys \ {key}
      /\ q.config = call[c].config /\ q.done = call[c].done /\ q.seen = call[c].seen
  BY <1>2 DEF Call
<1>4. CallOK(q)
  BY <1>2, <1>3 DEF CallOK, Serving
<1>5. /\ call' = [call EXCEPT ![c] = q] /\ torn' = TRUE
      /\ UNCHANGED <<manager, envs, told, shared, restarts>>
  BY <1>1, <1>2 DEF Persist, IInv, Typed, CallsOK
<1> HIDE DEF q
<1>6. Others(c) /\ call'[c] = q /\ Quieter /\ Apart'
  BY <1>2, <1>3, <1>4, <1>5, Goes DEF IInv, Typed, Alike, Saving
<1>7. /\ settings' \in Config
      /\ key = "type" => /\ settings'.type = call[c].config.type
                         /\ settings'.url = settings.url /\ settings'.secret = settings.secret
      /\ key = "url" => /\ settings'.url = call[c].config.url
                        /\ settings'.type = settings.type /\ settings'.secret = settings.secret
      /\ key = "secret" => /\ settings'.secret = call[c].config.secret
                           /\ settings'.type = settings.type /\ settings'.url = settings.url
  <2>1. settings \in Config
    BY DEF IInv, Typed, ManagerOK
  <2>2. CASE key = "type"
    BY <1>1, <1>2, <2>1, <2>2 DEF Config
  <2>3. CASE key = "url"
    BY <1>1, <1>2, <2>1, <2>3 DEF Config
  <2>4. CASE key = "secret"
    BY <1>1, <1>2, <2>1, <2>4 DEF Config
  <2>5. QED
    BY <1>1, <1>2, <2>2, <2>3, <2>4 DEF Keys
<1>8. Typed'
  BY <1>5, <1>6, <1>7 DEF IInv, Typed, ManagerOK, EnvsOK, ToldOK, FlagsOK, Others
<1>9. Steady' /\ Listed'
  BY <1>2, <1>3, <1>5, <1>6, SteadyFrame, ListedFrame DEF IInv, Cleaning, Serving
<1>10. SavedSoFar'
  <2>1. SUFFICES ASSUME ~shared, NEW d \in Calls
                 PROVE  SavedBy(call[d])'
    BY <1>5 DEF SavedSoFar
  <2>2. CASE d = c
    <3>1. SavedBy(call[c])
      BY <2>1 DEF IInv, SavedSoFar
    <3>2. key \in Keys
      BY <1>1, <1>2
    <3>3. QED
      BY <1>2, <1>3, <1>6, <1>7, <2>2, <3>1, <3>2 DEF SavedBy, Keys
  <2>3. CASE d # c
    <3>1. call'[d] = call[d] /\ call[d].at = "idle"
      BY <1>2, <1>6, <2>1, <2>3, Alone DEF IInv, Others, Saving
    <3>2. QED
      BY <3>1 DEF SavedBy
  <2>4. QED
    BY <2>2, <2>3
<1>11. QED
  BY <1>6, <1>8, <1>9, <1>10 DEF IInv

\* What was saved is put in use.
LEMMA ReconfigureStep ==
  ASSUME IInv, NEW c \in Calls, Reconfigure(c)
  PROVE  IInv'
<1>1. /\ call[c] \in Call /\ call[c].at = "persisting" /\ call[c].keys = {}
      /\ call[c].config \in Config
  BY DEF IInv, Typed, CallsOK, Reconfigure, Call
<1>2. /\ call' = [call EXCEPT ![c] = Idle] /\ torn' = FALSE
      /\ UNCHANGED <<settings, envs, told, shared, restarts>>
  BY DEF Reconfigure, Finish
<1>3. Others(c) /\ call'[c] = Idle /\ Quieter /\ Apart'
  BY <1>2, Goes, IdleOK DEF IInv, Typed, Alike
<1>4. /\ manager' \in [config : Config, driver : Config]
      /\ manager'.config.type = manager'.driver.type
      /\ manager'.config = call[c].config
      /\ DriverMatches(manager) => DriverMatches(manager')
  <2>1. CASE manager.config = call[c].config
    BY <2>1 DEF Reconfigure, IInv, Typed, ManagerOK
  <2>2. CASE manager.config # call[c].config
    BY <1>1, <2>2 DEF Reconfigure, Manager, DriverMatches
  <2>3. QED
    BY <2>1, <2>2
<1>5. Typed'
  BY <1>2, <1>3, <1>4 DEF IInv, Typed, ManagerOK, EnvsOK, ToldOK, FlagsOK, Others
<1>6. ASSUME ~shared, NEW d \in Calls
      PROVE  call'[d].at = "idle" /\ (d # c => call[d].at = "idle")
  BY <1>1, <1>3, <1>6, Alone, IdleOK DEF IInv, Others, Saving
<1>7. Steady'
  BY <1>2, <1>4, <1>6 DEF IInv, Steady
<1>8. Listed'
  <2>1. call[c].at \notin Cleaning /\ call'[c].at \notin Serving
    BY <1>1, <1>3, IdleOK DEF Cleaning, Serving
  <2>2. ~shared' => \A d \in Calls \ {c} : call[d].at \notin Serving
    BY <1>2, <1>6 DEF Serving
  <2>3. QED
    BY <1>2, <1>3, <2>1, <2>2, ListedFrame DEF IInv
<1>9. SavedSoFar'
  <2>1. SUFFICES ASSUME ~shared
                 PROVE  Matched' /\ \A d \in Calls : SavedBy(call[d])'
    BY <1>2 DEF SavedSoFar
  <2>2. SavedBy(call[c])
    BY <2>1 DEF IInv, SavedSoFar
  <2>3. Matched'
    BY <1>1, <1>2, <1>4, <2>2 DEF SavedBy, Matched
  <2>4. QED
    BY <1>6, <2>1, <2>3 DEF SavedBy
<1>10. QED
  BY <1>3, <1>5, <1>7, <1>8, <1>9 DEF IInv

\* The fields of the moment with the other type.
LEMMA TryOtherTypeStep ==
  ASSUME IInv, NEW c \in Calls, TryOtherType(c)
  PROVE  IInv'
<1> DEFINE other == [manager.config EXCEPT !.type = OtherType(call[c].config.type)]
           q == [call[c] EXCEPT !.at = "retrying", !.config = other]
<1>1. call[c] \in Call /\ CallOK(call[c]) /\ call[c].at = "asking" /\ manager.config \in Config
  BY DEF IInv, Typed, CallsOK, TryOtherType, ManagerOK
<1>2. /\ other \in Config /\ other.url = manager.config.url
      /\ other.secret = manager.config.secret
  BY <1>1 DEF Config, OtherType, Types
<1>3. /\ q \in Call /\ q.at = "retrying" /\ q.config = other
      /\ q.done = call[c].done /\ q.seen = call[c].seen
  BY <1>1, <1>2 DEF Call, Stages
<1>4. CallOK(q)
  BY <1>1, <1>3 DEF CallOK, Serving
<1>5. /\ call' = [call EXCEPT ![c] = q]
      /\ UNCHANGED <<settings, manager, envs, told, torn, shared, restarts>>
  BY <1>1 DEF TryOtherType, IInv, Typed, CallsOK
<1> HIDE DEF q, other
<1>6. Others(c) /\ call'[c] = q /\ Quieter /\ Apart'
  BY <1>1, <1>3, <1>4, <1>5, Goes DEF IInv, Typed, Alike, Asking
<1>7. shared' \in BOOLEAN
  BY <1>5 DEF IInv, Typed, FlagsOK
<1>8. Typed'
  BY <1>5, <1>6, <1>7, TypedFrame DEF IInv
<1>9. SavedSoFar' /\ Listed'
  BY <1>1, <1>3, <1>5, <1>6, SavedFrame, ListedFrame DEF IInv, Cleaning, Serving
<1>10. Steady'
  BY <1>2, <1>3, <1>5, <1>6 DEF Steady, DriverMatches, Others, IInv
<1>11. QED
  BY <1>6, <1>8, <1>9, <1>10 DEF IInv

\* The driver of the other type takes the place of the one in use.
LEMMA UseOtherTypeStep ==
  ASSUME IInv, NEW c \in Calls, UseOtherType(c)
  PROVE  IInv'
<1> DEFINE found == call[c].config
           fields == [manager.config EXCEPT !.type = found.type]
<1>1. /\ call[c] \in Call /\ call[c].at = "retrying" /\ found \in Config
      /\ manager.config \in Config
  BY DEF IInv, Typed, CallsOK, UseOtherType, Call, ManagerOK
<1>2. /\ fields \in Config /\ fields.url = manager.config.url
      /\ fields.secret = manager.config.secret /\ fields.type = found.type
  BY <1>1 DEF Config
<1>3. /\ call' = [call EXCEPT ![c] = Idle] /\ manager' = [config |-> fields, driver |-> found]
      /\ UNCHANGED <<settings, envs, told, torn, shared, restarts>>
  BY DEF UseOtherType, Finish
<1> HIDE DEF fields, found
<1>4. Others(c) /\ call'[c] = Idle /\ Quieter /\ Apart'
  BY <1>3, Goes, IdleOK DEF IInv, Typed, Alike
<1>5. Typed'
  BY <1>1, <1>2, <1>3, <1>4 DEF IInv, Typed, ManagerOK, EnvsOK, ToldOK, FlagsOK, Others
<1>6. ~shared => /\ found.url = manager.config.url /\ found.secret = manager.config.secret
                 /\ found.url = manager.driver.url
  BY <1>1 DEF IInv, Steady, DriverMatches, found
<1>7. Steady'
  BY <1>2, <1>3, <1>4, <1>6, IdleOK DEF IInv, Steady, DriverMatches, Others
<1>8. SavedSoFar'
  BY <1>2, <1>3, <1>4, IdleOK, SavedFrame DEF IInv
<1>9. Listed'
  <2>1. call[c].at \notin Cleaning /\ call'[c].at \notin Serving
    BY <1>1, <1>4, IdleOK DEF Cleaning, Serving
  <2>2. ~shared' => manager'.driver.url = manager.driver.url
    BY <1>3, <1>6
  <2>3. QED
    BY <1>3, <1>4, <2>1, <2>2, ListedFrame DEF IInv
<1>10. QED
  BY <1>4, <1>5, <1>7, <1>8, <1>9 DEF IInv
----------------------------------------------------------------------------
(* Steps on YYB_SERVER *)

\* A call serves alone.
LEMMA Sole ==
  ASSUME IInv, ~shared, NEW c \in Calls, call[c].at \in Serving, NEW d \in Calls \ {c}
  PROVE  call[d].at \notin Serving
  BY Alone DEF IInv

\* What is known before the step of a call that has no other beside it, ...
LEMMA ListedNow ==
  ASSUME Listed, ~shared, NEW c \in Calls, \A d \in Calls \ {c} : call[d].at \notin Serving
  PROVE  /\ Knows(call[c])
         /\ \A p \in Panels, l \in Lines :
               ~(call[c].at \in Cleaning /\ p = GetDriver.url /\ l = call[c].line)
               => Says(envs[p], l, told[p][l])
<1>1. Cleaning \subseteq Serving
  BY DEF Cleaning, Serving
<1>2. ASSUME NEW p \in Panels, NEW l \in Lines,
             ~(call[c].at \in Cleaning /\ p = GetDriver.url /\ l = call[c].line)
      PROVE  ~CleanedNow(p, l)
  BY <1>1, <1>2 DEF CleanedNow
<1>3. QED
  BY <1>2 DEF Listed

\* ... and what has to be known after it.
LEMMA ListedFrom ==
  ASSUME NEW c \in Calls,
         ~shared' => /\ \A d \in Calls \ {c} : call'[d].at \notin Serving
                     /\ Knows(call[c])'
                     /\ \A p \in Panels, l \in Lines :
                           ~(call'[c].at \in Cleaning /\ p = manager'.driver.url
                             /\ l = call'[c].line)
                           => Says(envs[p], l, told[p][l])'
  PROVE  Listed'
<1> SUFFICES ASSUME ~shared'
             PROVE  /\ \A p \in Panels, l \in Lines :
                          ~CleanedNow(p, l)' => Says(envs[p], l, told[p][l])'
                    /\ \A d \in Calls : Knows(call[d])'
  BY DEF Listed
<1>1. ASSUME NEW d \in Calls
      PROVE  Knows(call[d])'
  <2>1. CASE d = c
    BY <2>1
  <2>2. CASE d # c
    BY <2>2 DEF Knows, Merges, Writes, Cleans, Removes, Undoes, Serving, Cleaning
  <2>3. QED
    BY <2>1, <2>2
<1>2. ASSUME NEW p \in Panels, NEW l \in Lines, ~CleanedNow(p, l)'
      PROVE  Says(envs[p], l, told[p][l])'
  BY <1>2 DEF CleanedNow, GetDriver
<1>3. QED
  BY <1>1, <1>2

\* A call that serves and goes on without the manager being changed.
LEMMA ServeFrame ==
  ASSUME IInv, NEW c \in Calls, NEW q \in Call, CallOK(q), call[c].at \in Serving,
         q.at \in Serving \cup {"idle"}, call' = [call EXCEPT ![c] = q],
         UNCHANGED <<settings, manager, torn, shared, restarts>>, EnvsOK', ToldOK'
  PROVE  /\ Others(c) /\ call'[c] = q /\ Apart' /\ Typed' /\ Steady' /\ SavedSoFar'
         /\ ~shared' => ~shared
         /\ ~shared => /\ \A d \in Calls \ {c} : call[d].at \notin Serving
                       /\ \A d \in Calls \ {c} : call'[d].at \notin Serving
<1>1. Others(c) /\ call'[c] = q /\ Quieter /\ Apart'
  BY Goes DEF IInv, Typed, Alike
<1>2. Typed'
  BY <1>1 DEF IInv, Typed, ManagerOK, FlagsOK, Others
<1>3. q.at # "retrying" /\ q.at # "persisting"
  BY DEF Serving
<1>4. Steady' /\ SavedSoFar'
  BY <1>1, <1>3, SteadyFrame, SavedFrame DEF IInv
<1>5. QED
  BY <1>1, <1>2, <1>4, Sole DEF Others

\* What a call that serves is.
LEMMA ServeNow ==
  ASSUME IInv, NEW c \in Calls, call[c].at \in Serving
  PROVE  /\ call[c] \in Call /\ CallOK(call[c]) /\ call[c].line \in Accounts
         /\ call[c].line \in Lines /\ call[c].seen \in Lists
         /\ call[c].done \subseteq 1 .. MaxEnvs /\ call[c].done \subseteq DOMAIN call[c].seen
         /\ \A i \in DOMAIN call[c].seen : call[c].seen[i] \subseteq Lines
<1>1. call[c] \in Call /\ CallOK(call[c])
  BY DEF IInv, Typed, CallsOK
<1>2. call[c].line \in Accounts /\ call[c].seen \in Lists
  BY <1>1 DEF CallOK, Call
<1>3. QED
  BY <1>1, <1>2, ListIs DEF Call, CallOK, Lines

\* The variables are listed, to add a line.
LEMMA SyncStep ==
  ASSUME IInv, NEW c \in Calls, NEW line \in Accounts, Sync(c, line)
  PROVE  IInv'
<1> DEFINE q == [Idle EXCEPT !.at = "merging", !.seen = envs[GetDriver.url], !.line = line]
<1>1. GetDriver.url \in Panels /\ envs[GetDriver.url] \in Lists /\ line \in Lines
  BY DEF Sync, Works, IInv, Typed, EnvsOK, Lines
<1>2. /\ q \in Call /\ q.at = "merging" /\ q.done = {} /\ q.line = line
      /\ q.seen = envs[GetDriver.url]
  BY <1>1, IdleOK DEF Call, Stages, Idle
<1>3. CallOK(q)
  BY <1>2 DEF CallOK
<1>4. Start(c, q) /\ UNCHANGED <<settings, manager, envs, told, torn, restarts>>
  BY DEF Sync
<1> HIDE DEF q
<1>5. /\ call[c].at = "idle" /\ Others(c) /\ call'[c] = q /\ shared' \in BOOLEAN
      /\ Quieter /\ Apart'
      /\ ~shared' => \A d \in Calls \ {c} : ~Sharing(call[d].at, q.at)
  BY <1>2, <1>3, <1>4, Begins DEF IInv, Typed
<1>6. Typed' /\ Steady' /\ SavedSoFar'
  BY <1>2, <1>4, <1>5, TypedFrame, SteadyFrame, SavedFrame DEF IInv
<1>7. ASSUME ~shared'
      PROVE  ~shared /\ \A d \in Calls \ {c} : call[d].at \notin Serving
  BY <1>2, <1>5, <1>7 DEF Quieter, Sharing, Serving
<1>8. Listed'
  <2>1. ASSUME ~shared'
        PROVE  Knows(call[c])'
    BY <1>2, <1>4, <1>5 DEF Knows, Merges, Writes, Cleans, Removes, Undoes, Cleaning, GetDriver
  <2>2. ASSUME ~shared', NEW p \in Panels, NEW l \in Lines
        PROVE  Says(envs[p], l, told[p][l])'
    <3>1. call[c].at \notin Cleaning
      BY <1>5 DEF Cleaning
    <3>2. Says(envs[p], l, told[p][l])
      BY <1>7, <2>2, <3>1, ListedNow DEF IInv
    <3>3. QED
      BY <1>4, <3>2 DEF Says, Occurrences
  <2>3. ~shared' => \A d \in Calls \ {c} : call'[d].at \notin Serving
    BY <1>5, <1>7 DEF Others
  <2>4. QED
    BY <2>1, <2>2, <2>3, ListedFrom
<1>9. QED
  BY <1>5, <1>6, <1>8 DEF IInv

\* The variable to write is looked up.
LEMMA UpsertStep ==
  ASSUME IInv, NEW c \in Calls, Upsert(c)
  PROVE  IInv'
<1> DEFINE left == IF envs[GetDriver.url] = <<>> THEN {} ELSE {1}
           q == [call[c] EXCEPT !.at = "writing", !.config = GetDriver, !.left = left]
<1>1. call[c].at = "merging" /\ call[c].at \in Serving /\ call[c].at \notin Cleaning
  BY DEF Upsert, Serving, Cleaning
<1>2. GetDriver.url \in Panels /\ GetDriver \in Config /\ left \subseteq 1 .. MaxEnvs
  BY PanelAssumption DEF Upsert, Works, IInv, Typed, ManagerOK, GetDriver
<1>3. call[c] \in Call /\ CallOK(call[c]) /\ call[c].line \in Accounts
  BY <1>1, ServeNow
<1>4. /\ q \in Call /\ q.at = "writing" /\ q.config = GetDriver /\ q.left = left
      /\ q.seen = call[c].seen /\ q.done = call[c].done /\ q.line = call[c].line
  BY <1>2, <1>3 DEF Call, Stages
<1>5. CallOK(q)
  BY <1>2, <1>3, <1>4 DEF CallOK
<1>6. call' = [call EXCEPT ![c] = q]
      /\ UNCHANGED <<settings, manager, envs, told, torn, shared, restarts>>
  BY <1>3 DEF Upsert, IInv, Typed, CallsOK
<1> HIDE DEF q
<1>7. /\ Others(c) /\ call'[c] = q /\ Apart' /\ Typed' /\ Steady' /\ SavedSoFar'
      /\ ~shared' => ~shared
      /\ ~shared => /\ \A d \in Calls \ {c} : call[d].at \notin Serving
                    /\ \A d \in Calls \ {c} : call'[d].at \notin Serving
  <2>1. EnvsOK' /\ ToldOK' /\ q.at \in Serving \cup {"idle"}
    BY <1>4, <1>6 DEF IInv, Typed, EnvsOK, ToldOK, Serving
  <2>2. QED
    BY <1>1, <1>4, <1>5, <1>6, <2>1, ServeFrame
<1>8. Listed'
  <2>1. ASSUME ~shared'
        PROVE  Knows(call[c])'
    <3>1. Merges(call[c])
      BY <1>7, <2>1, ListedNow DEF IInv, Knows
    <3>2. QED
      BY <1>1, <1>4, <1>6, <1>7, <3>1
         DEF Knows, Merges, Writes, Cleans, Removes, Undoes, Cleaning
  <2>2. ASSUME ~shared', NEW p \in Panels, NEW l \in Lines
        PROVE  Says(envs[p], l, told[p][l])'
    <3>1. Says(envs[p], l, told[p][l])
      BY <1>1, <1>7, <2>2, ListedNow DEF IInv
    <3>2. QED
      BY <1>6, <3>1 DEF Says, Occurrences
  <2>3. QED
    BY <1>7, <2>1, <2>2, ListedFrom
<1>9. QED
  BY <1>7, <1>8 DEF IInv

\* The merged value is written: the line is on the list, the others are as before.
LEMMA WriteServersStep ==
  ASSUME IInv, NEW c \in Calls, WriteServers(c)
  PROVE  IInv'
<1> DEFINE p == call[c].config.url
           line == call[c].line
           seen == call[c].seen
           value == Merged(seen, line)
<1>1. call[c].at = "writing" /\ call[c].at \in Serving /\ call[c].at \notin Cleaning
  BY DEF WriteServers, Serving, Cleaning
<1>2. /\ call[c] \in Call /\ line \in Lines /\ seen \in Lists /\ p \in Panels
      /\ \A i \in DOMAIN seen : seen[i] \subseteq Lines
  BY <1>1, ServeNow DEF CallOK
<1>3. DOMAIN seen = 1 .. Len(seen) /\ Len(seen) \in Nat /\ (seen = <<>> <=> Len(seen) = 0)
  <2>1. seen \in Seq(SUBSET Lines) /\ DOMAIN seen = 1 .. Len(seen) /\ Len(seen) \in Nat
    BY <1>2, ListIs
  <2>2. QED
    BY <2>1, EmptySeq
<1>4. value \in SUBSET Lines /\ line \in value
  <2>1. CASE seen = <<>>
    BY <1>2, <2>1 DEF Merged
  <2>2. CASE seen # <<>>
    <3>1. 1 \in DOMAIN seen
      BY <1>3, <2>2
    <3>2. seen[1] \subseteq Lines
      BY <1>2, <3>1
    <3>3. QED
      BY <1>2, <2>2, <3>2 DEF Merged
  <2>3. QED
    BY <2>1, <2>2
<1>5. PICK list \in Lists :
         /\ envs' = [envs EXCEPT ![p] = list]
         /\ p \in Daidais => Len(list) <= 1
         /\ \/ /\ p \in QingLongs /\ call[c].left = {} /\ Len(envs[p]) < MaxEnvs
               /\ list = Append(envs[p], value)
            \/ /\ ~(p \in QingLongs /\ call[c].left = {}) /\ list = Put(p, 1, value)
  <2>1. EnvsOK /\ envs[p] \in Lists
    BY <1>2 DEF IInv, Typed, EnvsOK
  <2>2. CASE p \in QingLongs /\ call[c].left = {}
    <3>1. Len(envs[p]) < MaxEnvs /\ envs' = [envs EXCEPT ![p] = Append(envs[p], value)]
      BY <2>2 DEF WriteServers
    <3>2. Append(envs[p], value) \in Lists
      BY <1>4, <2>1, <3>1, AppendOK
    <3>3. p \notin Daidais
      BY <2>2, PanelAssumption
    <3>4. QED
      BY <2>2, <3>1, <3>2, <3>3
  <2>3. CASE ~(p \in QingLongs /\ call[c].left = {})
    <3>1. envs' = [envs EXCEPT ![p] = Put(p, 1, value)]
      BY <2>3 DEF WriteServers
    <3>2. Put(p, 1, value) \in Lists /\ (p \in Daidais => Len(Put(p, 1, value)) <= 1)
      BY <1>2, <1>4, <2>1, PutOK
    <3>3. QED
      BY <2>3, <3>1, <3>2
  <2>4. QED
    BY <2>2, <2>3
<1>6. PICK what \in {"on", "unknown"} : told' = [told EXCEPT ![p][line] = what]
  BY DEF WriteServers, Tell
<1>7. /\ call' = [call EXCEPT ![c] = Idle]
      /\ UNCHANGED <<settings, manager, torn, shared, restarts>>
  BY DEF WriteServers, Finish
<1>8. EnvsOK' /\ ToldOK'
  <2>1. EnvsOK'
    BY <1>2, <1>5 DEF IInv, Typed, EnvsOK
  <2>2. ToldOK'
    BY <1>2, <1>6 DEF IInv, Typed, ToldOK
  <2>3. QED
    BY <2>1, <2>2
<1>9. /\ Others(c) /\ call'[c] = Idle /\ Apart' /\ Typed' /\ Steady' /\ SavedSoFar'
      /\ ~shared' => ~shared
      /\ ~shared => /\ \A d \in Calls \ {c} : call[d].at \notin Serving
                    /\ \A d \in Calls \ {c} : call'[d].at \notin Serving
  BY <1>1, <1>7, <1>8, IdleOK, ServeFrame
<1>10. ASSUME ~shared
       PROVE  envs[p] = seen /\ (call[c].left = {} <=> seen = <<>>)
  BY <1>1, <1>9, <1>10, ListedNow DEF IInv, Knows, Writes
<1> HIDE DEF value, seen, p, line
<1>11. ASSUME ~shared
       PROVE  /\ 1 \in DOMAIN list /\ list[1] = value
              /\ seen = <<>> => DOMAIN list = {1}
              /\ seen # <<>> => DOMAIN list = DOMAIN seen
              /\ \A i \in DOMAIN list \ {1} : list[i] = seen[i]
  <2>1. CASE seen = <<>>
    <3>1. envs[p] = <<>> /\ call[c].left = {}
      BY <1>10, <1>11, <2>1
    <3>2. CASE p \in QingLongs
      <4>1. list = Append(<<>>, value)
        BY <1>5, <3>1, <3>2
      <4>2. QED
        BY <2>1, <4>1
    <3>3. CASE p \notin QingLongs
      <4>1. p \in Daidais
        BY <1>2, <3>3 DEF Panels
      <4>2. list = Put(p, 1, value)
        BY <1>5, <3>3
      <4>3. list = <<value>>
        BY <3>1, <4>1, <4>2 DEF Put
      <4>4. QED
        BY <2>1, <4>3
    <3>4. QED
      BY <3>2, <3>3
  <2>2. CASE seen # <<>>
    <3>1. list = Put(p, 1, value) /\ envs[p] = seen
      BY <1>5, <1>10, <1>11, <2>2
    <3>2. 1 \in DOMAIN envs[p] /\ EnvsOK
      BY <1>3, <2>2, <3>1 DEF IInv, Typed
    <3>3. /\ DOMAIN list = DOMAIN envs[p] /\ list[1] = value
          /\ \A j \in DOMAIN envs[p] : j # 1 => list[j] = envs[p][j]
      BY <1>2, <1>4, <3>1, <3>2, PutAt
    <3>4. QED
      BY <2>2, <3>1, <3>2, <3>3
  <2>3. QED
    BY <2>1, <2>2
<1>12. ASSUME ~shared, NEW l \in Lines \ {line}
       PROVE  Occurrences(list, l) = Occurrences(seen, l)
  <2>1. CASE seen = <<>>
    <3>1. value = {line}
      BY <2>1 DEF Merged, value
    <3>2. Occurrences(list, l) = {}
      BY <1>11, <1>12, <2>1, <3>1 DEF Occurrences
    <3>3. Occurrences(seen, l) = {}
      BY <2>1, OneOK DEF Occurrences
    <3>4. QED
      BY <3>2, <3>3
  <2>2. CASE seen # <<>>
    <3>1. l \in value <=> l \in seen[1]
      BY <1>12, <2>2 DEF Merged, value
    <3>2. QED
      BY <1>11, <1>12, <2>2, <3>1 DEF Occurrences
  <2>3. QED
    BY <2>1, <2>2
<1>13. Listed'
  <2>1. ASSUME ~shared'
        PROVE  Knows(call[c])'
    BY <1>9, IdleOK DEF Knows, Merges, Writes, Cleans, Removes, Undoes, Cleaning
  <2>2. ASSUME ~shared', NEW r \in Panels, NEW l \in Lines
        PROVE  Says(envs[r], l, told[r][l])'
    <3>1. Says(envs[r], l, told[r][l]) /\ ~shared
      BY <1>1, <1>9, <2>2, ListedNow DEF IInv
    <3>2. CASE r # p
      <4>1. envs'[r] = envs[r] /\ told'[r][l] = told[r][l]
        BY <1>5, <1>6, <3>2 DEF IInv, Typed, EnvsOK, ToldOK
      <4>2. QED
        BY <3>1, <4>1 DEF Says, Occurrences
    <3>3. CASE r = p /\ l = line
      <4>1. envs'[r] = list /\ told'[r][l] = what
        BY <1>2, <1>5, <1>6, <3>3 DEF IInv, Typed, EnvsOK, ToldOK
      <4>2. 1 \in Occurrences(list, line)
        BY <1>4, <1>11, <3>1 DEF Occurrences
      <4>3. QED
        BY <3>3, <4>1, <4>2, <1>6 DEF Says
    <3>4. CASE r = p /\ l # line
      <4>1. envs'[r] = list /\ told'[r][l] = told[r][l]
        BY <1>2, <1>5, <1>6, <3>4 DEF IInv, Typed, EnvsOK, ToldOK
      <4>2. Occurrences(list, l) = Occurrences(envs[p], l)
        BY <1>10, <1>12, <3>1, <3>4
      <4>3. QED
        BY <3>1, <3>4, <4>1, <4>2 DEF Says
    <3>5. QED
      BY <3>2, <3>3, <3>4
  <2>3. QED
    BY <1>9, <2>1, <2>2, ListedFrom
<1>14. QED
  BY <1>9, <1>13 DEF IInv

\* The variables with the account's line are found.
LEMMA CleanupStep ==
  ASSUME IInv, NEW c \in Calls, NEW line \in Accounts, Cleanup(c, line)
  PROVE  IInv'
<1> DEFINE p == GetDriver.url
           q == [Idle EXCEPT !.at = "removing", !.seen = envs[p], !.line = line,
                             !.left = Occurrences(envs[p], line)]
<1>1. p \in Panels /\ envs[p] \in Lists /\ line \in Lines
  BY DEF Cleanup, Works, IInv, Typed, EnvsOK, Lines
<1>2. /\ Occurrences(envs[p], line) \subseteq DOMAIN envs[p]
      /\ Occurrences(envs[p], line) \subseteq 1 .. MaxEnvs
  BY <1>1, ListIs DEF Occurrences
<1>3. /\ q \in Call /\ q.at = "removing" /\ q.done = {} /\ q.line = line
      /\ q.seen = envs[p] /\ q.left = Occurrences(envs[p], line)
  BY <1>1, <1>2, IdleOK DEF Call, Stages, Idle
<1>4. CallOK(q)
  BY <1>2, <1>3 DEF CallOK
<1>5. Start(c, q) /\ UNCHANGED <<settings, manager, envs, told, torn, restarts>>
  BY DEF Cleanup
<1> HIDE DEF q, p
<1>6. /\ call[c].at = "idle" /\ Others(c) /\ call'[c] = q /\ shared' \in BOOLEAN
      /\ Quieter /\ Apart'
      /\ ~shared' => \A d \in Calls \ {c} : ~Sharing(call[d].at, q.at)
  BY <1>3, <1>4, <1>5, Begins DEF IInv, Typed
<1>7. Typed' /\ Steady' /\ SavedSoFar'
  BY <1>3, <1>5, <1>6, TypedFrame, SteadyFrame, SavedFrame DEF IInv
<1>8. ASSUME ~shared'
      PROVE  ~shared /\ \A d \in Calls \ {c} : call[d].at \notin Serving
  BY <1>3, <1>6, <1>8 DEF Quieter, Sharing, Serving
<1>9. ASSUME ~shared', NEW r \in Panels, NEW l \in Lines
      PROVE  Says(envs[r], l, told[r][l])
  BY <1>6, <1>8, <1>9, ListedNow DEF IInv, Cleaning
<1>10. Listed'
  <2>1. ASSUME ~shared'
        PROVE  Knows(call[c])'
    <3>1. Says(envs[p], line, told[p][line])
      BY <1>1, <1>9, <2>1
    <3>2. GetDriver.url = p /\ GetDriver'.url = p /\ p' = p
      BY <1>5 DEF p, GetDriver
    <3>3. Cleans(call[c])'
      BY <1>1, <1>3, <1>5, <1>6, <3>1, <3>2 DEF Cleans, Says, Same, Occurrences
    <3>4. Removes(call[c])'
      BY <1>3, <1>5, <1>6, <3>2 DEF Removes, Same, Occurrences
    <3>5. QED
      BY <1>3, <1>6, <3>3, <3>4 DEF Knows, Merges, Writes, Undoes
  <2>2. ASSUME ~shared', NEW r \in Panels, NEW l \in Lines
        PROVE  Says(envs[r], l, told[r][l])'
    <3>1. Says(envs[r], l, told[r][l])
      BY <1>9, <2>2
    <3>2. QED
      BY <1>5, <3>1 DEF Says, Occurrences
  <2>3. ~shared' => \A d \in Calls \ {c} : call'[d].at \notin Serving
    BY <1>6, <1>8 DEF Others
  <2>4. QED
    BY <2>1, <2>2, <2>3, ListedFrom
<1>11. QED
  BY <1>6, <1>7, <1>10 DEF IInv

\* What a clean-up knows of the variables of the panel in use, and of the rest.
LEMMA CleanNow ==
  ASSUME IInv, ~shared, NEW c \in Calls, call[c].at \in Cleaning
  PROVE  /\ Knows(call[c]) /\ GetDriver.url \in Panels
         /\ DOMAIN envs[GetDriver.url] = DOMAIN call[c].seen
         /\ \A i \in DOMAIN call[c].seen : \A l \in Lines \ {call[c].line} : Same(call[c], i, l)
         /\ Says(call[c].seen, call[c].line, told[GetDriver.url][call[c].line])
         /\ \A r \in Panels, l \in Lines :
               r # GetDriver.url \/ l # call[c].line => Says(envs[r], l, told[r][l])
<1>1. call[c].at \in Serving
  BY DEF Cleaning, Serving
<1>2. \A d \in Calls \ {c} : call[d].at \notin Serving
  BY <1>1, Sole
<1>3. /\ Knows(call[c])
      /\ \A r \in Panels, l \in Lines :
            r # GetDriver.url \/ l # call[c].line => Says(envs[r], l, told[r][l])
  BY <1>2, ListedNow DEF IInv
<1>4. Cleans(call[c])
  BY <1>3 DEF Knows
<1>5. QED
  BY <1>3, <1>4 DEF Cleans

\* A PUT of a clean-up changes one variable, and in it the account's line only.
LEMMA PutsBack ==
  ASSUME IInv, ~shared, NEW c \in Calls, call[c].at \in Cleaning, NEW i \in DOMAIN call[c].seen,
         NEW value \in SUBSET Lines, \A l \in Lines \ {call[c].line} : l \in value <=> l \in call[c].seen[i],
         envs' = [envs EXCEPT ![GetDriver.url] = Put(GetDriver.url, i, value)],
         manager' = manager
  PROVE  /\ GetDriver'.url = GetDriver.url
         /\ DOMAIN envs'[GetDriver.url] = DOMAIN call[c].seen
         /\ envs'[GetDriver.url][i] = value
         /\ \A j \in DOMAIN call[c].seen \ {i} :
               envs'[GetDriver.url][j] = envs[GetDriver.url][j]
         /\ \A j \in DOMAIN call[c].seen, l \in Lines \ {call[c].line} :
               l \in envs'[GetDriver.url][j] <=> l \in call[c].seen[j]
         /\ \A r \in Panels, l \in Lines :
               r # GetDriver.url \/ l # call[c].line => Says(envs'[r], l, told[r][l])
<1> DEFINE p == GetDriver.url
           seen == call[c].seen
           line == call[c].line
<1>1. /\ p \in Panels /\ DOMAIN envs[p] = DOMAIN seen
      /\ \A j \in DOMAIN seen : \A l \in Lines \ {line} : l \in envs[p][j] <=> l \in seen[j]
      /\ \A r \in Panels, l \in Lines : r # p \/ l # line => Says(envs[r], l, told[r][l])
  BY CleanNow DEF Same
<1>2. EnvsOK /\ envs'[p] = Put(p, i, value) /\ \A r \in Panels \ {p} : envs'[r] = envs[r]
  BY <1>1 DEF IInv, Typed, EnvsOK
<1>3. GetDriver'.url = p
  BY DEF GetDriver
<1> HIDE DEF p, seen, line
<1>4. /\ DOMAIN envs'[p] = DOMAIN seen /\ envs'[p][i] = value
      /\ \A j \in DOMAIN seen \ {i} : envs'[p][j] = envs[p][j]
  <2>1. i \in DOMAIN envs[p]
    BY <1>1 DEF seen
  <2>2. /\ DOMAIN Put(p, i, value) = DOMAIN envs[p] /\ Put(p, i, value)[i] = value
        /\ \A j \in DOMAIN envs[p] : j # i => Put(p, i, value)[j] = envs[p][j]
    BY <1>1, <1>2, <2>1, PutAt
  <2>3. QED
    BY <1>1, <1>2, <2>2
<1>5. \A l \in Lines \ {line} : l \in value <=> l \in seen[i]
  BY DEF seen, line
<1>6. \A j \in DOMAIN seen, l \in Lines \ {line} : l \in envs'[p][j] <=> l \in seen[j]
  BY <1>1, <1>4, <1>5
<1>7. ASSUME NEW r \in Panels, NEW l \in Lines, r # p \/ l # line
      PROVE  Says(envs'[r], l, told[r][l])
  <2>1. Says(envs[r], l, told[r][l])
    BY <1>1, <1>7
  <2>2. Occurrences(envs'[r], l) = Occurrences(envs[r], l)
    <3>1. CASE r # p
      BY <1>2, <3>1 DEF Occurrences
    <3>2. CASE r = p
      <4>1. l \in Lines \ {line}
        BY <1>7, <3>2
      <4>2. DOMAIN envs'[p] = DOMAIN envs[p]
            /\ \A j \in DOMAIN envs[p] : l \in envs'[p][j] <=> l \in envs[p][j]
        BY <1>1, <1>4, <1>6, <4>1
      <4>3. QED
        BY <3>2, <4>2 DEF Occurrences
    <3>3. QED
      BY <3>1, <3>2
  <2>3. QED
    BY <2>1, <2>2 DEF Says
<1>8. QED
  BY <1>3, <1>4, <1>6, <1>7 DEF p, seen, line

\* One variable is changed, or the answer is lost and the roll-back begins.
LEMMA RemoveEntryStep ==
  ASSUME IInv, NEW c \in Calls, RemoveEntry(c)
  PROVE  IInv'
<1> DEFINE i == Min(call[c].left)
           p == GetDriver.url
           line == call[c].line
           seen == call[c].seen
           value == Without(seen[i], line)
           x == [call[c] EXCEPT !.left = call[c].left \ {i}, !.done = call[c].done \cup {i}]
           y == [call[c] EXCEPT !.at = "undoing"]
<1>1. /\ call[c].at = "removing" /\ call[c].at \in Serving /\ call[c].at \in Cleaning
      /\ call[c].left # {} /\ p \in Panels
  BY DEF RemoveEntry, Works, Serving, Cleaning
<1>2. /\ call[c] \in Call /\ CallOK(call[c]) /\ line \in Lines /\ line \in Accounts /\ seen \in Lists
      /\ \A j \in DOMAIN seen : seen[j] \subseteq Lines
      /\ call[c].left \subseteq DOMAIN seen /\ call[c].left \subseteq 1 .. MaxEnvs
      /\ call[c].done \subseteq DOMAIN seen /\ call[c].done \subseteq 1 .. MaxEnvs
  BY <1>1, ServeNow DEF CallOK, Call
<1>3. i \in call[c].left /\ i \in DOMAIN seen /\ i \in 1 .. MaxEnvs
  BY <1>1, <1>2, Least, PanelAssumption
<1>4. value \in SUBSET Lines
  BY <1>2, <1>3 DEF Without
<1>5. /\ x \in Call /\ x.at = "removing" /\ x.line = line /\ x.seen = seen
      /\ x.left = call[c].left \ {i} /\ x.done = call[c].done \cup {i}
      /\ y \in Call /\ y.at = "undoing" /\ y.line = line /\ y.seen = seen
      /\ y.done = call[c].done
  BY <1>1, <1>2, <1>3 DEF Call, Stages
<1>6. CallOK(x) /\ CallOK(y)
  BY <1>1, <1>2, <1>3, <1>5 DEF CallOK
<1>7. /\ envs' = [envs EXCEPT ![p] = Put(p, i, value)]
      /\ UNCHANGED <<settings, manager, torn, shared, restarts>>
      /\ \/ call' = [call EXCEPT ![c] = x] /\ told' = told
         \/ call' = [call EXCEPT ![c] = y] /\ told' = [told EXCEPT ![p][line] = "unknown"]
  BY <1>2 DEF RemoveEntry, Tell, IInv, Typed, CallsOK
<1>8. EnvsOK' /\ ToldOK'
  <2>1. EnvsOK /\ ToldOK
    BY DEF IInv, Typed
  <2>2. Put(p, i, value) \in Lists /\ (p \in Daidais => Len(Put(p, i, value)) <= 1)
    BY <1>1, <1>4, <2>1, PutOK
  <2>3. EnvsOK'
    BY <1>1, <1>7, <2>1, <2>2 DEF EnvsOK
  <2>4. ToldOK'
    BY <1>1, <1>2, <1>7, <2>1 DEF ToldOK
  <2>5. QED
    BY <2>3, <2>4
<1> HIDE DEF x, y, value
<1>9. ASSUME ~shared
      PROVE  /\ GetDriver'.url = p /\ DOMAIN envs'[p] = DOMAIN seen
             /\ envs'[p][i] = value
             /\ \A j \in DOMAIN seen \ {i} : envs'[p][j] = envs[p][j]
             /\ \A j \in DOMAIN seen, l \in Lines \ {line} : l \in envs'[p][j] <=> l \in seen[j]
             /\ \A r \in Panels, l \in Lines : r # p \/ l # line => Says(envs'[r], l, told[r][l])
  <2>1. \A l \in Lines \ {line} : l \in value <=> l \in seen[i]
    BY DEF Without, value
  <2>2. envs' = [envs EXCEPT ![p] = Put(p, i, value)] /\ manager' = manager
    BY <1>7
  <2> HIDE DEF i
  <2>3. QED
    BY <1>1, <1>3, <1>4, <1>9, <2>1, <2>2, PutsBack
<1>10. ASSUME ~shared
       PROVE  /\ Removes(call[c]) /\ Says(seen, line, told[p][line])
  BY <1>1, <1>10, CleanNow DEF Knows
<1>11. line \notin value
  BY DEF value, Without
<1> HIDE DEF p, seen, line, i
<1>12. CASE call' = [call EXCEPT ![c] = x] /\ told' = told
  <2>1. /\ Others(c) /\ call'[c] = x /\ Apart' /\ Typed' /\ Steady' /\ SavedSoFar'
        /\ ~shared' => ~shared
        /\ ~shared => /\ \A d \in Calls \ {c} : call[d].at \notin Serving
                      /\ \A d \in Calls \ {c} : call'[d].at \notin Serving
    BY <1>1, <1>5, <1>6, <1>7, <1>8, <1>12, ServeFrame DEF Serving
  <2>2. ASSUME ~shared'
        PROVE  Knows(call[c])'
    <3>1. ~shared
      BY <2>1, <2>2
    <3>2. Cleans(call[c])'
      BY <1>1, <1>5, <1>9, <1>10, <1>12, <2>1, <3>1 DEF Cleans, Same, Says, Occurrences
    <3>3. Occurrences(seen, line) \subseteq x.left \cup x.done
      BY <1>1, <1>5, <1>10, <3>1 DEF Removes, seen, line
    <3>4. ASSUME NEW j \in DOMAIN seen
          PROVE  IF j \in x.done THEN line \notin envs'[p][j]
                                 ELSE line \in envs'[p][j] <=> line \in seen[j]
      <4>1. CASE j = i
        BY <1>5, <1>9, <1>11, <3>1, <4>1
      <4>2. CASE j # i
        <5>1. envs'[p][j] = envs[p][j]
          BY <1>9, <3>1, <3>4, <4>2
        <5>2. IF j \in call[c].done THEN line \notin envs[p][j]
                                    ELSE line \in envs[p][j] <=> line \in seen[j]
          BY <1>1, <1>10, <3>1, <3>4 DEF Removes, Same, p, seen, line
        <5>3. j \in x.done <=> j \in call[c].done
          BY <1>5, <4>2
        <5>4. QED
          BY <5>1, <5>2, <5>3
      <4>3. QED
        BY <4>1, <4>2
    <3>5. Removes(call[c])'
      BY <1>5, <1>9, <2>1, <3>1, <3>3, <3>4 DEF Removes, Same, Occurrences
    <3>6. QED
      BY <1>5, <2>1, <3>2, <3>5 DEF Knows, Merges, Writes, Undoes
  <2>3. Listed'
    <3>1. ASSUME ~shared', NEW r \in Panels, NEW l \in Lines,
                 ~(call'[c].at \in Cleaning /\ r = manager'.driver.url /\ l = call'[c].line)
          PROVE  Says(envs[r], l, told[r][l])'
      <4>1. r # p \/ l # line
        BY <1>5, <1>9, <2>1, <3>1 DEF Cleaning, GetDriver
      <4>2. QED
        BY <1>9, <1>12, <2>1, <3>1, <4>1 DEF Says, Occurrences
    <3>2. QED
      BY <2>1, <2>2, <3>1, ListedFrom
  <2>4. QED
    BY <2>1, <2>3 DEF IInv
<1>13. CASE call' = [call EXCEPT ![c] = y] /\ told' = [told EXCEPT ![p][line] = "unknown"]
  <2>1. /\ Others(c) /\ call'[c] = y /\ Apart' /\ Typed' /\ Steady' /\ SavedSoFar'
        /\ ~shared' => ~shared
        /\ ~shared => /\ \A d \in Calls \ {c} : call[d].at \notin Serving
                      /\ \A d \in Calls \ {c} : call'[d].at \notin Serving
    BY <1>1, <1>5, <1>6, <1>7, <1>8, <1>13, ServeFrame DEF Serving
  <2>2. /\ told'[p][line] = "unknown"
        /\ \A r \in Panels, l \in Lines : r # p \/ l # line => told'[r][l] = told[r][l]
    BY <1>1, <1>2, <1>13 DEF IInv, Typed, ToldOK
  <2>3. ASSUME ~shared'
        PROVE  Knows(call[c])'
    <3>1. ~shared
      BY <2>1, <2>3
    <3>2. Cleans(call[c])'
      BY <1>1, <1>5, <1>9, <2>1, <2>2, <3>1 DEF Cleans, Same, Says, Occurrences
    <3>3. Undoes(call[c])'
      BY <1>5, <1>9, <2>1, <2>2, <3>1 DEF Undoes
    <3>4. QED
      BY <1>5, <2>1, <3>2, <3>3 DEF Knows, Merges, Writes, Removes
  <2>4. Listed'
    <3>1. ASSUME ~shared', NEW r \in Panels, NEW l \in Lines,
                 ~(call'[c].at \in Cleaning /\ r = manager'.driver.url /\ l = call'[c].line)
          PROVE  Says(envs[r], l, told[r][l])'
      <4>1. r # p \/ l # line
        BY <1>5, <1>9, <2>1, <3>1 DEF Cleaning, GetDriver
      <4>2. Says(envs'[r], l, told[r][l]) /\ told'[r][l] = told[r][l]
        BY <1>9, <2>1, <2>2, <3>1, <4>1
      <4>3. QED
        BY <4>2 DEF Says, Occurrences
    <3>2. QED
      BY <2>1, <2>3, <3>1, ListedFrom
  <2>5. QED
    BY <2>1, <2>4 DEF IInv
<1>14. QED
  BY <1>7, <1>12, <1>13

\* The deletion has gone through: every occurrence was taken off.
LEMMA DeleteCronsStep ==
  ASSUME IInv, NEW c \in Calls, DeleteCrons(c)
  PROVE  IInv'
<1> DEFINE p == GetDriver.url
           line == call[c].line
           seen == call[c].seen
<1>1. /\ call[c].at = "removing" /\ call[c].at \in Serving /\ call[c].at \in Cleaning
      /\ call[c].left = {} /\ p \in Panels
  BY DEF DeleteCrons, Works, Serving, Cleaning
<1>2. line \in Lines
  BY <1>1, ServeNow
<1>3. /\ call' = [call EXCEPT ![c] = Idle] /\ told' = [told EXCEPT ![p][line] = "off"]
      /\ UNCHANGED <<settings, manager, envs, torn, shared, restarts>>
  BY DEF DeleteCrons, Finish, Tell
<1>4. EnvsOK' /\ ToldOK'
  BY <1>1, <1>2, <1>3 DEF IInv, Typed, EnvsOK, ToldOK
<1>5. /\ Others(c) /\ call'[c] = Idle /\ Apart' /\ Typed' /\ Steady' /\ SavedSoFar'
      /\ ~shared' => ~shared
      /\ ~shared => /\ \A d \in Calls \ {c} : call[d].at \notin Serving
                    /\ \A d \in Calls \ {c} : call'[d].at \notin Serving
  BY <1>1, <1>3, <1>4, IdleOK, ServeFrame
<1>6. /\ told'[p][line] = "off"
      /\ \A r \in Panels, l \in Lines : r # p \/ l # line => told'[r][l] = told[r][l]
  BY <1>1, <1>2, <1>3 DEF IInv, Typed, ToldOK
<1>7. ASSUME ~shared
      PROVE  Occurrences(envs[p], line) = {}
  <2>1. Removes(call[c]) /\ DOMAIN envs[p] = DOMAIN seen
    BY <1>1, <1>7, CleanNow DEF Knows
  <2>2. ASSUME NEW i \in DOMAIN envs[p]
        PROVE  line \notin envs[p][i]
    <3>1. line \in seen[i] => i \in call[c].done
      BY <1>1, <2>1, <2>2 DEF Removes, Occurrences
    <3>2. QED
      BY <1>1, <2>1, <2>2, <3>1 DEF Removes, Same
  <2>3. QED
    BY <2>2 DEF Occurrences
<1>8. ASSUME ~shared, NEW r \in Panels, NEW l \in Lines, r # p \/ l # line
      PROVE  Says(envs[r], l, told[r][l])
  BY <1>1, <1>8, CleanNow
<1> HIDE DEF p, line
<1>9. Listed'
  <2>1. Knows(call[c])'
    BY <1>5, IdleOK DEF Knows, Merges, Writes, Cleans, Removes, Undoes, Cleaning
  <2>2. ASSUME ~shared', NEW r \in Panels, NEW l \in Lines
        PROVE  Says(envs[r], l, told[r][l])'
    <3>1. CASE r = p /\ l = line
      BY <1>3, <1>5, <1>6, <1>7, <2>2, <3>1 DEF Says, Occurrences
    <3>2. CASE r # p \/ l # line
      <4>1. Says(envs[r], l, told[r][l]) /\ told'[r][l] = told[r][l]
        BY <1>5, <1>6, <1>8, <2>2, <3>2
      <4>2. QED
        BY <1>3, <4>1 DEF Says, Occurrences
    <3>3. QED
      BY <3>1, <3>2
  <2>3. QED
    BY <1>5, <2>1, <2>2, ListedFrom
<1>10. QED
  BY <1>5, <1>9 DEF IInv

\* The roll-back begins.
LEMMA CleanupFailsStep ==
  ASSUME IInv, NEW c \in Calls, CleanupFails(c)
  PROVE  IInv'
<1> DEFINE p == GetDriver.url
           line == call[c].line
           seen == call[c].seen
           q == [call[c] EXCEPT !.at = "undoing"]
<1>1. call[c].at = "removing" /\ call[c].at \in Serving /\ call[c].at \in Cleaning
  BY DEF CleanupFails, Serving, Cleaning
<1>2. call[c] \in Call /\ CallOK(call[c]) /\ line \in Accounts /\ line \in Lines
  BY <1>1, ServeNow
<1>3. q \in Call /\ q.at = "undoing" /\ q.line = line /\ q.seen = seen /\ q.done = call[c].done
  BY <1>2 DEF Call, Stages
<1>4. CallOK(q)
  BY <1>2, <1>3 DEF CallOK
<1>5. call' = [call EXCEPT ![c] = q]
      /\ UNCHANGED <<settings, manager, envs, told, torn, shared, restarts>>
  BY <1>2 DEF CleanupFails, IInv, Typed, CallsOK
<1>6. EnvsOK' /\ ToldOK'
  BY <1>5 DEF IInv, Typed, EnvsOK, ToldOK
<1> HIDE DEF q
<1>7. /\ Others(c) /\ call'[c] = q /\ Apart' /\ Typed' /\ Steady' /\ SavedSoFar'
      /\ ~shared' => ~shared
      /\ ~shared => /\ \A d \in Calls \ {c} : call[d].at \notin Serving
                    /\ \A d \in Calls \ {c} : call'[d].at \notin Serving
  BY <1>1, <1>3, <1>4, <1>5, <1>6, ServeFrame DEF Serving
<1>8. GetDriver' = GetDriver
  BY <1>5 DEF GetDriver
<1>9. ASSUME ~shared'
      PROVE  Knows(call[c])'
  <2>1. ~shared /\ Cleans(call[c]) /\ Removes(call[c])
    BY <1>1, <1>7, <1>9, CleanNow DEF Knows
  <2>2. Cleans(call[c])'
    BY <1>1, <1>3, <1>5, <1>7, <1>8, <2>1 DEF Cleans, Same, Says, Occurrences
  <2>3. Undoes(call[c])'
    BY <1>1, <1>3, <1>5, <1>7, <1>8, <2>1 DEF Undoes, Removes, Same
  <2>4. QED
    BY <1>3, <1>7, <2>2, <2>3 DEF Knows, Merges, Writes, Removes
<1>10. Listed'
  <2>1. ASSUME ~shared', NEW r \in Panels, NEW l \in Lines,
               ~(call'[c].at \in Cleaning /\ r = manager'.driver.url /\ l = call'[c].line)
        PROVE  Says(envs[r], l, told[r][l])'
    <3>1. r # p \/ l # line
      BY <1>3, <1>7, <1>8, <2>1 DEF Cleaning, GetDriver
    <3>2. Says(envs[r], l, told[r][l])
      BY <1>1, <1>7, <2>1, <3>1, CleanNow
    <3>3. QED
      BY <1>5, <3>2 DEF Says, Occurrences
  <2>2. QED
    BY <1>7, <1>9, <2>1, ListedFrom
<1>11. QED
  BY <1>7, <1>10 DEF IInv

\* One variable gets its value back, or it is not known whether it did.
LEMMA UndoStep ==
  ASSUME IInv, NEW c \in Calls, Undo(c)
  PROVE  IInv'
<1> DEFINE i == Max(call[c].done)
           p == GetDriver.url
           line == call[c].line
           seen == call[c].seen
           value == seen[i]
           q == [call[c] EXCEPT !.done = call[c].done \ {i}]
<1>1. /\ call[c].at = "undoing" /\ call[c].at \in Serving /\ call[c].at \in Cleaning
      /\ call[c].done # {}
  BY DEF Undo, Serving, Cleaning
<1>2. /\ call[c] \in Call /\ CallOK(call[c]) /\ line \in Lines /\ line \in Accounts /\ seen \in Lists
      /\ \A j \in DOMAIN seen : seen[j] \subseteq Lines
      /\ call[c].done \subseteq DOMAIN seen /\ call[c].done \subseteq 1 .. MaxEnvs
  BY <1>1, ServeNow
<1>3. i \in call[c].done /\ i \in DOMAIN seen
  BY <1>1, <1>2, Greatest, PanelAssumption
<1>4. value \in SUBSET Lines
  BY <1>2, <1>3
<1>5. q \in Call /\ q.at = "undoing" /\ q.line = line /\ q.seen = seen
      /\ q.done = call[c].done \ {i}
  BY <1>1, <1>2 DEF Call
<1>6. CallOK(q)
  BY <1>1, <1>2, <1>5 DEF CallOK
<1>7. /\ call' = [call EXCEPT ![c] = q]
      /\ UNCHANGED <<settings, manager, torn, shared, restarts>>
      /\ \/ /\ p \in Panels /\ envs' = [envs EXCEPT ![p] = Put(p, i, value)] /\ told' = told
         \/ /\ envs' = envs
            /\ told' = [r \in Panels |-> [told[r] EXCEPT ![line] = "unknown"]]
  BY <1>2 DEF Undo, Works, IInv, Typed, CallsOK
<1>8. EnvsOK' /\ ToldOK'
  <2>1. EnvsOK /\ ToldOK
    BY DEF IInv, Typed
  <2>2. p \in Panels => Put(p, i, value) \in Lists /\ (p \in Daidais => Len(Put(p, i, value)) <= 1)
    BY <1>4, <2>1, PutOK
  <2> HIDE DEF i, p, value
  <2>3. EnvsOK'
    <3>1. CASE p \in Panels /\ envs' = [envs EXCEPT ![p] = Put(p, i, value)]
      BY <2>1, <2>2, <3>1 DEF EnvsOK
    <3>2. CASE envs' = envs
      BY <2>1, <3>2 DEF EnvsOK
    <3>3. QED
      BY <1>7, <3>1, <3>2
  <2>4. ToldOK'
    BY <1>2, <1>7, <2>1 DEF ToldOK
  <2>5. QED
    BY <2>3, <2>4
<1> HIDE DEF q
<1>9. /\ Others(c) /\ call'[c] = q /\ Apart' /\ Typed' /\ Steady' /\ SavedSoFar'
      /\ ~shared' => ~shared
      /\ ~shared => /\ \A d \in Calls \ {c} : call[d].at \notin Serving
                    /\ \A d \in Calls \ {c} : call'[d].at \notin Serving
  BY <1>1, <1>5, <1>6, <1>7, <1>8, ServeFrame DEF Serving
<1>10. ASSUME ~shared
       PROVE  /\ p \in Panels /\ DOMAIN envs[p] = DOMAIN seen
              /\ \A j \in DOMAIN seen, l \in Lines \ {line} : l \in envs[p][j] <=> l \in seen[j]
              /\ Says(seen, line, told[p][line])
              /\ \A r \in Panels, l \in Lines : r # p \/ l # line => Says(envs[r], l, told[r][l])
              /\ told[p][line] # "unknown" =>
                    \A j \in DOMAIN seen \ call[c].done : line \in envs[p][j] <=> line \in seen[j]
  BY <1>1, <1>10, CleanNow DEF Knows, Undoes, Same
<1>11. GetDriver'.url = p
  BY <1>7 DEF GetDriver
<1>12. ASSUME ~shared, p \in Panels, envs' = [envs EXCEPT ![p] = Put(p, i, value)]
       PROVE  /\ DOMAIN envs'[p] = DOMAIN seen /\ envs'[p][i] = value
              /\ \A j \in DOMAIN seen \ {i} : envs'[p][j] = envs[p][j]
              /\ \A j \in DOMAIN seen, l \in Lines \ {line} : l \in envs'[p][j] <=> l \in seen[j]
              /\ \A r \in Panels, l \in Lines : r # p \/ l # line => Says(envs'[r], l, told[r][l])
  <2>1. manager' = manager /\ \A l \in Lines \ {line} : l \in value <=> l \in seen[i]
    BY <1>7
  <2> HIDE DEF i, value
  <2>2. QED
    BY <1>1, <1>3, <1>4, <1>12, <2>1, PutsBack
<1> HIDE DEF i, p, line, seen
<1>13. CASE p \in Panels /\ envs' = [envs EXCEPT ![p] = Put(p, i, value)] /\ told' = told
  <2>1. ASSUME ~shared'
        PROVE  Knows(call[c])'
    <3>1. ~shared
      BY <1>9, <2>1
    <3>2. Cleans(call[c])'
      BY <1>5, <1>9, <1>10, <1>11, <1>12, <1>13, <3>1 DEF Cleans, Same, Says, Occurrences
    <3>3. ASSUME told[p][line] # "unknown", NEW j \in DOMAIN seen \ q.done
          PROVE  line \in envs'[p][j] <=> line \in seen[j]
      <4>1. CASE j = i
        BY <1>12, <1>13, <3>1, <4>1
      <4>2. CASE j # i
        BY <1>5, <1>10, <1>12, <1>13, <3>1, <3>3, <4>2
      <4>3. QED
        BY <4>1, <4>2
    <3>4. Undoes(call[c])'
      BY <1>5, <1>9, <1>11, <1>13, <3>3 DEF Undoes, Same
    <3>5. QED
      BY <1>5, <1>9, <3>2, <3>4 DEF Knows, Merges, Writes, Removes
  <2>2. ASSUME ~shared', NEW r \in Panels, NEW l \in Lines,
               ~(call'[c].at \in Cleaning /\ r = manager'.driver.url /\ l = call'[c].line)
        PROVE  Says(envs[r], l, told[r][l])'
    <3>1. r # p \/ l # line
      BY <1>5, <1>9, <1>11, <2>2 DEF Cleaning, GetDriver
    <3>2. Says(envs'[r], l, told[r][l])
      BY <1>9, <1>12, <1>13, <2>2, <3>1
    <3>3. QED
      BY <1>13, <3>2 DEF Says, Occurrences
  <2>3. Listed'
    BY <1>9, <2>1, <2>2, ListedFrom
  <2>4. QED
    BY <1>9, <2>3 DEF IInv
<1>14. CASE envs' = envs /\ told' = [r \in Panels |-> [told[r] EXCEPT ![line] = "unknown"]]
  <2>1. /\ \A r \in Panels : told'[r][line] = "unknown"
        /\ \A r \in Panels, l \in Lines \ {line} : told'[r][l] = told[r][l]
    BY <1>2, <1>14 DEF IInv, Typed, ToldOK
  <2>2. ASSUME ~shared'
        PROVE  Knows(call[c])'
    <3>1. ~shared
      BY <1>9, <2>2
    <3>2. Cleans(call[c])'
      BY <1>5, <1>9, <1>10, <1>11, <1>14, <2>1, <3>1 DEF Cleans, Same, Says, Occurrences
    <3>3. Undoes(call[c])'
      BY <1>5, <1>9, <1>10, <1>11, <2>1, <3>1 DEF Undoes
    <3>4. QED
      BY <1>5, <1>9, <3>2, <3>3 DEF Knows, Merges, Writes, Removes
  <2>3. ASSUME ~shared', NEW r \in Panels, NEW l \in Lines
        PROVE  Says(envs[r], l, told[r][l])'
    <3>1. CASE l = line
      BY <2>1, <3>1 DEF Says
    <3>2. CASE l # line
      <4>1. Says(envs[r], l, told[r][l]) /\ told'[r][l] = told[r][l]
        BY <1>9, <1>10, <2>1, <2>3, <3>2
      <4>2. QED
        BY <1>14, <4>1 DEF Says, Occurrences
    <3>3. QED
      BY <3>1, <3>2
  <2>4. Listed'
    BY <1>9, <2>2, <2>3, ListedFrom
  <2>5. QED
    BY <1>9, <2>4 DEF IInv
<1>15. QED
  BY <1>7, <1>13, <1>14

\* Unless it is not known, everything is back.
LEMMA UndoEndsStep ==
  ASSUME IInv, NEW c \in Calls, UndoEnds(c)
  PROVE  IInv'
<1> DEFINE p == GetDriver.url
           line == call[c].line
           seen == call[c].seen
<1>1. /\ call[c].at = "undoing" /\ call[c].at \in Serving /\ call[c].at \in Cleaning
      /\ call[c].done = {}
  BY DEF UndoEnds, Serving, Cleaning
<1>2. /\ call' = [call EXCEPT ![c] = Idle]
      /\ UNCHANGED <<settings, manager, envs, told, torn, shared, restarts>>
  BY DEF UndoEnds, Finish
<1>3. EnvsOK' /\ ToldOK'
  BY <1>2 DEF IInv, Typed, EnvsOK, ToldOK
<1>4. /\ Others(c) /\ call'[c] = Idle /\ Apart' /\ Typed' /\ Steady' /\ SavedSoFar'
      /\ ~shared' => ~shared
      /\ ~shared => /\ \A d \in Calls \ {c} : call[d].at \notin Serving
                    /\ \A d \in Calls \ {c} : call'[d].at \notin Serving
  BY <1>1, <1>2, <1>3, IdleOK, ServeFrame
<1>5. ASSUME ~shared, NEW r \in Panels, NEW l \in Lines
      PROVE  Says(envs[r], l, told[r][l])
  <2>1. CASE r # p \/ l # line
    BY <1>1, <1>5, <2>1, CleanNow
  <2>2. CASE r = p /\ l = line
    <3>1. /\ Undoes(call[c]) /\ Says(seen, line, told[p][line]) /\ DOMAIN envs[p] = DOMAIN seen
      BY <1>1, <1>5, CleanNow DEF Knows
    <3>2. CASE told[p][line] = "unknown"
      BY <2>2, <3>2 DEF Says
    <3>3. CASE told[p][line] # "unknown"
      <4>1. \A i \in DOMAIN seen : line \in envs[p][i] <=> line \in seen[i]
        BY <1>1, <3>1, <3>3 DEF Undoes, Same
      <4>2. Occurrences(envs[p], line) = Occurrences(seen, line)
        BY <3>1, <4>1 DEF Occurrences
      <4>3. QED
        BY <2>2, <3>1, <4>2 DEF Says
    <3>4. QED
      BY <3>2, <3>3
  <2>3. QED
    BY <2>1, <2>2
<1>6. Listed'
  <2>1. Knows(call[c])'
    BY <1>4, IdleOK DEF Knows, Merges, Writes, Cleans, Removes, Undoes, Cleaning
  <2>2. ASSUME ~shared', NEW r \in Panels, NEW l \in Lines
        PROVE  Says(envs[r], l, told[r][l])'
    <3>1. Says(envs[r], l, told[r][l])
      BY <1>4, <1>5, <2>2
    <3>2. QED
      BY <1>2, <3>1 DEF Says, Occurrences
  <2>3. QED
    BY <1>4, <2>1, <2>2, ListedFrom
<1>7. QED
  BY <1>4, <1>6 DEF IInv

\* A start makes the manager from what is saved; of what was under way nothing is known.
LEMMA RestartStep ==
  ASSUME IInv, Restart
  PROVE  IInv'
<1>1. /\ call' = [c \in Calls |-> Idle] /\ manager' = Manager(settings)
      /\ UNCHANGED <<settings, envs, torn, shared>> /\ restarts < MaxRestarts
      /\ restarts' = restarts + 1
      /\ told' = [p \in Panels |-> [l \in Lines |->
                    IF \E c \in Calls : call[c].at # "idle" /\ call[c].line = l /\ l # Foreign
                    THEN "unknown" ELSE told[p][l]]]
  BY DEF Restart
<1>2. Idle \in Call /\ CallOK(Idle) /\ Idle.at = "idle"
  BY IdleOK
<1>3. Typed'
  <2>1. ManagerOK'
    BY <1>1 DEF IInv, Typed, ManagerOK, Manager
  <2>2. EnvsOK'
    BY <1>1 DEF IInv, Typed, EnvsOK
  <2>3. CallsOK'
    BY <1>1, <1>2 DEF CallsOK
  <2>4. ToldOK'
    BY <1>1 DEF IInv, Typed, ToldOK
  <2>5. FlagsOK'
    BY <1>1, PanelAssumption DEF IInv, Typed, FlagsOK
  <2>6. QED
    BY <2>1, <2>2, <2>3, <2>4, <2>5 DEF Typed
<1>4. Apart' /\ Steady'
  BY <1>1, <1>2 DEF Apart, Sharing, Steady, DriverMatches, Manager
<1>5. SavedSoFar'
  BY <1>1, <1>2 DEF IInv, SavedSoFar, SavedBy, Matched, Manager
<1>6. Listed'
  <2>1. ASSUME NEW c \in Calls
        PROVE  Knows(call[c])'
    BY <1>1, <1>2 DEF Knows, Merges, Writes, Cleans, Removes, Undoes, Cleaning
  <2>2. ASSUME ~shared', NEW p \in Panels, NEW l \in Lines
        PROVE  Says(envs[p], l, told[p][l])'
    <3>1. CASE \E c \in Calls : call[c].at # "idle" /\ call[c].line = l /\ l # Foreign
      BY <1>1, <3>1 DEF Says
    <3>2. CASE ~ \E c \in Calls : call[c].at # "idle" /\ call[c].line = l /\ l # Foreign
      <4>1. ~CleanedNow(p, l)
        <5>1. SUFFICES ASSUME NEW c \in Calls, call[c].at \in Cleaning, l = call[c].line
                       PROVE  FALSE
          BY DEF CleanedNow
        <5>2. call[c].at \in Serving /\ call[c].at # "idle"
          BY <5>1 DEF Cleaning, Serving
        <5>3. l # Foreign
          BY <5>1, <5>2, ServeNow, PanelAssumption
        <5>4. QED
          BY <3>2, <5>1, <5>2, <5>3
      <4>2. Says(envs[p], l, told[p][l]) /\ told'[p][l] = told[p][l]
        BY <1>1, <2>2, <3>2, <4>1 DEF IInv, Listed
      <4>3. QED
        BY <1>1, <4>2 DEF Says, Occurrences
    <3>3. QED
      BY <3>1, <3>2
  <2>3. QED
    BY <2>1, <2>2 DEF Listed
<1>7. QED
  BY <1>3, <1>4, <1>5, <1>6 DEF IInv
----------------------------------------------------------------------------
(* The inductive invariant *)

\* The invariant holds at the start ...
LEMMA InitHolds == Init => IInv
<1> SUFFICES ASSUME Init
             PROVE  IInv
  OBVIOUS
<1>1. \A c \in Calls : call[c] = Idle
  BY DEF Init
<1>2. Idle \in Call /\ CallOK(Idle) /\ Idle.at = "idle" /\ Empty \in Config
  BY IdleOK
<1>3. settings \in Config /\ settings.secret = settings.url
  <2>1. CASE settings = Empty
    BY <1>2, <2>1 DEF Empty
  <2>2. CASE \E p \in Panels : settings = [type |-> Kind(p), url |-> p, secret |-> p]
    BY <2>2 DEF Config, Kind, Types
  <2>3. QED
    BY <2>1, <2>2 DEF Init
<1>4. ManagerOK
  BY <1>3 DEF Init, Manager, ManagerOK
<1>5. EnvsOK /\ CallsOK
  BY <1>1, <1>2 DEF Init, EnvsOK, CallsOK
<1>6. ToldOK /\ FlagsOK
  <2>1. FlagsOK
    <3>1. 0 \in 0 .. MaxRestarts
      BY PanelAssumption
    <3>2. QED
      BY <3>1, Zenon DEF Init, FlagsOK
  <2>2. \A p \in Panels, l \in Lines :
           (IF Occurrences(envs[p], l) = {} THEN "off" ELSE "on") \in {"on", "off", "unknown"}
    OBVIOUS
  <2>3. ToldOK
    BY <2>2 DEF Init, ToldOK
  <2>4. QED
    BY <2>1, <2>3
<1>7. Apart /\ Steady /\ SavedSoFar
  BY <1>1, <1>2, <1>3
     DEF Init, Apart, Sharing, Steady, DriverMatches, Manager, SavedSoFar, SavedBy, Matched
<1>8. Listed
  <2>1. ASSUME NEW c \in Calls
        PROVE  Knows(call[c])
    BY <1>1, <1>2 DEF Knows, Merges, Writes, Cleans, Removes, Undoes, Cleaning
  <2>2. ASSUME NEW p \in Panels, NEW l \in Lines
        PROVE  Says(envs[p], l, told[p][l])
    BY DEF Init, Says
  <2>3. QED
    BY <2>1, <2>2 DEF Listed
<1>9. QED
  BY <1>4, <1>5, <1>6, <1>7, <1>8 DEF IInv, Typed

\* ... and every step keeps it.
LEMMA NextKeeps == IInv /\ [Next]_vars => IInv'
<1> SUFFICES ASSUME IInv, [Next]_vars
             PROVE  IInv'
  OBVIOUS
<1>1. ASSUME NEW c \in Calls, NEW type \in Types, NEW url \in Panels,
             NEW secret \in {url, NoPanel}, Configure(c, type, url, secret)
      PROVE  IInv'
  BY <1>1, ConfigureStep
<1>2. ASSUME NEW c \in Calls,
             Tested(c) \/ Clear(c) \/ Persist(c) \/ Reconfigure(c) \/ Status(c)
             \/ TryOtherType(c) \/ UseOtherType(c) \/ Fails(c)
      PROVE  IInv'
  BY <1>2, TestedStep, ClearStep, PersistStep, ReconfigureStep, StatusStep, TryOtherTypeStep,
     UseOtherTypeStep, FailsStep
<1>3. ASSUME NEW c \in Calls, NEW line \in Accounts, Sync(c, line) \/ Cleanup(c, line)
      PROVE  IInv'
  BY <1>3, SyncStep, CleanupStep
<1>4. ASSUME NEW c \in Calls,
             Upsert(c) \/ WriteServers(c) \/ RemoveEntry(c) \/ DeleteCrons(c)
             \/ CleanupFails(c) \/ Undo(c) \/ UndoEnds(c)
      PROVE  IInv'
  BY <1>4, UpsertStep, WriteServersStep, RemoveEntryStep, DeleteCronsStep, CleanupFailsStep,
     UndoStep, UndoEndsStep
<1>5. CASE Restart
  BY <1>5, RestartStep
<1>6. CASE UNCHANGED vars
  <2>1. UNCHANGED <<settings, manager, envs, call, torn, shared, told, restarts>>
    BY <1>6 DEF vars
  <2>2. Typed'
    BY <2>1 DEF IInv, Typed, ManagerOK, EnvsOK, CallsOK, ToldOK, FlagsOK, CallOK
  <2>3. Apart' /\ Steady' /\ SavedSoFar'
    BY <2>1 DEF IInv, Apart, Steady, DriverMatches, SavedSoFar, SavedBy, Matched
  <2>4. ASSUME NEW c \in Calls, Knows(call[c])
        PROVE  Knows(call[c])'
    BY <2>1, <2>4 DEF Knows, Merges, Writes, Cleans, Removes, Undoes, Same, Says, Occurrences, GetDriver
  <2>5. ASSUME NEW p \in Panels, NEW l \in Lines
        PROVE  /\ CleanedNow(p, l)' <=> CleanedNow(p, l)
               /\ Says(envs[p], l, told[p][l])' <=> Says(envs[p], l, told[p][l])
    BY <2>1 DEF CleanedNow, Says, Occurrences, GetDriver
  <2>6. Listed'
    BY <2>1, <2>4, <2>5 DEF IInv, Listed
  <2>7. QED
    BY <2>2, <2>3, <2>6 DEF IInv
<1>7. QED
  BY <1>1, <1>2, <1>3, <1>4, <1>5, <1>6 DEF Next

\* It holds always.
LEMMA Inductive == Spec => []IInv
<1>1. Init => IInv
  BY InitHolds
<1>2. IInv /\ [Next]_vars => IInv'
  BY NextKeeps
<1>3. QED
  BY <1>1, <1>2, PTL DEF Spec
----------------------------------------------------------------------------
(* Theorems *)

(* The variables keep their types, and the type the manager shows is that *)
(* of its driver.                                                          *)
THEOREM Typing == Spec => []TypeOK
<1>1. IInv => TypeOK
  <2> SUFFICES ASSUME IInv
               PROVE  TypeOK
    OBVIOUS
  <2>1. ASSUME NEW c \in Calls
        PROVE  /\ call[c].at \in Stages /\ call[c].config \in Config /\ call[c].line \in Lines
               /\ call[c].seen \in Lists
               /\ call[c].keys \subseteq Keys /\ call[c].left \subseteq 1 .. MaxEnvs
               /\ call[c].done \subseteq DOMAIN call[c].seen
    BY DEF IInv, Typed, CallsOK, CallOK, Call
  <2>2. QED
    BY <2>1 DEF IInv, Typed, ManagerOK, EnvsOK, ToldOK, FlagsOK, TypeOK
<1>2. QED
  BY <1>1, Inductive, PTL

(* Without overlapping calls YYB_SERVER says what the callers were told,   *)
(* however many variables of that name there are and whatever failed       *)
(* (qinglong_accounts.go:214, 282).                                        *)
THEOREM ListTold == Spec => []ListAsTold
<1>1. IInv => ListAsTold
  <2> SUFFICES ASSUME IInv, Quiet, ~shared, NEW p \in Panels, NEW l \in Lines
               PROVE  /\ told[p][l] = "on" => Occurrences(envs[p], l) # {}
                      /\ told[p][l] = "off" => Occurrences(envs[p], l) = {}
    BY DEF ListAsTold
  <2>1. ~CleanedNow(p, l)
    BY DEF CleanedNow, Quiet, Cleaning
  <2>2. QED
    BY <2>1 DEF IInv, Listed, Says
<1>2. QED
  BY <1>1, Inductive, PTL

(* Without overlapping calls and a save that stopped half-way the          *)
(* configuration in use is the saved one (handleQingLongConfig).           *)
THEOREM Saved == Spec => []SavedIsUsed
<1>1. IInv => SavedIsUsed
  BY DEF IInv, SavedSoFar, Matched, SavedIsUsed
<1>2. QED
  BY <1>1, Inductive, PTL

(* Only status can put a driver in use that is not that of the fields      *)
(* (panel_manager.go:119).                                                 *)
THEOREM StaleDriver == Spec => StaleDriverOnlyByStatus
<1> DEFINE Stale == DriverMatches(manager) /\ ~DriverMatches(manager') =>
                       \E c \in Calls : call[c].at = "retrying" /\ call'[c].at = "idle"
                                        /\ ~DriverMatches([config |-> manager.config,
                                                           driver |-> call[c].config])
<1>1. IInv /\ [Next]_vars => Stale
  <2> SUFFICES ASSUME IInv, [Next]_vars, DriverMatches(manager), ~DriverMatches(manager')
               PROVE  \E c \in Calls : call[c].at = "retrying" /\ call'[c].at = "idle"
                                       /\ ~DriverMatches([config |-> manager.config,
                                                          driver |-> call[c].config])
    OBVIOUS
  <2>1. manager' # manager
    OBVIOUS
  <2>2. \/ \E c \in Calls : Reconfigure(c) \/ UseOtherType(c)
        \/ Restart
    BY <2>1, ZenonT(30) DEF Next, vars, Configure, Tested, Clear, Persist, Status, TryOtherType, Sync,
                Cleanup, Upsert, WriteServers, RemoveEntry, DeleteCrons, CleanupFails, Undo,
                UndoEnds, Fails
  <2>3. CASE Restart
    BY <2>3 DEF Restart, Manager, DriverMatches
  <2>4. ASSUME NEW c \in Calls, Reconfigure(c)
        PROVE  FALSE
    BY <2>1, <2>4 DEF Reconfigure, Manager, DriverMatches
  <2>5. ASSUME NEW c \in Calls, UseOtherType(c)
        PROVE  /\ call[c].at = "retrying" /\ call'[c].at = "idle"
               /\ ~DriverMatches([config |-> manager.config, driver |-> call[c].config])
    <3>1. call[c].at = "retrying" /\ call' = [call EXCEPT ![c] = Idle]
      BY <2>5 DEF UseOtherType, Finish
    <3>2. call'[c].at = "idle"
      BY <3>1, IdleOK DEF IInv, Typed, CallsOK
    <3>3. /\ manager'.driver = call[c].config
          /\ manager'.config.url = manager.config.url
          /\ manager'.config.secret = manager.config.secret
      BY <2>5 DEF UseOtherType, IInv, Typed, ManagerOK, Config
    <3>4. QED
      BY <3>1, <3>2, <3>3 DEF DriverMatches
  <2>6. QED
    BY <2>2, <2>3, <2>4, <2>5
<1>2. QED
  BY <1>1, Inductive, PTL DEF Spec, StaleDriverOnlyByStatus
============================================================================
